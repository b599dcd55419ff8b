----------------------------- MODULE ZeroGravity -----------------------------
(***************************************************************************)
(* Zero gravity: is the arm kept limp exactly as long as somebody wants it? *)
(*                                                                         *)
(* zero_g_start sends 0x06 on, waits for its ACK and starts the keepalive  *)
(* thread, which repeats the frame so that the firmware's watchdog stays   *)
(* quiet.  zero_g_stop - called by users, by the destructor of a           *)
(* ZeroGSession and by close() - joins the thread and sends 0x06 off.      *)
(* Both hold zg_lock_; the keepalive does not.                             *)
(*                                                                         *)
(* One step is one access to shared state: an atomic, the stored error,    *)
(* one frame.  A frame's answer carries, as a ghost, what it answers.      *)
(***************************************************************************)
EXTENDS Integers, Sequences, FiniteSets

CONSTANTS
  Threads,     \* threads that start and stop zero gravity
  Nobody,      \* no thread
  MaxDown,     \* bound: 0x06 frames the firmware has not read yet
  MaxUp        \* bound: answers to 0x06 on their way or in their queues

ASSUME ZeroGAssumption ==
  Nobody \notin Threads /\ MaxDown \in Nat /\ MaxUp \in Nat

VARIABLES
  pc,          \* where each thread is
  raising,     \* its zero_g_stop was asked to report a lost keepalive
  wasSession,  \* its zero_g_stop found a session (was_session)
  taken,       \* its zero_g_stop took a stored error (err)
  zgLock,      \* holder of zg_lock_
  zgActive,    \* zg_active_
  zgStop,      \* zg_stop_
  zgError,     \* zg_error_ is set
  joinable,    \* zg_thread_ is joinable
  keeper,      \* where the keepalive thread is
  terminated,  \* std::terminate was called
  down,        \* 0x06 frames on their way: entry and keep (on), off
  up, mail,    \* answers on their way, and in the queues of 0x06
  (* ghosts *)
  wire,        \* the last 0x06 frame written; failed: an off that was not
  granted,     \* the firmware has accepted the last entry frame
  untold       \* the last session's keepalive was lost and nobody was thrown it

callVars == <<pc, raising, wasSession, taken, zgLock>>
flagVars == <<zgActive, zgStop, zgError, joinable, terminated>>
linkVars == <<down, up, mail>>
vars == <<callVars, flagVars, keeper, linkVars, wire, granted, untold>>

Starting == {"on", "ack", "reset", "publish", "spawn"}
Stopping == {"deactivate", "join", "takeError", "off", "return"}

Step(t, from, to) == pc[t] = from /\ pc' = [pc EXCEPT ![t] = to]

\* A thread that holds zg_lock_ is over with its call.
Leave(t, from) == Step(t, from, "idle") /\ zgLock' = Nobody

-----------------------------------------------------------------------------
Init ==
  /\ pc = [t \in Threads |-> "idle"]
  /\ raising = [t \in Threads |-> FALSE]
  /\ wasSession = [t \in Threads |-> FALSE]
  /\ taken = [t \in Threads |-> FALSE]
  /\ zgLock = Nobody /\ zgActive = FALSE /\ zgStop = FALSE /\ zgError = FALSE
  /\ joinable = FALSE /\ keeper = "none" /\ terminated = FALSE
  /\ down = <<>> /\ up = <<>> /\ mail = <<>>
  /\ wire = "none" /\ granted = FALSE /\ untold = FALSE

\* raw_write of a 0x06 frame: drain_for, then the write.
Send(kind) ==
  /\ Len(down) < MaxDown
  /\ down' = Append(down, kind) /\ mail' = <<>> /\ UNCHANGED up
  /\ wire' = kind

\* ... or write_frame throws; the queues are drained all the same.
SendFails == mail' = <<>> /\ UNCHANGED <<down, up>>

-----------------------------------------------------------------------------
(* zero_g_start                                                            *)

\* If no session is active it asks for a status first, without the lock, and
\* refuses while a Cartesian motion is under way: no call, nothing changes.
StartAsks(t) ==
  /\ Step(t, "idle", "enter")
  /\ UNCHANGED <<raising, wasSession, taken, zgLock, flagVars, keeper, linkVars, wire, granted, untold>>

\* The lock is free: an active session is left as it is ...
StartAgain(t) ==
  /\ pc[t] = "enter" /\ zgLock = Nobody /\ zgActive
  /\ pc' = [pc EXCEPT ![t] = "idle"]
  /\ UNCHANGED <<raising, wasSession, taken, zgLock, flagVars, keeper, linkVars, wire, granted, untold>>

\* ... otherwise this call opens one.
StartOpens(t) ==
  /\ zgLock = Nobody /\ ~zgActive
  /\ Step(t, "enter", "on") /\ zgLock' = t
  /\ UNCHANGED <<raising, wasSession, taken, flagVars, keeper, linkVars, wire, granted, untold>>

StartWrites(t) ==
  /\ Step(t, "on", "ack")
  /\ Send("entry") /\ granted' = FALSE
  /\ UNCHANGED <<raising, wasSession, taken, zgLock, flagVars, keeper, untold>>

StartWriteFails(t) ==
  /\ Leave(t, "on") /\ SendFails
  /\ UNCHANGED <<raising, wasSession, taken, flagVars, keeper, wire, granted, untold>>

\* cmd_expect_ack takes the first answer to 0x06 there is ...
StartConfirmed(t) ==
  /\ mail # <<>> /\ Head(mail).ok /\ mail' = Tail(mail)
  /\ Step(t, "ack", "reset")
  /\ UNCHANGED <<raising, wasSession, taken, zgLock, flagVars, keeper, down, up, wire, granted, untold>>

\* ... and raises on an ERR ...
StartRefused(t) ==
  /\ mail # <<>> /\ ~Head(mail).ok /\ mail' = Tail(mail)
  /\ Leave(t, "ack")
  /\ UNCHANGED <<raising, wasSession, taken, flagVars, keeper, down, up, wire, granted, untold>>

\* ... or when nothing has come in its window.
StartTimesOut(t) ==
  /\ mail = <<>> /\ Leave(t, "ack")
  /\ UNCHANGED <<raising, wasSession, taken, flagVars, keeper, linkVars, wire, granted, untold>>

\* Mutant: the stop flag of the last session is left as it is.
StartResets_ErrorOnly(t) ==
  /\ Step(t, "reset", "publish") /\ zgError' = FALSE
  /\ UNCHANGED <<raising, wasSession, taken, zgLock, zgActive, zgStop, joinable, terminated>>
  /\ UNCHANGED <<keeper, linkVars, wire, granted, untold>>

\* zg_error_, then zg_stop_.
StartResets(t) ==
  /\ Step(t, "reset", "publish") /\ zgError' = FALSE /\ zgStop' = FALSE
  /\ UNCHANGED <<raising, wasSession, taken, zgLock, zgActive, joinable, terminated>>
  /\ UNCHANGED <<keeper, linkVars, wire, granted, untold>>

StartPublishes(t) ==
  /\ Step(t, "publish", "spawn") /\ zgActive' = TRUE
  /\ UNCHANGED <<raising, wasSession, taken, zgLock, zgStop, zgError, joinable, terminated>>
  /\ UNCHANGED <<keeper, linkVars, wire, granted, untold>>

\* The new thread is assigned to zg_thread_: a new session.  Assigning to a
\* joinable thread calls std::terminate.
StartSpawns(t) ==
  /\ Leave(t, "spawn")
  /\ IF joinable THEN terminated' = TRUE /\ UNCHANGED <<joinable, keeper, untold>>
     ELSE joinable' = TRUE /\ keeper' = "loop" /\ untold' = FALSE /\ UNCHANGED terminated
  /\ UNCHANGED <<raising, wasSession, taken, zgActive, zgStop, zgError, linkVars, wire, granted>>

Start(t) ==
  \/ StartWrites(t) \/ StartWriteFails(t)
  \/ StartConfirmed(t) \/ StartRefused(t) \/ StartTimesOut(t)
  \/ StartResets(t) \/ StartPublishes(t) \/ StartSpawns(t)

-----------------------------------------------------------------------------
(* The keepalive thread                                                    *)

KeepLoops ==
  /\ keeper = "loop" /\ keeper' = IF zgStop THEN "done" ELSE "asleep"
  /\ UNCHANGED <<callVars, flagVars, linkVars, wire, granted, untold>>

KeepWakes ==
  /\ keeper = "asleep" /\ keeper' = IF zgStop THEN "done" ELSE "write"
  /\ UNCHANGED <<callVars, flagVars, linkVars, wire, granted, untold>>

KeepWrites ==
  /\ keeper = "write" /\ keeper' = "loop"
  /\ Send("keep")
  /\ UNCHANGED <<callVars, flagVars, granted, untold>>

\* The write throws: the error is stored (under zg_err_mu_) ...
KeepFails ==
  /\ keeper = "write" /\ keeper' = "lost"
  /\ SendFails /\ zgError' = TRUE /\ untold' = TRUE
  /\ UNCHANGED <<callVars, zgActive, zgStop, joinable, terminated, wire, granted>>

\* Mutant: the thread takes zg_lock_ for what follows.
KeepYields_Locks ==
  /\ keeper = "lost" /\ zgLock = Nobody /\ keeper' = "yielded" /\ zgActive' = FALSE
  /\ UNCHANGED <<callVars, zgStop, zgError, joinable, terminated, linkVars, wire, granted, untold>>

\* ... the session is no longer active ...
KeepYields ==
  /\ keeper = "lost" /\ keeper' = "yielded" /\ zgActive' = FALSE
  /\ UNCHANGED <<callVars, zgStop, zgError, joinable, terminated, linkVars, wire, granted, untold>>

\* ... and the thread ends; its handle stays joinable.
KeepEnds ==
  /\ keeper = "yielded" /\ keeper' = "done" /\ zgStop' = TRUE
  /\ UNCHANGED <<callVars, zgActive, zgError, joinable, terminated, linkVars, wire, granted, untold>>

Keepalive ==
  \/ KeepLoops \/ KeepWakes \/ KeepWrites \/ KeepFails \/ KeepYields \/ KeepEnds

-----------------------------------------------------------------------------
(* zero_g_stop                                                             *)


\* Under the lock: was there a session?  Then zg_stop_.
StopBegins(t) ==
  /\ zgLock = Nobody /\ zgLock' = t
  /\ Step(t, "idle", "deactivate")
  /\ \E r \in BOOLEAN : raising' = [raising EXCEPT ![t] = r]
  /\ wasSession' = [wasSession EXCEPT ![t] = joinable \/ zgActive]
  /\ zgStop' = TRUE
  /\ UNCHANGED <<taken, zgActive, zgError, joinable, terminated, keeper, linkVars, wire, granted, untold>>

StopDeactivates(t) ==
  /\ Step(t, "deactivate", "join") /\ zgActive' = FALSE
  /\ UNCHANGED <<raising, wasSession, taken, zgLock, zgStop, zgError, joinable, terminated>>
  /\ UNCHANGED <<keeper, linkVars, wire, granted, untold>>

\* Mutant: the thread is let go, not waited for.
StopJoins_Detaches(t) ==
  /\ Step(t, "join", "takeError")
  /\ joinable' = FALSE
  /\ UNCHANGED <<raising, wasSession, taken, zgLock, zgActive, zgStop, zgError, terminated>>
  /\ UNCHANGED <<keeper, linkVars, wire, granted, untold>>

\* The thread is joined if there is one.
StopJoins(t) ==
  /\ Step(t, "join", "takeError")
  /\ joinable => keeper = "done"
  /\ joinable' = FALSE /\ keeper' = "none"
  /\ UNCHANGED <<raising, wasSession, taken, zgLock, zgActive, zgStop, zgError, terminated>>
  /\ UNCHANGED <<linkVars, wire, granted, untold>>

\* Mutant: the stored error is cleared before it is read.
StopTakesError_ClearsFirst(t) ==
  /\ Step(t, "takeError", "off")
  /\ zgError' = FALSE /\ taken' = [taken EXCEPT ![t] = zgError']
  /\ UNCHANGED <<raising, wasSession, zgLock, zgActive, zgStop, joinable, terminated>>
  /\ UNCHANGED <<keeper, linkVars, wire, granted, untold>>

\* The stored error is taken, raised or not: zero_g_stop consumes it.
StopTakesError(t) ==
  /\ Step(t, "takeError", "off")
  /\ taken' = [taken EXCEPT ![t] = zgError] /\ zgError' = FALSE
  /\ UNCHANGED <<raising, wasSession, zgLock, zgActive, zgStop, joinable, terminated>>
  /\ UNCHANGED <<keeper, linkVars, wire, granted, untold>>

\* 0x06 off, unless there was no session, through write_cmd and its guard.
\* Nobody waits for its answer.
StopWrites(t) ==
  /\ Step(t, "off", "return")
  /\ IF wasSession[t]
     THEN (~zgActive /\ Send("off")) \/ (SendFails /\ wire' = "failed")
     ELSE UNCHANGED <<linkVars, wire>>
  /\ UNCHANGED <<raising, wasSession, taken, zgLock, flagVars, keeper, granted, untold>>

\* The call returns.  The error it took is thrown if it was asked to raise it;
\* otherwise (close, a destructor, the default) it is dropped, told to nobody.
StopReturns(t) ==
  /\ Leave(t, "return")
  /\ raising' = [raising EXCEPT ![t] = FALSE]
  /\ wasSession' = [wasSession EXCEPT ![t] = FALSE]
  /\ taken' = [taken EXCEPT ![t] = FALSE] /\ untold' = (untold /\ ~(raising[t] /\ taken[t]))
  /\ UNCHANGED <<flagVars, keeper, linkVars, wire, granted>>

Stop(t) ==
  \/ StopDeactivates(t) \/ StopJoins(t) \/ StopTakesError(t) \/ StopWrites(t) \/ StopReturns(t)

-----------------------------------------------------------------------------
(* The link and the firmware (external)                                    *)

\* The reader thread delivers an answer; an answer may be lost.
Deliver ==
  /\ up # <<>> /\ up' = Tail(up)
  /\ mail' = Append(mail, Head(up)) \/ UNCHANGED mail
  /\ UNCHANGED <<callVars, flagVars, keeper, down, wire, granted, untold>>

\* Every 0x06 is answered; the gates may refuse an on, never an off.
FwAnswers ==
  /\ down # <<>> /\ down' = Tail(down)
  /\ Len(up) + Len(mail) < MaxUp
  /\ \E ok \in BOOLEAN :
       /\ Head(down) = "off" => ok
       /\ up' = Append(up, [ok |-> ok, to |-> Head(down)])
       /\ granted' = IF Head(down) = "entry" THEN ok ELSE granted
  /\ UNCHANGED <<callVars, flagVars, keeper, mail, wire, untold>>

-----------------------------------------------------------------------------
Running(A) == ~terminated /\ A

Next ==
  /\ ~terminated
  /\ \/ \E t \in Threads : \/ StartAsks(t) \/ StartAgain(t) \/ StartOpens(t) \/ Start(t)
                           \/ StopBegins(t) \/ Stop(t)
     \/ Keepalive \/ Deliver \/ FwAnswers

Spec == Init /\ [][Next]_vars

(* Fairness: a thread that holds zg_lock_ runs on, and so does the          *)
(* keepalive.  Nobody has to start or stop; the lock is not fair; a write   *)
(* ends, one way or the other (0.5 s at most).                              *)
FairSpec ==
  /\ Spec
  /\ \A t \in Threads : WF_vars(Running(Start(t))) /\ WF_vars(Running(Stop(t)))
  /\ WF_vars(Running(Keepalive))

-----------------------------------------------------------------------------
Frames == {"entry", "keep", "off"}
Answers == [ok : BOOLEAN, to : Frames]

LinkTyped ==
  /\ down \in Seq(Frames) /\ Len(down) <= MaxDown
  /\ up \in Seq(Answers) /\ mail \in Seq(Answers) /\ Len(up) + Len(mail) <= MaxUp

\* With one thread at a time between the lock and the return.
TypeOK ==
  /\ \A t \in Threads : pc[t] \in Starting \cup Stopping <=> zgLock = t
  /\ pc \in [Threads -> {"idle", "enter"} \cup Starting \cup Stopping]
  /\ raising \in [Threads -> BOOLEAN] /\ wasSession \in [Threads -> BOOLEAN]
  /\ taken \in [Threads -> BOOLEAN]
  /\ zgLock \in Threads \cup {Nobody}
  /\ zgActive \in BOOLEAN /\ zgStop \in BOOLEAN /\ zgError \in BOOLEAN
  /\ joinable \in BOOLEAN /\ terminated \in BOOLEAN
  /\ keeper \in {"none", "loop", "asleep", "write", "lost", "yielded", "done"}
  /\ LinkTyped
  /\ wire \in {"none", "entry", "keep", "off", "failed"}
  /\ granted \in BOOLEAN /\ untold \in BOOLEAN

\* Nobody is inside zero_g_start or zero_g_stop, and no thread is left.
Over == zgLock = Nobody /\ ~joinable /\ ~terminated

(* Once a session is over, no keepalive frame follows its off frame: the    *)
(* arm is not brought back to zero gravity behind its user's back           *)
(* (zero_g_stop joins before it writes).                                    *)
LastWordIsOff == Over => wire # "keep"

(* The guard that refuses every action command is up only while a keepalive *)
(* thread works or has just failed: it is never stuck (the order of         *)
(* zero_g_start's last three statements, zg_keepalive's catch).             *)
ActiveIsKept ==
  zgActive /\ zgLock = Nobody /\ ~terminated
    => joinable /\ ~zgStop /\ keeper \in {"loop", "asleep", "write", "lost"}

(* A zero_g_stop that ends a session and is asked to raise a lost keepalive  *)
(* throws it if it was lost, whatever has failed, yielded or been joined     *)
(* meanwhile; it throws none that was told before or that is of an earlier   *)
(* session; and whether asked or not, no stop leaves an error behind for the *)
(* next session to be blamed for (arm.hpp: "thrown here", "consumes it").    *)
LossIsTold ==
  [][\A t \in Threads : pc[t] = "return" /\ pc'[t] = "idle" =>
       /\ ~zgError'
       /\ raising[t] => (taken[t] => untold) /\ (wasSession[t] => ~untold')]_vars

(* zero_g_start enters a session only after the firmware has accepted its   *)
(* frame (zero_g_start: "confirm entry first, then start the thread").      *)
EntryConfirmed == \A t \in Threads : pc[t] = "reset" => granted

(* The program is never terminated by zero_g_start after a lost keepalive.  *)
NoTerminate == ~terminated

(* A zero_g_stop that has the lock comes to its end: the join is bounded    *)
(* since the keepalive never takes zg_lock_.                                *)
StopsEnd == \A t \in Threads : pc[t] \in Stopping ~> pc[t] = "idle"
=============================================================================
