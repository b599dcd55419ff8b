------------------------------ MODULE AckQueues ------------------------------
(***************************************************************************)
(* Who gets which answer?                                                  *)
(*                                                                         *)
(* One reader thread takes every frame off the link and delivers it:       *)
(* answers into queues named by (kind, command), status frames into a      *)
(* single slot, plan results to the pairing (module CartPairing).  Callers *)
(* sleep on one condition variable, are all woken by every delivery, and   *)
(* look for what is theirs.                                                *)
(*                                                                         *)
(* One step is one critical section of Ack::mu, one hook of raw_write, one *)
(* frame of the link, or one step of close().  The firmware and the link   *)
(* are not part of the repository.                                         *)
(***************************************************************************)
EXTENDS Integers, Sequences, FiniteSets

CONSTANTS
  Threads,     \* threads that call into Arm
  Commands,    \* commands answered by ACK/ERR or RSP/ERR
  StatusCmd,   \* CMD_GET_STATUS: answered by a status frame, or ERR
  NoThread,    \* "nobody (any more) waits for this frame"
  QueueMax,    \* kQueueMax
  MaxDown,     \* bound: commands the firmware has not read yet
  MaxUp,       \* bound: frames the reader thread has not read yet
  MaxErrors    \* bound: protocol errors stored and not yet handed out

ASSUME AckAssumption ==
  /\ NoThread \notin Threads /\ StatusCmd \notin Commands
  /\ Commands \cap {"now", "refresh", "linklost"} = {}
  /\ QueueMax \in Nat \ {0}
  /\ MaxDown \in Nat /\ MaxUp \in Nat /\ MaxErrors \in Nat

VARIABLES
  (* the calling threads *)
  pc,          \* where each thread is; "idle": its last call is over
  call,        \* its call: a member of Commands, "now", "refresh", "linklost"
  asleep,      \* it is blocked in cv.wait_for
  late,        \* its window is over
  seen,        \* status frames since its watermark: none, bad (undecodable), good
  (* Ack *)
  mail,        \* queues: for each command, the entries of its keys by age (seq)
  state,       \* state: some status frame has been decoded
  errors,      \* errors: protocol errors nobody has been given yet
  readerError, \* reader_error is set
  reader,      \* reader thread: running, posting (on_reply is running), ended
  stop,        \* stop_
  (* session, link, firmware *)
  closer,      \* how far Arm::close is
  portOpen,    \* the transport is open
  linkGone,    \* the device has left the bus
  down, up,    \* frames on their way
  (* ghosts *)
  muddled,     \* threads whose call shared its command with another exchange
  misled,      \* threads that took an answer which was not theirs
  robbed       \* threads whose answer was drained, evicted or taken by others


callVars == <<pc, call, asleep, late, seen>>
ackVars  == <<mail, state, errors, readerError>>
runVars  == <<reader, stop, closer, portOpen, linkGone>>
linkVars == <<down, up>>
ghosts   == <<muddled, misled, robbed>>
vars == <<callVars, ackVars, runVars, linkVars, ghosts>>

Inside == {"drained", "written", "wait", "judge"}
Busy(t) == pc[t] \in Inside

\* get_state(refresh) and wait_until_link_lost write nothing.
Silent == {"refresh", "linklost"}

\* The command a call sends, or is about.
CommandOf(o) == IF o \in Commands THEN o ELSE StatusCmd
Cmd(t) == CommandOf(call[t])

Mail == Commands \cup {StatusCmd}
Frame(k, c, t) == [kind |-> k, cmd |-> c, by |-> t]
Elems(s) == {s[i] : i \in 1..Len(s)}

\* Positions of the entries of one queue, and s without position i.
Queue(s, k) == {i \in 1..Len(s) : s[i].kind = k}
RemoveAt(s, i) == SubSeq(s, 1, i - 1) \o SubSeq(s, i + 1, Len(s))

\* Once a call is over, nobody waits for its frames.
Orphan(s, t) ==
  [i \in 1..Len(s) |-> IF s[i].by = t THEN [s[i] EXCEPT !.by = NoThread] ELSE s[i]]

\* notify_all on Ack::cv.
WakeAll == asleep' = [t \in Threads |-> FALSE]

-----------------------------------------------------------------------------
Init ==
  /\ pc = [t \in Threads |-> "idle"]
  /\ call = [t \in Threads |-> "linklost"]
  /\ asleep = [t \in Threads |-> FALSE]
  /\ late = [t \in Threads |-> FALSE]
  /\ seen = [t \in Threads |-> "none"]
  /\ mail = [c \in Mail |-> <<>>] /\ state = FALSE /\ errors = 0 /\ readerError = FALSE
  /\ reader = "running" /\ stop = FALSE
  /\ closer = "no" /\ portOpen = TRUE /\ linkGone = FALSE
  /\ down = <<>> /\ up = <<>>
  /\ muddled = {} /\ misled = {} /\ robbed = {}

-----------------------------------------------------------------------------
(* A call                                                                  *)

\* Threads in a call that asks with command c.
Users(c) == {t \in Threads : Busy(t) /\ call[t] \notin Silent /\ Cmd(t) = c}

\* Nothing of command c is under way.
Quiet(c) ==
  /\ Users(c) = {}
  /\ \A f \in Elems(down) : f.cmd # c
  /\ \A f \in Elems(up) : f.cmd = c => f.kind \notin {"rsp", "err"}

\* Threads that lose an answer of theirs when the queues of c become m.
Losers(c, m) ==
  LET Waiting(q) == {f.by : f \in Elems(q)} \ {NoThread}
  IN  Waiting(mail[c]) \ Waiting(m)

\* How every call begins.
Enter(t, o, at) ==
  /\ pc[t] = "idle" /\ closer = "no"
  /\ pc' = [pc EXCEPT ![t] = at] /\ call' = [call EXCEPT ![t] = o]
  /\ UNCHANGED <<asleep, late, seen, state, errors, readerError, runVars, linkVars>>

\* The ghosts of a call that begins: does it share its command?
Share(t, c) ==
  /\ muddled' = (muddled \ {t}) \cup (IF Quiet(c) THEN {} ELSE Users(c) \cup {t})
  /\ misled' = misled \ {t}

\* Mutant: the queues are not cleared before the write.
Begin_NoDrain(t, o) ==
  /\ Enter(t, o, "drained") /\ Share(t, CommandOf(o))
  /\ robbed' = robbed \ {t}
  /\ UNCHANGED mail

\* Mutant: the queues of every command are cleared.
Begin_DrainsAll(t, o) ==
  /\ Enter(t, o, "drained") /\ Share(t, CommandOf(o))
  /\ mail' = [c \in Mail |-> <<>>]
  /\ robbed' = (robbed \ {t}) \cup UNION {Losers(c, <<>>) : c \in Mail}

\* raw_write, first: drain_for(cmd) empties the queues of this command.
Begin(t, o) ==
  /\ Enter(t, o, "drained") /\ Share(t, CommandOf(o))
  /\ mail' = [mail EXCEPT ![CommandOf(o)] = <<>>]
  /\ robbed' = (robbed \ {t}) \cup Losers(CommandOf(o), <<>>)

\* A call with an answer of its own: write_cmd or write_query, then expect.
Ask(t) == \E c \in Commands : Begin(t, c)

\* get_status_now.
AskStatus(t) == Begin(t, "now")

\* read_status and wait_until_link_lost write nothing.
Watch(t) ==
  /\ \E o \in Silent : Enter(t, o, "wait")
  /\ UNCHANGED <<mail, ghosts>>

\* The call is over, with an answer, a value or an exception: its frames,
\* wherever they are, have no owner any more.
End(t, m) ==
  /\ pc' = [pc EXCEPT ![t] = "idle"] /\ call' = [call EXCEPT ![t] = "linklost"]
  /\ late' = [late EXCEPT ![t] = FALSE] /\ seen' = [seen EXCEPT ![t] = "none"]
  /\ mail' = [c \in Mail |-> Orphan(m[c], t)]
  /\ down' = Orphan(down, t) /\ up' = Orphan(up, t)
  /\ UNCHANGED asleep

\* ... without an answer.
Raise(t) ==
  /\ End(t, mail)
  /\ muddled' = muddled \ {t} /\ misled' = misled \ {t} /\ robbed' = robbed \ {t}

\* raw_write, second: the frame is written.
Write(t) ==
  /\ pc[t] = "drained" /\ ~linkGone /\ Len(down) < MaxDown
  /\ down' = Append(down, Frame("cmd", Cmd(t), t))
  /\ pc' = [pc EXCEPT ![t] = IF call[t] = "now" THEN "written" ELSE "wait"]
  /\ UNCHANGED <<call, asleep, late, seen, ackVars, runVars, up, ghosts>>

\* ... or write_frame throws.
WriteFails(t) ==
  /\ pc[t] = "drained"
  /\ Raise(t)
  /\ UNCHANGED <<state, errors, readerError, runVars>>

\* get_status_now takes its watermark only now.
Await(t) ==
  /\ pc[t] = "written"
  /\ pc' = [pc EXCEPT ![t] = "wait"]
  /\ UNCHANGED <<call, asleep, late, seen, ackVars, runVars, linkVars, ghosts>>

\* Awake, with Ack::mu held, inside the wait of one of these calls.
Looks(t, calls) == pc[t] = "wait" /\ ~asleep[t] /\ call[t] \in calls

\* The entries a call waits for.
Mine(t) == mail[Cmd(t)]

\* What a reader of the status slot waits for (its done predicate).
Moved(t) == seen[t] # "none" \/ (call[t] = "now" /\ Mine(t) # <<>>)

\* Whether the loop of t would end if t looked now.
News(t) ==
  \/ readerError
  \/ call[t] # "linklost" /\ errors > 0
  \/ call[t] \in Commands /\ Mine(t) # <<>>
  \/ call[t] \in {"now", "refresh"} /\ Moved(t)

\* The earliest of the entries t waits for answers its call.
Take(t) ==
  LET c == Cmd(t)
      own == Head(mail[c]).by = t
  IN  /\ misled' = IF own THEN misled \ {t} ELSE misled \cup {t}
      /\ muddled' = IF own THEN muddled \ {t} ELSE muddled
      /\ robbed' = (robbed \cup Losers(c, Tail(mail[c]))) \ {t}
      /\ End(t, [mail EXCEPT ![c] = Tail(@)])

\* Ack::wait takes the earliest entry of its queues; expect returns it.
TakeAnswer(t) ==
  /\ Looks(t, Commands) /\ Mine(t) # <<>>
  /\ Take(t)
  /\ UNCHANGED <<state, errors, readerError, runVars>>

\* A stored protocol error is raised by whoever looks first: after the queues
\* in Ack::wait, after the dead reader in pump_until.
RaiseError(t) ==
  /\ \/ Looks(t, Commands) /\ Mine(t) = <<>>
     \/ Looks(t, {"now", "refresh"}) /\ ~readerError
  /\ errors > 0 /\ errors' = errors - 1
  /\ Raise(t)
  /\ UNCHANGED <<state, readerError, runVars>>

\* The reader thread is dead.
LinkLost(t) ==
  /\ readerError
  /\ \/ Looks(t, Commands) /\ Mine(t) = <<>> /\ errors = 0
     \/ Looks(t, {"now", "refresh", "linklost"})
  /\ Raise(t)
  /\ UNCHANGED <<state, errors, readerError, runVars>>

\* The window is over and nothing has come.
TimeOut(t) ==
  /\ Looks(t, Commands \cup {"linklost"}) /\ late[t] /\ ~News(t)
  /\ Raise(t)
  /\ UNCHANGED <<state, errors, readerError, runVars>>

\* pump_until returns - true or false, its callers do not ask.
Pumped(t) ==
  /\ Looks(t, {"now", "refresh"}) /\ ~readerError /\ errors = 0
  /\ Moved(t) \/ late[t]
  /\ pc' = [pc EXCEPT ![t] = "judge"] /\ late' = [late EXCEPT ![t] = FALSE]
  /\ UNCHANGED <<call, asleep, seen, ackVars, runVars, linkVars, ghosts>>

\* get_status_now raises a refusal of 0x40 that is in its queue; otherwise
\* both return what state holds (read_status: nothing, if it holds nothing).
Judge(t) ==
  /\ pc[t] = "judge"
  /\ IF call[t] = "now" /\ Mine(t) # <<>> THEN Take(t) ELSE Raise(t)
  /\ UNCHANGED <<state, errors, readerError, runVars>>

\* Mutant: the time left is not looked at.
Sleep_PastWindow(t) ==
  /\ pc[t] = "wait" /\ ~asleep[t] /\ ~News(t)
  /\ asleep' = [asleep EXCEPT ![t] = TRUE]
  /\ UNCHANGED <<pc, call, late, seen, ackVars, runVars, linkVars, ghosts>>

\* Nothing yet: wait_for.
Sleep(t) ==
  /\ pc[t] = "wait" /\ ~asleep[t] /\ ~late[t] /\ ~News(t)
  /\ asleep' = [asleep EXCEPT ![t] = TRUE]
  /\ UNCHANGED <<pc, call, late, seen, ackVars, runVars, linkVars, ghosts>>

\* wait_for ends by itself when the window is over.
Expire(t) ==
  /\ pc[t] = "wait" /\ ~late[t]
  /\ late' = [late EXCEPT ![t] = TRUE]
  /\ asleep' = [asleep EXCEPT ![t] = FALSE]
  /\ UNCHANGED <<pc, call, seen, ackVars, runVars, linkVars, ghosts>>

Call(t) ==
  \/ Write(t) \/ WriteFails(t) \/ Await(t)
  \/ TakeAnswer(t) \/ RaiseError(t) \/ LinkLost(t) \/ TimeOut(t)
  \/ Pumped(t) \/ Judge(t) \/ Sleep(t)

-----------------------------------------------------------------------------
(* The reader thread                                                       *)

\* The next frame, of one of these kinds, is taken off the link.  A frame that
\* read_frame was about to return when stop_ was set is still delivered; then,
\* and only then, the loop tests stop_.
TakenOff(kinds) ==
  /\ reader = "running" /\ portOpen
  /\ up # <<>> /\ Head(up).kind \in kinds
  /\ up' = Tail(up)

Loop == reader' = IF stop THEN "ended" ELSE "running"


\* deliver: f joins its queue; a full queue loses its oldest entry.
DeliverAnswer(f) ==
  LET s == mail[f.cmd]
      Q == Queue(s, f.kind)
  IN  IF Cardinality(Q) < QueueMax THEN {Append(s, f)}
      ELSE {Append(RemoveAt(s, i), f) : i \in {i \in Q : \A j \in Q : i <= j}}

ReadAnswer ==
  /\ TakenOff({"rsp", "err"})
  /\ LET c == Head(up).cmd
     IN  \E m \in DeliverAnswer(Head(up)) :
           mail' = [mail EXCEPT ![c] = m] /\ robbed' = robbed \cup Losers(c, m)
  /\ WakeAll /\ Loop
  /\ UNCHANGED <<pc, call, late, seen, state, errors, readerError, stop, closer, portOpen>>
  /\ UNCHANGED <<linkGone, down, muddled, misled>>

\* Threads with a watermark: they count the status frames that come.
Watching(t) == pc[t] \in {"wait", "judge"} /\ call[t] \in {"now", "refresh"}

\* deliver: a status frame fills the slot, or cannot be decoded; status_seq
\* advances either way.
ReadStatus ==
  /\ TakenOff({"status", "bad"})
  /\ seen' = [t \in Threads |->
       IF ~Watching(t) THEN "none"
       ELSE IF seen[t] = "good" \/ Head(up).kind = "status" THEN "good" ELSE "bad"]
  /\ state' = (state \/ Head(up).kind = "status")
  /\ WakeAll /\ Loop
  /\ UNCHANGED <<pc, call, late, mail, errors, readerError, stop, closer, portOpen>>
  /\ UNCHANGED <<linkGone, down, ghosts>>

\* deliver: a plan result is handed on after Ack::mu is released ...
ReadPlan ==
  /\ TakenOff({"plan"})
  /\ reader' = "posting"
  /\ WakeAll
  /\ UNCHANGED <<pc, call, late, seen, ackVars, stop, closer, portOpen, linkGone>>
  /\ UNCHANGED <<down, ghosts>>

\* ... and what on_reply throws is stored for the next caller that waits.
PostPlan ==
  /\ reader = "posting" /\ Loop
  /\ \/ errors < MaxErrors /\ errors' = errors + 1 /\ WakeAll
     \/ UNCHANGED <<errors, asleep>>
  /\ UNCHANGED <<pc, call, late, seen, mail, state, readerError, stop, closer, portOpen>>
  /\ UNCHANGED <<linkGone, linkVars, ghosts>>

\* Mutant: nobody is told.
ReaderDies_Silently ==
  /\ reader = "running" /\ (linkGone \/ ~portOpen)
  /\ reader' = "ended" /\ readerError' = TRUE
  /\ UNCHANGED <<callVars, mail, state, errors, stop, closer, portOpen, linkGone, linkVars, ghosts>>

\* read_frame throws: the reason is kept and everybody is woken.
ReaderDies ==
  /\ reader = "running" /\ (linkGone \/ ~portOpen)
  /\ reader' = "ended" /\ readerError' = TRUE
  /\ WakeAll
  /\ UNCHANGED <<pc, call, late, seen, mail, state, errors, stop, closer, portOpen>>
  /\ UNCHANGED <<linkGone, linkVars, ghosts>>

\* The loop sees stop_.
ReaderStops ==
  /\ reader = "running" /\ stop
  /\ reader' = "ended"
  /\ UNCHANGED <<callVars, ackVars, stop, closer, portOpen, linkGone, linkVars, ghosts>>

Reader == ReadAnswer \/ ReadStatus \/ ReadPlan \/ PostPlan \/ ReaderDies \/ ReaderStops

-----------------------------------------------------------------------------
(* Arm::close, Arm::reconnect                                              *)

\* Mutant: the transport is closed first.
StopReader_AfterClose ==
  /\ closer = "no" /\ \A t \in Threads : ~Busy(t)
  /\ closer' = "stopping" /\ portOpen' = FALSE
  /\ UNCHANGED <<callVars, ackVars, reader, stop, linkGone, linkVars, ghosts>>

\* Mutant: the flag is not set before the join.
StopReader_NoFlag ==
  /\ closer = "no" /\ \A t \in Threads : ~Busy(t)
  /\ closer' = "stopping"
  /\ UNCHANGED <<callVars, ackVars, reader, stop, portOpen, linkGone, linkVars, ghosts>>

\* stop_reader sets the flag.  close() frees Ack in the end, so its caller has
\* to see to it that no other thread is inside a call.
StopReader ==
  /\ closer = "no" /\ \A t \in Threads : ~Busy(t)
  /\ closer' = "stopping" /\ stop' = TRUE
  /\ UNCHANGED <<callVars, ackVars, reader, portOpen, linkGone, linkVars, ghosts>>

\* It joins the reader thread; only then is the transport closed.
ClosePort ==
  /\ closer = "stopping" /\ reader = "ended"
  /\ closer' = "closed" /\ portOpen' = FALSE
  /\ UNCHANGED <<callVars, ackVars, reader, stop, linkGone, linkVars, ghosts>>

\* connect() again: a new transport, a new Ack and its reader thread.  The
\* device may be back; what the old session left on the link still arrives.
Reconnect ==
  /\ closer = "closed"
  /\ mail' = [c \in Mail |-> <<>>] /\ state' = FALSE /\ errors' = 0 /\ readerError' = FALSE
  /\ reader' = "running" /\ stop' = FALSE
  /\ closer' = "no" /\ portOpen' = TRUE /\ linkGone' = FALSE
  /\ UNCHANGED <<callVars, linkVars, ghosts>>

-----------------------------------------------------------------------------
(* The firmware and the link (external)                                    *)

Room == ~linkGone /\ Len(up) < MaxUp

\* A command is answered, or refused.
FwAnswer ==
  /\ down # <<>> /\ Room
  /\ down' = Tail(down)
  /\ LET h == Head(down)
     IN  up' \in {Append(up, Frame("err", h.cmd, h.by)),
                  Append(up, IF h.cmd = StatusCmd THEN Frame("status", StatusCmd, NoThread)
                             ELSE Frame("rsp", h.cmd, h.by))}
  /\ UNCHANGED <<callVars, ackVars, runVars, ghosts>>

\* The passive 100 Hz status stream (a frame may be garbled), plan results.
FwStream ==
  /\ Room
  /\ \E k \in {"status", "bad", "plan"} :
       /\ \A i \in 1..Len(up) : up[i].kind # k
       /\ up' = Append(up, Frame(k, StatusCmd, NoThread))
  /\ UNCHANGED <<callVars, ackVars, runVars, down, ghosts>>

LoseFrame ==
  /\ up # <<>> /\ up' = Tail(up)
  /\ UNCHANGED <<callVars, ackVars, runVars, down, ghosts>>

\* The device leaves the bus.
Unplug ==
  /\ ~linkGone /\ linkGone' = TRUE
  /\ down' = <<>>
  /\ UNCHANGED <<callVars, ackVars, reader, stop, closer, portOpen, up, ghosts>>

-----------------------------------------------------------------------------
Next ==
  \/ \E t \in Threads : Ask(t) \/ AskStatus(t) \/ Watch(t) \/ Call(t) \/ Expire(t)
  \/ Reader
  \/ StopReader \/ ClosePort \/ Reconnect
  \/ FwAnswer \/ FwStream \/ LoseFrame \/ Unplug

Spec == Init /\ [][Next]_vars

(* Fairness: every thread runs on, windows end, the join is waited out, and *)
(* the firmware reads its commands.  No call, no close and no frame of the  *)
(* stream is ever obligatory.                                               *)
FairSpec ==
  /\ Spec
  /\ \A t \in Threads : WF_vars(Call(t)) /\ WF_vars(Expire(t))
  /\ WF_vars(Reader) /\ WF_vars(ClosePort) /\ WF_vars(FwAnswer)

-----------------------------------------------------------------------------
TypeOK ==
  /\ pc \in [Threads -> {"idle"} \cup Inside]
  /\ call \in [Threads -> Commands \cup {"now", "refresh", "linklost"}]
  /\ asleep \in [Threads -> BOOLEAN] /\ late \in [Threads -> BOOLEAN]
  /\ seen \in [Threads -> {"none", "bad", "good"}]
  /\ mail \in [Mail -> Seq([kind : {"rsp", "err"}, cmd : Mail, by : Threads \cup {NoThread}])]
  /\ \A c \in Mail, k \in {"rsp", "err"} : Cardinality(Queue(mail[c], k)) <= QueueMax
  /\ state \in BOOLEAN /\ errors \in Nat /\ readerError \in BOOLEAN
  /\ reader \in {"running", "posting", "ended"} /\ stop \in BOOLEAN
  /\ closer \in {"no", "stopping", "closed"}
  /\ portOpen \in BOOLEAN /\ linkGone \in BOOLEAN
  /\ muddled \subseteq Threads /\ misled \subseteq Threads /\ robbed \subseteq Threads

(* No wake-up is lost: a thread asleep on Ack::cv has nothing to see - no   *)
(* entry of its queues, no status frame since its watermark, no stored      *)
(* error, no dead reader (deliver, die and reader_loop notify under mu).    *)
NoLostWakeup == \A t \in Threads : asleep[t] => pc[t] = "wait" /\ ~News(t)

(* A call whose command is not in use elsewhere gets the answer to its own  *)
(* frame, whatever all the other calls, late answers and errors do: the     *)
(* queue names and the drain before the write keep commands apart.          *)
OwnAnswer == misled \subseteq muddled

(* ... and its answer, once delivered, is not drained, evicted or taken by  *)
(* another call.                                                            *)
NothingStolen == robbed \subseteq muddled

(* A normal close is never reported as a lost link: reader_error is set     *)
(* only when the device has really gone (stop_reader, close).               *)
CleanClose == readerError => linkGone

(* get_state(refresh) returns a status frame that came after it was called, *)
(* or an empty value when none came (arm.hpp, get_state).                   *)
FreshStatus ==
  [][\A t \in Threads :
       pc[t] = "judge" /\ pc'[t] = "idle" /\ call[t] = "refresh" /\ state
         => seen[t] = "good"]_vars

(* Every call comes back, with its answer or with a reason.                 *)
CallsReturn == \A t \in Threads : Busy(t) ~> ~Busy(t)

(* close() gets through its join.                                           *)
CloseReturns == closer = "stopping" ~> closer = "closed"
=============================================================================
