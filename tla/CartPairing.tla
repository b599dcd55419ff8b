----------------------------- MODULE CartPairing -----------------------------
(***************************************************************************)
(* Which Cartesian request does a plan result (frame 0x4E) belong to?      *)
(*                                                                         *)
(* A 0x4E frame carries no request id.  CartPending pairs results with     *)
(* requests by arrival order alone: a FIFO of tokens, a budget of results  *)
(* to swallow ("absorb") for requests that left the FIFO before their      *)
(* result came, and a deadline after which that budget lapses.             *)
(*                                                                         *)
(* One step is one critical section of CartPending::lock_, one wake-up of  *)
(* a waiter, one frame handled by the reader thread, one command handled   *)
(* by the firmware, or one unit of time.  A request is the C++ token; a    *)
(* finished request's identity is used again for a later call, so the runs *)
(* cover unboundedly many calls.  The firmware and the serial link are not *)
(* part of the repository: they are modelled from how the code and its     *)
(* stub (testing.cpp) use them.                                            *)
(***************************************************************************)
EXTENDS Integers, Sequences, FiniteSets

CONSTANTS
  Requests,      \* identities of CartToken objects
  Clearers,      \* threads that send opcodes of cart_clears_upon()
  NoRequest,     \* "no token"
  ClearCmd,      \* a clearing opcode on the downlink
  UnclaimedMax,  \* kUnclaimedMax
  AckTimeout,    \* the 1.0 s window of the ACK
  MoveTimeout,   \* Arm::move_timeout
  AbsorbFloor,   \* kAbsorbTtlFloor
  AckDelay,      \* longest time from a write to its ACK or ERR
  PlanDelay,     \* longest time from a write to its 0x4E
  MaxBacklog,    \* bound: tokens in flight plus budget
  MaxDown        \* bound: commands the firmware has not read yet

ASSUME CartAssumption ==
  /\ NoRequest \notin Requests /\ ClearCmd \notin Requests
  /\ UnclaimedMax \in Nat \ {0}
  /\ AckTimeout \in Nat /\ MoveTimeout \in Nat /\ AbsorbFloor \in Nat
  /\ AckDelay \in Nat /\ PlanDelay \in Nat
  /\ MaxBacklog \in Nat /\ MaxDown \in Nat

VARIABLES
  (* the calling threads; cart_serial_ lets one call in at a time *)
  serial,       \* the request whose caller holds cart_serial_
  phase,        \* where each request's caller is in request_and_wait
  left,         \* time left of the window the holder of cart_serial_ waits in
  errSeen,      \* expect(): an ERR was read and the ACK is still awaited
  (* the tokens *)
  reply,        \* CartToken::reply: the request whose result it holds
  lost,         \* CartToken::lost is set
  absorbedSince,\* tokens whose absorbed_at differs from absorbed_replies
  polled,       \* requests whose result poll_cart handed out before their call ended
  (* CartPending *)
  q, unclaimed, absorb,
  ttl,          \* absorb_deadline_ - now; the budget has lapsed when negative
  (* threads that clear the queue *)
  clearing,     \* where each is in raw_write
  swept,        \* the tokens clear_pending took and has still to fail
  (* the reader thread and Ack *)
  handTok, handPlan, \* token popped by on_reply and the result it will get
  ackq,         \* Ack::queues for ACK and ERR of the Cartesian opcode
  errors,       \* Ack::errors is not empty
  linkDead,     \* Ack::reader_error is set
  (* link and firmware *)
  down,         \* commands written and not yet read by the firmware
  owed,         \* accepted requests whose 0x4E is not sent yet
  up,           \* frames sent and not yet read by the reader thread
  fate,         \* what the firmware made of each request
  age           \* time since each request was written

callVars  == <<serial, phase, left, errSeen>>
tokenVars == <<reply, lost, absorbedSince, polled>>
pendVars  == <<q, unclaimed, absorb, ttl>>
clearVars == <<clearing, swept>>
handVars  == <<handTok, handPlan>>
ackVars   == <<ackq, errors, linkDead>>
linkVars  == <<down, owed, up, fate, age>>
vars == <<callVars, tokenVars, pendVars, clearVars, handVars, ackVars, linkVars>>

Ended == {"ok", "rejected", "unsent", "unknown", "linkdown", "abandoned"}
Inside == {"registered", "ackwait", "planwait", "replied", "expired", "linkgone"}
Phases == {"idle"} \cup Inside \cup Ended

AbsorbTTL == IF MoveTimeout > AbsorbFloor THEN MoveTimeout ELSE AbsorbFloor

\* The elements of a sequence.
Elems(s) == {s[i] : i \in 1..Len(s)}

\* s without the entry e (each token is queued at most once).
Without(s, e) ==
  IF e \in Elems(s)
  THEN LET k == CHOOSE i \in 1..Len(s) : s[i] = e
       IN  [j \in 1..(Len(s) - 1) |-> IF j < k THEN s[j] ELSE s[j + 1]]
  ELSE s

\* The budget in force: it lapses when now is strictly past the deadline.
Absorbance == IF ttl < 0 THEN 0 ELSE absorb

\* A token is done when it has a result or a reason for having none.
Done(r) == reply[r] # NoRequest \/ lost[r]

\* What of a request is on its way: its answer (ACK or ERR), its plan result.
UpReqs(kinds) == {up[i].req : i \in {j \in 1..Len(up) : up[j].kind \in kinds}}
AnswerDue == Elems(down) \cup UpReqs({"ack", "err"})
PlanDue   == Elems(down) \cup Elems(owed) \cup UpReqs({"plan"})
InFlight(r) == r \in AnswerDue \cup PlanDue

-----------------------------------------------------------------------------
Init ==
  /\ serial = NoRequest
  /\ phase = [r \in Requests |-> "idle"]
  /\ left = 0
  /\ errSeen = FALSE
  /\ reply = [r \in Requests |-> NoRequest]
  /\ lost = [r \in Requests |-> FALSE]
  /\ absorbedSince = {}
  /\ polled = {}
  /\ q = <<>> /\ unclaimed = <<>> /\ absorb = 0 /\ ttl = 0
  /\ clearing = [c \in Clearers |-> "idle"]
  /\ swept = [c \in Clearers |-> {}]
  /\ handTok = NoRequest /\ handPlan = NoRequest
  /\ ackq = <<>> /\ errors = FALSE /\ linkDead = FALSE
  /\ down = <<>> /\ owed = <<>> /\ up = <<>>
  /\ fate = [r \in Requests |-> "none"]
  /\ age = [r \in Requests |-> 0]

-----------------------------------------------------------------------------
(* CartPending's critical sections as updates of its state                 *)

\* drop: the token leaves both lists and no budget is given.
Drop(r) ==
  /\ q' = Without(q, r)
  /\ unclaimed' = Without(unclaimed, r)
  /\ UNCHANGED <<absorb, ttl>>

\* Mutant: the exception after an absorbed result is forgotten.
DropAndAbsorb_AlwaysTopUp(r, timedOut) ==
  /\ q' = Without(q, r)
  /\ unclaimed' = Without(unclaimed, r)
  /\ absorb' = Absorbance + 1 /\ ttl' = AbsorbTTL

\* Mutant: the token stays in the list of unclaimed results.
DropAndAbsorb_QueueOnly(r, timedOut) ==
  /\ q' = Without(q, r)
  /\ IF timedOut /\ r \in absorbedSince
     THEN UNCHANGED <<absorb, ttl>>
     ELSE absorb' = Absorbance + 1 /\ ttl' = AbsorbTTL
  /\ UNCHANGED unclaimed

\* drop_and_absorb: the token leaves both lists; one unit of budget is left
\* behind, except after a time-out in whose window a result was absorbed.
DropAndAbsorb(r, timedOut) ==
  /\ q' = Without(q, r)
  /\ unclaimed' = Without(unclaimed, r)
  /\ IF timedOut /\ r \in absorbedSince
     THEN UNCHANGED <<absorb, ttl>>
     ELSE absorb' = Absorbance + 1 /\ ttl' = AbsorbTTL

\* The caller leaves request_and_wait and releases cart_serial_.
Return(r, outcome) ==
  /\ phase' = [phase EXCEPT ![r] = outcome]
  /\ serial' = NoRequest
  /\ left' = 0 /\ errSeen' = FALSE

-----------------------------------------------------------------------------
(* A caller: request_and_wait                                              *)

\* Nothing in the program or on the link refers to r any more.
Fresh(r) ==
  /\ phase[r] \in {"idle"} \cup Ended
  /\ r \notin Elems(q) \cup Elems(unclaimed) /\ ~InFlight(r)
  /\ r # handTok /\ r # handPlan
  /\ \A c \in Clearers : r \notin swept[c]
  /\ \A x \in Requests : reply[x] = r => x = r

\* Take cart_serial_ and register the token, before anything is written.
Register(r) ==
  /\ serial = NoRequest /\ Fresh(r)
  /\ Len(q) + Absorbance < MaxBacklog
  /\ serial' = r
  /\ phase' = [phase EXCEPT ![r] = "registered"]
  /\ reply' = [reply EXCEPT ![r] = NoRequest]
  /\ lost' = [lost EXCEPT ![r] = FALSE]
  /\ absorbedSince' = absorbedSince \ {r}
  /\ polled' = polled \ {r}
  /\ q' = Append(q, r)
  /\ fate' = [fate EXCEPT ![r] = "none"]
  /\ age' = [age EXCEPT ![r] = 0]
  /\ UNCHANGED <<left, errSeen, unclaimed, absorb, ttl, down, owed, up>>
  /\ UNCHANGED <<clearVars, handVars, ackVars>>

\* raw_write: drain the opcode's answers, then send the frame.
Write(r) ==
  /\ phase[r] = "registered" /\ Len(down) < MaxDown
  /\ phase' = [phase EXCEPT ![r] = "ackwait"]
  /\ left' = AckTimeout /\ errSeen' = FALSE
  /\ ackq' = <<>>
  /\ down' = Append(down, r)
  /\ fate' = [fate EXCEPT ![r] = "sent"]
  /\ age' = [age EXCEPT ![r] = 0]
  /\ UNCHANGED <<serial, errors, linkDead, owed, up>>
  /\ UNCHANGED <<tokenVars, pendVars, clearVars, handVars>>

\* write_frame throws TransportError: the frame did not reach the firmware.
WriteFails(r) ==
  /\ phase[r] = "registered"
  /\ Drop(r)
  /\ Return(r, "unsent")
  /\ ackq' = <<>>
  /\ UNCHANGED <<errors, linkDead>>
  /\ UNCHANGED <<tokenVars, clearVars, handVars, linkVars>>

\* write_cmd throws something else before the frame (zero gravity began after
\* reject_in_zero_g had passed): the token stays in the queue.
WriteRefused(r) ==
  /\ phase[r] = "registered"
  /\ Return(r, "abandoned")
  /\ UNCHANGED <<tokenVars, pendVars, clearVars, handVars, ackVars, linkVars>>

\* expect() returns on the ACK; the wait for the plan result begins.
TakeAck(r) ==
  /\ phase[r] = "ackwait" /\ ackq # <<>> /\ Head(ackq) = "ack"
  /\ ackq' = Tail(ackq)
  /\ phase' = [phase EXCEPT ![r] = "planwait"]
  /\ left' = MoveTimeout
  /\ UNCHANGED <<serial, errSeen, errors, linkDead>>
  /\ UNCHANGED <<tokenVars, pendVars, clearVars, handVars, linkVars>>

\* The first ERR proves nothing yet: remember it and go on waiting.
RememberErr(r) ==
  /\ phase[r] = "ackwait" /\ ackq # <<>> /\ Head(ackq) = "err"
  /\ ~errSeen /\ left > 0
  /\ ackq' = Tail(ackq)
  /\ errSeen' = TRUE
  /\ UNCHANGED <<serial, phase, left, errors, linkDead>>
  /\ UNCHANGED <<tokenVars, pendVars, clearVars, handVars, linkVars>>


\* CommandRejectedError: a second ERR, an ERR as the window closes, or the
\* window closes after an ERR and without an ACK.  No budget is given.
Rejected(r) ==
  /\ phase[r] = "ackwait"
  /\ \/ ackq # <<>> /\ Head(ackq) = "err" /\ (errSeen \/ left = 0)
        /\ ackq' = Tail(ackq)
     \/ ackq = <<>> /\ errSeen /\ left = 0 /\ ~errors /\ ~linkDead
        /\ UNCHANGED ackq
  /\ Drop(r)
  /\ Return(r, "rejected")
  /\ UNCHANGED <<errors, linkDead>>
  /\ UNCHANGED <<tokenVars, clearVars, handVars, linkVars>>

\* Mutant: every exception out of expect() drops the token.
AbandonAckWait_Drops(r) ==
  /\ phase[r] = "ackwait" /\ ackq = <<>>
  /\ errors \/ linkDead \/ (left = 0 /\ ~errSeen)
  /\ errors' \in {FALSE, errors}
  /\ Drop(r)
  /\ Return(r, "abandoned")
  /\ UNCHANGED <<ackq, linkDead>>
  /\ UNCHANGED <<tokenVars, clearVars, handVars, linkVars>>

\* Any other exception out of expect() - no answer in time, a stored protocol
\* error, a dead reader - leaves the token in the queue.
AbandonAckWait(r) ==
  /\ phase[r] = "ackwait" /\ ackq = <<>>
  /\ errors \/ linkDead \/ (left = 0 /\ ~errSeen)
  /\ errors' \in {FALSE, errors}
  /\ Return(r, "abandoned")
  /\ UNCHANGED <<ackq, linkDead>>
  /\ UNCHANGED <<tokenVars, pendVars, clearVars, handVars, linkVars>>

\* wait(): the token was failed by a clearing command.
WaitLost(r) ==
  /\ phase[r] = "planwait" /\ lost[r]
  /\ Return(r, "unknown")
  /\ UNCHANGED <<tokenVars, pendVars, clearVars, handVars, ackVars, linkVars>>

\* wait(): the token has a result; it is still listed as unclaimed.
WaitReply(r) ==
  /\ phase[r] = "planwait" /\ reply[r] # NoRequest /\ ~lost[r]
  /\ phase' = [phase EXCEPT ![r] = "replied"]
  /\ UNCHANGED <<serial, left, errSeen>>
  /\ UNCHANGED <<tokenVars, pendVars, clearVars, handVars, ackVars, linkVars>>

\* wait(): unclaim the token and hand its result to the caller.
Unclaim(r) ==
  /\ phase[r] = "replied"
  /\ unclaimed' = Without(unclaimed, r)
  /\ Return(r, "ok")
  /\ UNCHANGED <<q, absorb, ttl>>
  /\ UNCHANGED <<tokenVars, clearVars, handVars, ackVars, linkVars>>

\* What ends wait_for on the token's own condition variable: resolve, fail,
\* or the end of the window.
Woken(r) == Done(r) \/ left = 0

\* wait(): the window has closed and the token has nothing.
WaitExpired(r) ==
  /\ phase[r] = "planwait" /\ left = 0 /\ ~Done(r) /\ ~linkDead
  /\ phase' = [phase EXCEPT ![r] = "expired"]
  /\ UNCHANGED <<serial, left, errSeen>>
  /\ UNCHANGED <<tokenVars, pendVars, clearVars, handVars, ackVars, linkVars>>

\* Mutant: link_dead is looked at only when the token has something.
WaitLinkDown_OnlyNotified(r) ==
  /\ phase[r] = "planwait" /\ linkDead /\ Done(r) /\ ~lost[r]
  /\ phase' = [phase EXCEPT ![r] = "linkgone"]
  /\ UNCHANGED <<serial, left, errSeen>>
  /\ UNCHANGED <<tokenVars, pendVars, clearVars, handVars, ackVars, linkVars>>

\* wait(): woken, it looks at link_dead before it looks at the token again.
WaitLinkDown(r) ==
  /\ phase[r] = "planwait" /\ linkDead /\ Woken(r) /\ ~lost[r]
  /\ phase' = [phase EXCEPT ![r] = "linkgone"]
  /\ UNCHANGED <<serial, left, errSeen>>
  /\ UNCHANGED <<tokenVars, pendVars, clearVars, handVars, ackVars, linkVars>>

\* drop_and_absorb and fail after a time-out, or after a dead link.
GiveUp(r) ==
  /\ phase[r] \in {"expired", "linkgone"}
  /\ DropAndAbsorb(r, phase[r] = "expired")
  /\ lost' = [lost EXCEPT ![r] = TRUE]
  /\ Return(r, IF phase[r] = "expired" THEN "unknown" ELSE "linkdown")
  /\ UNCHANGED <<reply, absorbedSince, polled>>
  /\ UNCHANGED <<clearVars, handVars, ackVars, linkVars>>

Caller(r) ==
  \/ Write(r) \/ WriteFails(r) \/ WriteRefused(r)
  \/ TakeAck(r) \/ RememberErr(r) \/ Rejected(r) \/ AbandonAckWait(r)
  \/ WaitLost(r) \/ WaitReply(r) \/ Unclaim(r)
  \/ WaitExpired(r) \/ WaitLinkDown(r) \/ GiveUp(r)

-----------------------------------------------------------------------------
(* Other threads                                                           *)

\* poll_cart: claim the oldest result nobody has claimed, if it is there.
PollCart ==
  /\ unclaimed # <<>> /\ Done(Head(unclaimed))
  /\ unclaimed' = Tail(unclaimed)
  /\ polled' = polled \cup
        {r \in Requests : r = Head(unclaimed) /\ r = serial /\ reply[r] # NoRequest}
  /\ UNCHANGED <<reply, lost, absorbedSince, q, absorb, ttl>>
  /\ UNCHANGED <<callVars, clearVars, handVars, ackVars, linkVars>>

\* Mutant: the tokens taken leave no budget behind.
ClearPending_NoBudget(c) ==
  /\ clearing[c] = "idle"
  /\ clearing' = [clearing EXCEPT ![c] = IF q = <<>> THEN "writing" ELSE "failing"]
  /\ swept' = [swept EXCEPT ![c] = Elems(q)]
  /\ q' = <<>>
  /\ UNCHANGED <<unclaimed, absorb, ttl>>
  /\ UNCHANGED <<callVars, tokenVars, handVars, ackVars, linkVars>>

\* Mutant: the queue is copied instead of taken.
ClearPending_Copies(c) ==
  /\ clearing[c] = "idle" /\ q # <<>>
  /\ clearing' = [clearing EXCEPT ![c] = "failing"]
  /\ swept' = [swept EXCEPT ![c] = Elems(q)]
  /\ absorb' = Absorbance + Len(q)
  /\ ttl' = AbsorbTTL
  /\ UNCHANGED <<q, unclaimed>>
  /\ UNCHANGED <<callVars, tokenVars, handVars, ackVars, linkVars>>

\* raw_write of a clearing opcode, first half: clear_pending takes the whole
\* queue and turns it into budget.  An empty queue changes nothing.
ClearPending(c) ==
  /\ clearing[c] = "idle"
  /\ IF q = <<>>
     THEN /\ clearing' = [clearing EXCEPT ![c] = "writing"]
          /\ UNCHANGED <<swept, pendVars>>
     ELSE /\ clearing' = [clearing EXCEPT ![c] = "failing"]
          /\ swept' = [swept EXCEPT ![c] = Elems(q)]
          /\ q' = <<>>
          /\ absorb' = Absorbance + Len(q)
          /\ ttl' = AbsorbTTL
          /\ UNCHANGED unclaimed
  /\ UNCHANGED <<callVars, tokenVars, handVars, ackVars, linkVars>>

\* ... outside the lock, the tokens taken are failed and their waiters woken.
FailSwept(c) ==
  /\ clearing[c] = "failing"
  /\ lost' = [r \in Requests |-> lost[r] \/ r \in swept[c]]
  /\ clearing' = [clearing EXCEPT ![c] = "writing"]
  /\ swept' = [swept EXCEPT ![c] = {}]
  /\ UNCHANGED <<reply, absorbedSince, polled>>
  /\ UNCHANGED <<callVars, pendVars, handVars, ackVars, linkVars>>

\* ... and the opcode is written, or write_frame throws.
WriteClear(c) ==
  /\ clearing[c] = "writing" /\ Len(down) < MaxDown
  /\ clearing' = [clearing EXCEPT ![c] = "idle"]
  /\ down' \in {down, Append(down, ClearCmd)}
  /\ UNCHANGED <<swept, owed, up, fate, age>>
  /\ UNCHANGED <<callVars, tokenVars, pendVars, handVars, ackVars>>

Clearer(c) == ClearPending(c) \/ FailSwept(c) \/ WriteClear(c)

\* Another thread's Ack::wait is given the stored protocol error.
StrayError ==
  /\ errors /\ errors' = FALSE
  /\ UNCHANGED <<ackq, linkDead>>
  /\ UNCHANGED <<callVars, tokenVars, pendVars, clearVars, handVars, linkVars>>

-----------------------------------------------------------------------------
(* The reader thread                                                       *)

Arrived(kinds) ==
  /\ ~linkDead /\ handTok = NoRequest
  /\ up # <<>> /\ Head(up).kind \in kinds
  /\ up' = Tail(up)
  /\ UNCHANGED <<down, owed, fate, age>>

ReadAnswer ==
  /\ Arrived({"ack", "err"})
  /\ ackq' = Append(ackq, Head(up).kind)
  /\ UNCHANGED <<errors, linkDead>>
  /\ UNCHANGED <<callVars, tokenVars, pendVars, clearVars, handVars>>

\* on_reply, first: while there is budget, it is spent, whoever waits.  Of the
\* tokens whose watermark this passes, only the holder's is compared again.
AbsorbReply ==
  /\ Arrived({"plan"}) /\ Absorbance > 0
  /\ absorb' = absorb - 1
  /\ absorbedSince' = {r \in Requests : r = serial}
  /\ UNCHANGED <<reply, lost, polled, q, unclaimed, ttl>>
  /\ UNCHANGED <<callVars, clearVars, handVars, ackVars>>

\* on_reply, second: a result and no token is a desynchronisation; the
\* exception goes to Ack::errors and from there to whoever waits next.
ExtraReply ==
  /\ Arrived({"plan"}) /\ Absorbance = 0 /\ q = <<>>
  /\ absorb' = Absorbance
  /\ errors' = TRUE
  /\ UNCHANGED <<q, unclaimed, ttl, ackq, linkDead>>
  /\ UNCHANGED <<callVars, tokenVars, clearVars, handVars>>

\* Mutant: nothing is evicted.
PairReply_NoCap ==
  /\ Arrived({"plan"}) /\ Absorbance = 0 /\ q # <<>>
  /\ absorb' = Absorbance
  /\ q' = Tail(q)
  /\ unclaimed' = Append(unclaimed, Head(q))
  /\ handTok' = Head(q) /\ handPlan' = Head(up).req
  /\ UNCHANGED ttl
  /\ UNCHANGED <<callVars, tokenVars, clearVars, ackVars>>

\* Mutant: pairing comes before absorbing.
PairReply_BeforeAbsorb ==
  /\ Arrived({"plan"}) /\ q # <<>>
  /\ q' = Tail(q)
  /\ unclaimed' = LET u == Append(unclaimed, Head(q))
                  IN  IF Len(u) > UnclaimedMax THEN Tail(u) ELSE u
  /\ handTok' = Head(q) /\ handPlan' = Head(up).req
  /\ UNCHANGED <<absorb, ttl>>
  /\ UNCHANGED <<callVars, tokenVars, clearVars, ackVars>>

\* on_reply, third: the oldest token takes the result.  It is listed as
\* unclaimed, the oldest entries beyond UnclaimedMax are evicted, ...
PairReply ==
  /\ Arrived({"plan"}) /\ Absorbance = 0 /\ q # <<>>
  /\ absorb' = Absorbance
  /\ q' = Tail(q)
  /\ unclaimed' = LET u == Append(unclaimed, Head(q))
                  IN  IF Len(u) > UnclaimedMax THEN Tail(u) ELSE u
  /\ handTok' = Head(q) /\ handPlan' = Head(up).req
  /\ UNCHANGED ttl
  /\ UNCHANGED <<callVars, tokenVars, clearVars, ackVars>>

\* ... and outside the lock the token is resolved.
Resolve ==
  /\ handTok # NoRequest
  /\ reply' = [reply EXCEPT ![handTok] = handPlan]
  /\ handTok' = NoRequest /\ handPlan' = NoRequest
  /\ UNCHANGED <<lost, absorbedSince, polled>>
  /\ UNCHANGED <<callVars, pendVars, clearVars, ackVars, linkVars>>

\* read_frame throws: the reader records why and ends.
ReaderDies ==
  /\ ~linkDead /\ handTok = NoRequest
  /\ linkDead' = TRUE
  /\ up' = <<>>
  /\ UNCHANGED <<ackq, errors, down, owed, fate, age>>
  /\ UNCHANGED <<callVars, tokenVars, pendVars, clearVars, handVars>>

Reader == ReadAnswer \/ AbsorbReply \/ ExtraReply \/ PairReply \/ Resolve

-----------------------------------------------------------------------------
(* The firmware and the link (external)                                    *)

\* A frame is put on the uplink; when the reader thread is gone nobody will
\* ever look at it.
Sent(k, r) == IF linkDead THEN up ELSE Append(up, [kind |-> k, req |-> r])

\* A request is accepted: ACK now, 0x4E later.  owed has two places - the
\* result to be sent and the request being planned - so a third request in a
\* burst swallows the result of the second.
FwAccept ==
  /\ down # <<>> /\ Head(down) \in Requests
  /\ down' = Tail(down)
  /\ up' = Sent("ack", Head(down))
  /\ owed' = IF Len(owed) < 2 THEN Append(owed, Head(down))
             ELSE <<Head(owed), Head(down)>>
  /\ fate' = [fate EXCEPT ![Head(down)] = "accepted"]
  /\ UNCHANGED age
  /\ UNCHANGED <<callVars, tokenVars, pendVars, clearVars, handVars, ackVars>>

\* A request is refused before anything else is done with it: ERR, no 0x4E.
FwRefuse ==
  /\ down # <<>> /\ Head(down) \in Requests
  /\ down' = Tail(down)
  /\ up' = Sent("err", Head(down))
  /\ fate' = [fate EXCEPT ![Head(down)] = "refused"]
  /\ UNCHANGED <<owed, age>>
  /\ UNCHANGED <<callVars, tokenVars, pendVars, clearVars, handVars, ackVars>>

\* A clearing opcode cancels planning silently; a result that is already
\* finished may still be sent.
FwClear ==
  /\ down # <<>> /\ Head(down) = ClearCmd
  /\ down' = Tail(down)
  /\ \E n \in 0..Len(owed) : owed' = SubSeq(owed, 1, n)
  /\ UNCHANGED <<up, fate, age>>
  /\ UNCHANGED <<callVars, tokenVars, pendVars, clearVars, handVars, ackVars>>

FwReply ==
  /\ owed # <<>>
  /\ owed' = Tail(owed)
  /\ up' = Sent("plan", Head(owed))
  /\ UNCHANGED <<down, fate, age>>
  /\ UNCHANGED <<callVars, tokenVars, pendVars, clearVars, handVars, ackVars>>

\* The uplink drops a frame.
LoseFrame ==
  /\ up # <<>>
  /\ up' = Tail(up)
  /\ UNCHANGED <<down, owed, fate, age>>
  /\ UNCHANGED <<callVars, tokenVars, pendVars, clearVars, handVars, ackVars>>

\* Every frame arrives within its delay, or never.
Timely(r) ==
  /\ r \in AnswerDue => age[r] < AckDelay
  /\ r \in PlanDue => age[r] < PlanDelay

\* One unit of time passes.  A write takes less than a unit.
Tick ==
  /\ \A r \in Requests : phase[r] # "registered" /\ (linkDead \/ Timely(r))
  /\ left' = IF left > 0 THEN left - 1 ELSE 0
  /\ ttl' = IF ttl >= 0 THEN ttl - 1 ELSE ttl
  /\ age' = [r \in Requests |-> IF ~InFlight(r) THEN 0
                              ELSE IF age[r] < AckDelay \/ age[r] < PlanDelay THEN age[r] + 1
                              ELSE age[r]]
  /\ UNCHANGED <<serial, phase, errSeen, q, unclaimed, absorb, down, owed, up, fate>>
  /\ UNCHANGED <<tokenVars, clearVars, handVars, ackVars>>

FwRead == FwAccept \/ FwRefuse \/ FwClear

-----------------------------------------------------------------------------
Next ==
  \/ \E r \in Requests : Register(r) \/ Caller(r)
  \/ \E c \in Clearers : Clearer(c)
  \/ PollCart \/ StrayError
  \/ Reader \/ ReaderDies
  \/ FwRead \/ FwReply \/ LoseFrame
  \/ Tick

Spec == Init /\ [][Next]_vars

-----------------------------------------------------------------------------
(* Fairness: no thread is starved, the firmware reads and answers, time    *)
(* passes.  Starting a call or a clearing command is never obligatory.     *)
FairSpec ==
  /\ Spec
  /\ \A r \in Requests : WF_vars(Caller(r))
  /\ \A c \in Clearers : WF_vars(FailSwept(c)) /\ WF_vars(WriteClear(c))
  /\ WF_vars(Reader)
  /\ WF_vars(FwRead) /\ WF_vars(FwReply)
  /\ WF_vars(Tick)

-----------------------------------------------------------------------------
TypeOK ==
  /\ serial \in Requests \cup {NoRequest}
  /\ phase \in [Requests -> Phases]
  /\ left \in Nat /\ errSeen \in BOOLEAN
  /\ reply \in [Requests -> Requests \cup {NoRequest}]
  /\ lost \in [Requests -> BOOLEAN]
  /\ absorbedSince \subseteq Requests /\ polled \subseteq Requests
  /\ q \in Seq(Requests)
  /\ unclaimed \in Seq(Requests) /\ Len(unclaimed) <= UnclaimedMax
  /\ absorb \in Nat /\ ttl \in Nat \cup {-1}
  /\ clearing \in [Clearers -> {"idle", "failing", "writing"}]
  /\ swept \in [Clearers -> SUBSET Requests]
  /\ handTok \in Requests \cup {NoRequest}
  /\ handPlan \in Requests \cup {NoRequest}
  /\ ackq \in Seq({"ack", "err"})
  /\ errors \in BOOLEAN /\ linkDead \in BOOLEAN
  /\ down \in Seq(Requests \cup {ClearCmd}) /\ owed \in Seq(Requests)
  /\ up \in Seq([kind : {"ack", "err", "plan"}, req : Requests])
  /\ fate \in [Requests -> {"none", "sent", "accepted", "refused"}]
  /\ age \in [Requests -> Nat]

(* The timing the design relies on: an answer comes within the ACK window,  *)
(* a plan result within move_timeout.                                       *)
Nominal == AckDelay < AckTimeout /\ PlanDelay < MoveTimeout

(* A call that returns a plan result returns the result of its own request, *)
(* never that of an earlier one (on_reply, drop_and_absorb, clear_pending). *)
NoFalseSuccess ==
  \A r \in Requests : phase[r] \in {"replied", "ok"} => reply[r] = r

(* A request whose call reported CommandRejectedError is never executed: it *)
(* is dropped without budget because the firmware owes it nothing.          *)
RejectedNeverRuns ==
  \A r \in Requests : phase[r] = "rejected" => fate[r] # "accepted"

(* No result ever arrives for which neither a token nor budget was kept, so *)
(* on_reply never blames an unrelated reader for a desynchronisation.       *)
NoDesync == ~errors

(* A request that is over for its caller can no longer be given a result by *)
(* on_reply, nor can poll_cart hand one out for it.  Only a call that left  *)
(* expect() with an exception keeps its token in the queue.                 *)
DeadStaysDead ==
  \A r \in Requests :
     phase[r] \in Ended \ {"abandoned"} => r \notin Elems(q) \cup Elems(unclaimed)

(* The life of a token, which makes the invariant above inductive: one call *)
(* is inside request_and_wait; a token is in at most one of the two lists,  *)
(* once; what on_reply or clear_pending took out and has still to wake is   *)
(* in neither list of the queue; and a queued token has no outcome yet.     *)
Distinct(s) == \A i, j \in 1..Len(s) : s[i] = s[j] => i = j

TokenLife ==
  /\ \A r \in Requests : phase[r] \in Inside <=> r = serial
  /\ Distinct(q) /\ Distinct(unclaimed) /\ Elems(q) \cap Elems(unclaimed) = {}
  /\ \A r \in Elems(q) \cup Elems(unclaimed) : r = serial \/ phase[r] = "abandoned"
  /\ \A r \in Elems(q) : ~Done(r)
  /\ \A r \in Elems(unclaimed) : ~lost[r]
  /\ handTok \notin Elems(q) /\ (handTok # NoRequest => handPlan # NoRequest)
  /\ \A c \in Clearers : swept[c] \cap (Elems(q) \cup Elems(unclaimed)) = {}
  /\ \A r \in Requests : phase[r] = "replied" => reply[r] # NoRequest

(* A result is handed out by its call or by poll_cart, not by both.         *)
DeliveredOnce == \A r \in polled : phase[r] # "ok"

(* Once the reader thread is dead, whoever waits for a result has a reason  *)
(* to wake up.                                                              *)
LoudDeath ==
  linkDead => \A r \in Requests : phase[r] = "planwait" => Woken(r)

(* The pairing keeps what CartPromise promises: the outcome a caller sees,  *)
(* against what the firmware did with the request.                          *)
Outcome(r) ==
  CASE phase[r] = "idle" -> "idle"
    [] phase[r] = "ok" -> IF reply[r] = r THEN "ok" ELSE "false success"
    [] phase[r] \in {"rejected", "unsent"} -> phase[r]
    [] phase[r] \in {"unknown", "linkdown", "abandoned"} -> "unknown"
    [] OTHER -> "open"

Promise == INSTANCE CartPromise WITH call <- [r \in Requests |-> Outcome(r)],
                                     run  <- fate

KeepsPromise == Promise!Spec

(* Every call returns and releases cart_serial_, whatever is lost, cleared  *)
(* or dead: each wait in request_and_wait is bounded.                       *)
EveryCallReturns == serial # NoRequest ~> serial = NoRequest

\* What disturbs the one-to-one flow of requests and results.
Disturbance ==
  \/ \E r \in Requests : WriteFails(r) \/ WriteRefused(r)
  \/ \E c \in Clearers : Clearer(c)
  \/ FwRefuse \/ LoseFrame \/ ReaderDies
  \/ handTok # NoRequest /\ Tick   \* the reader is stalled between two steps

(* The pairing heals: once nothing disturbs it any more, calls succeed      *)
(* again, however much budget and however many abandoned tokens were left   *)
(* behind - budget does not feed on itself (drop_and_absorb's exception).   *)
Recovers ==
  /\ <>[][~Disturbance]_vars
  /\ []<><<\E r \in Requests : Register(r)>>_vars
  => []<>(\E r \in Requests : phase[r] = "ok")
=============================================================================
