------------------------- MODULE CartPairing_proofs -------------------------
(***************************************************************************)
(* Proofs about CartPairing, for every value of its constants: types, the  *)
(* life of a token between the queue, the list of unclaimed results and    *)
(* its caller, and, in the second half, what the pairing achieves.         *)
(***************************************************************************)
EXTENDS CartPairing, SequenceTheorems, FiniteSetTheorems, TLAPS

-----------------------------------------------------------------------------
(* Sequences without repetition                                            *)

LEMMA ElemsIn ==
  ASSUME NEW S, NEW s \in Seq(S)
  PROVE  Elems(s) \subseteq S
BY DEF Elems

LEMMA AppendElems ==
  ASSUME NEW S, NEW s \in Seq(S), NEW e \in S
  PROVE  /\ Append(s, e) \in Seq(S)
         /\ Len(Append(s, e)) = Len(s) + 1
         /\ Elems(Append(s, e)) = Elems(s) \cup {e}
         /\ Distinct(s) /\ e \notin Elems(s) => Distinct(Append(s, e))
<1>1. /\ Append(s, e) \in Seq(S)
      /\ Len(Append(s, e)) = Len(s) + 1
      /\ \A i \in 1..Len(s) : Append(s, e)[i] = s[i]
      /\ Append(s, e)[Len(s) + 1] = e
  BY AppendProperties
<1>2. Elems(Append(s, e)) = Elems(s) \cup {e}
  BY <1>1 DEF Elems
<1>3. ASSUME Distinct(s), e \notin Elems(s)
      PROVE  Distinct(Append(s, e))
  BY <1>1, <1>3 DEF Distinct, Elems
<1>. QED  BY <1>1, <1>2, <1>3

LEMMA TailElems ==
  ASSUME NEW S, NEW s \in Seq(S), s # <<>>
  PROVE  /\ Head(s) \in S /\ Tail(s) \in Seq(S)
         /\ Len(Tail(s)) = Len(s) - 1
         /\ Head(s) \in Elems(s)
         /\ Elems(s) = Elems(Tail(s)) \cup {Head(s)}
         /\ Distinct(s) => Distinct(Tail(s)) /\ Head(s) \notin Elems(Tail(s))
<1>1. /\ Head(s) \in S /\ Tail(s) \in Seq(S)
      /\ Len(Tail(s)) = Len(s) - 1 /\ Len(s) \in Nat \ {0}
      /\ Head(s) = s[1]
      /\ \A i \in 1..(Len(s) - 1) : Tail(s)[i] = s[i + 1]
  BY HeadTailProperties, EmptySeq, LenProperties
<1>2. Head(s) \in Elems(s) /\ Elems(Tail(s)) \subseteq Elems(s)
  BY <1>1 DEF Elems
<1>3. Elems(s) \subseteq Elems(Tail(s)) \cup {Head(s)}
  <2>. SUFFICES ASSUME NEW i \in 1..Len(s)
                PROVE  s[i] \in Elems(Tail(s)) \cup {Head(s)}
    BY DEF Elems
  <2>1. CASE i = 1
    BY <2>1, <1>1
  <2>2. CASE i # 1
    <3>1. i - 1 \in 1..(Len(s) - 1) /\ Tail(s)[i - 1] = s[i]
      BY <1>1, <2>2
    <3>. QED  BY <1>1, <3>1 DEF Elems
  <2>. QED  BY <2>1, <2>2
<1>4. ASSUME Distinct(s)
      PROVE  Distinct(Tail(s)) /\ Head(s) \notin Elems(Tail(s))
  BY <1>1, <1>4 DEF Distinct, Elems
<1>. QED  BY <1>1, <1>2, <1>3, <1>4

LEMMA WithoutElems ==
  ASSUME NEW S, NEW s \in Seq(S), NEW e
  PROVE  /\ Without(s, e) \in Seq(S)
         /\ Len(Without(s, e)) <= Len(s)
         /\ Elems(Without(s, e)) \subseteq Elems(s)
         /\ Distinct(s) => /\ Distinct(Without(s, e))
                           /\ Elems(Without(s, e)) = Elems(s) \ {e}
<1>1. CASE e \notin Elems(s)
  <2>1. Without(s, e) = s
    BY <1>1 DEF Without
  <2>. QED  BY <1>1, <2>1, LenProperties
<1>2. CASE e \in Elems(s)
  <2>. DEFINE k == CHOOSE i \in 1..Len(s) : s[i] = e
              w == [j \in 1..(Len(s) - 1) |-> IF j < k THEN s[j] ELSE s[j + 1]]
  <2>1. k \in 1..Len(s) /\ s[k] = e /\ Len(s) \in Nat
    BY <1>2, LenProperties DEF Elems
  <2>2. Without(s, e) = w
    BY <1>2 DEF Without
  <2>. HIDE DEF k
  <2>3. \A j \in 1..(Len(s) - 1) : w[j] \in S
    BY <2>1
  <2>4. w \in Seq(S) /\ Len(w) = Len(s) - 1
    BY <2>1, <2>3, IsASeq, LenProperties
  <2>a. \A j \in 1..(Len(s) - 1) :
          /\ j < k => w[j] = s[j] /\ j \in 1..Len(s)
          /\ j >= k => w[j] = s[j + 1] /\ j + 1 \in 1..Len(s)
    BY <2>1
  <2>. HIDE DEF w
  <2>5. Elems(w) \subseteq Elems(s)
    <3>. SUFFICES ASSUME NEW j \in 1..Len(w)
                  PROVE  w[j] \in Elems(s)
      BY DEF Elems
    <3>1. CASE j < k
      BY <2>a, <2>4, <2>1, <3>1 DEF Elems
    <3>2. CASE j >= k
      BY <2>a, <2>4, <2>1, <3>2 DEF Elems
    <3>. QED  BY <3>1, <3>2, <2>1, <2>4
  <2>6. ASSUME Distinct(s)
        PROVE  Distinct(w) /\ Elems(w) = Elems(s) \ {e}
    <3>1. Distinct(w)
      BY <2>1, <2>a, <2>4, <2>6 DEF Distinct
    <3>2. \A j \in 1..Len(w) : w[j] # e
      BY <2>1, <2>a, <2>4, <2>6 DEF Distinct
    <3>3. ASSUME NEW i \in 1..Len(s), s[i] # e
          PROVE  s[i] \in Elems(w)
      <4>1. CASE i < k
        <5>1. i \in 1..(Len(s) - 1) /\ w[i] = s[i]
          BY <2>1, <2>a, <4>1
        <5>. QED  BY <5>1, <2>4 DEF Elems
      <4>2. CASE i > k
        <5>1. i - 1 \in 1..(Len(s) - 1) /\ w[i - 1] = s[i]
          BY <2>1, <2>a, <4>2
        <5>. QED  BY <5>1, <2>4 DEF Elems
      <4>. QED  BY <2>1, <3>3, <4>1, <4>2
    <3>. QED  BY <2>5, <3>1, <3>2, <3>3 DEF Elems
  <2>. QED  BY <2>1, <2>2, <2>4, <2>5, <2>6
<1>. QED  BY <1>1, <1>2

LEMMA ClearElems ==
  ASSUME NEW S, NEW s \in Seq(S), NEW n \in 0..Len(s)
  PROVE  SubSeq(s, 1, n) \in Seq(S)
BY SubSeqProperties, LenProperties

-----------------------------------------------------------------------------
(* Types                                                                   *)

LEMMA TTLType == AbsorbTTL \in Nat
BY CartAssumption DEF AbsorbTTL

LEMMA AbsorbanceType ==
  ASSUME TypeOK
  PROVE  Absorbance \in Nat /\ (Absorbance > 0 => absorb - 1 \in Nat)
BY DEF TypeOK, Absorbance

LEMMA ArrivedType ==
  ASSUME TypeOK, NEW K, Arrived(K)
  PROVE  /\ Head(up) \in [kind : {"ack", "err", "plan"}, req : Requests]
         /\ Head(up).kind \in K
         /\ up' \in Seq([kind : {"ack", "err", "plan"}, req : Requests])
         /\ UNCHANGED <<down, owed, fate, age>>
BY TailElems DEF Arrived, TypeOK

LEMMA DownType ==
  ASSUME TypeOK, down # <<>>
  PROVE  /\ Head(down) \in Requests \cup {ClearCmd}
         /\ Tail(down) \in Seq(Requests \cup {ClearCmd})
BY TailElems DEF TypeOK

LEMMA SendType ==
  ASSUME TypeOK, NEW k \in {"ack", "err", "plan"}, NEW r \in Requests
  PROVE  Sent(k, r) \in Seq([kind : {"ack", "err", "plan"}, req : Requests])
BY AppendElems DEF TypeOK, Sent

LEMMA DropType ==
  ASSUME TypeOK, NEW r \in Requests
  PROVE  /\ Without(q, r) \in Seq(Requests)
         /\ Without(unclaimed, r) \in Seq(Requests)
         /\ Len(Without(unclaimed, r)) <= UnclaimedMax
<1>1. q \in Seq(Requests) /\ unclaimed \in Seq(Requests) /\ Len(unclaimed) <= UnclaimedMax
  BY DEF TypeOK
<1>2. Without(unclaimed, r) \in Seq(Requests) /\ Len(Without(unclaimed, r)) <= Len(unclaimed)
  BY <1>1, WithoutElems
<1>3. Len(unclaimed) \in Nat /\ Len(Without(unclaimed, r)) \in Nat
  BY <1>1, <1>2, LenProperties
<1>. QED  BY <1>1, <1>2, <1>3, WithoutElems, CartAssumption

\* The list of unclaimed results after on_reply has added a token.
Listed(r) == LET u == Append(unclaimed, r)
             IN  IF Len(u) > UnclaimedMax THEN Tail(u) ELSE u

LEMMA ListedType ==
  ASSUME TypeOK, NEW r \in Requests
  PROVE  /\ Listed(r) \in Seq(Requests)
         /\ Len(Listed(r)) <= UnclaimedMax
         /\ Elems(Listed(r)) \subseteq Elems(unclaimed) \cup {r}
         /\ Distinct(unclaimed) /\ r \notin Elems(unclaimed) => Distinct(Listed(r))
<1>. DEFINE u == Append(unclaimed, r)
<1>1. unclaimed \in Seq(Requests) /\ Len(unclaimed) <= UnclaimedMax /\ Len(unclaimed) \in Nat
  BY LenProperties DEF TypeOK
<1>2. /\ u \in Seq(Requests) /\ Len(u) = Len(unclaimed) + 1
      /\ Elems(u) = Elems(unclaimed) \cup {r}
      /\ Distinct(unclaimed) /\ r \notin Elems(unclaimed) => Distinct(u)
  BY <1>1, AppendElems
<1>3. u # <<>>
  BY <1>1, AppendProperties
<1>. HIDE DEF u
<1>4. /\ Tail(u) \in Seq(Requests) /\ Len(Tail(u)) = Len(u) - 1
      /\ Elems(Tail(u)) \subseteq Elems(u)
      /\ Distinct(u) => Distinct(Tail(u))
  BY <1>2, <1>3, TailElems
<1>5. Listed(r) = IF Len(u) > UnclaimedMax THEN Tail(u) ELSE u
  BY DEF Listed, u
<1>. QED  BY <1>1, <1>2, <1>4, <1>5, CartAssumption

(* Every variable stays in its type; in particular the list of results     *)
(* nobody claimed never outgrows kUnclaimedMax.                            *)
THEOREM TypeCorrect == Spec => []TypeOK
<1>1. Init => TypeOK
  <2>. SUFFICES ASSUME Init  PROVE TypeOK
    OBVIOUS
  <2>1. /\ q \in Seq(Requests) /\ unclaimed \in Seq(Requests) /\ ackq \in Seq({"ack", "err"})
        /\ down \in Seq(Requests \cup {ClearCmd}) /\ owed \in Seq(Requests)
        /\ up \in Seq([kind : {"ack", "err", "plan"}, req : Requests])
        /\ Len(unclaimed) <= UnclaimedMax
    BY EmptySeq, CartAssumption DEF Init
  <2>2. /\ phase \in [Requests -> Phases] /\ fate \in [Requests -> {"none", "sent", "accepted", "refused"}]
        /\ reply \in [Requests -> Requests \cup {NoRequest}] /\ lost \in [Requests -> BOOLEAN]
        /\ age \in [Requests -> Nat]
        /\ clearing \in [Clearers -> {"idle", "failing", "writing"}]
        /\ swept \in [Clearers -> SUBSET Requests]
    BY DEF Init, Phases, Inside
  <2>. QED  BY <2>1, <2>2 DEF Init, TypeOK
<1>2. TypeOK /\ [Next]_vars => TypeOK'
  <2>. SUFFICES ASSUME TypeOK, [Next]_vars  PROVE TypeOK'
    OBVIOUS
  <2>. USE DEF callVars, tokenVars, pendVars, clearVars, handVars, ackVars, linkVars
  <2>1. ASSUME NEW r \in Requests, Register(r)  PROVE TypeOK'
    <3>1. q' \in Seq(Requests)
      BY <2>1, AppendElems DEF Register, TypeOK
    <3>. QED  BY <2>1, <3>1 DEF Register, TypeOK, Phases, Inside
  <2>2. ASSUME NEW r \in Requests, Write(r)  PROVE TypeOK'
    <3>1. down' \in Seq(Requests \cup {ClearCmd}) /\ ackq' \in Seq({"ack", "err"})
      BY <2>2, AppendElems, EmptySeq DEF Write, TypeOK
    <3>. QED  BY <2>2, <3>1, CartAssumption DEF Write, TypeOK, Phases, Inside
  <2>3. ASSUME NEW r \in Requests, WriteFails(r)  PROVE TypeOK'
    BY <2>3, DropType, EmptySeq DEF WriteFails, Drop, Return, TypeOK, Phases, Inside, Ended
  <2>4. ASSUME NEW r \in Requests, WriteRefused(r)  PROVE TypeOK'
    BY <2>4 DEF WriteRefused, Return, TypeOK, Phases, Inside, Ended
  <2>5. ASSUME NEW r \in Requests, TakeAck(r)  PROVE TypeOK'
    <3>1. ackq' \in Seq({"ack", "err"})
      BY <2>5, TailElems DEF TakeAck, TypeOK
    <3>. QED  BY <2>5, <3>1, CartAssumption DEF TakeAck, TypeOK, Phases, Inside
  <2>6. ASSUME NEW r \in Requests, RememberErr(r)  PROVE TypeOK'
    <3>1. ackq' \in Seq({"ack", "err"})
      BY <2>6, TailElems DEF RememberErr, TypeOK
    <3>. QED  BY <2>6, <3>1 DEF RememberErr, TypeOK
  <2>7. ASSUME NEW r \in Requests, Rejected(r)  PROVE TypeOK'
    <3>1. ackq' \in Seq({"ack", "err"})
      <4>1. ackq # <<>> => Tail(ackq) \in Seq({"ack", "err"})
        BY TailElems DEF TypeOK
      <4>. QED  BY <2>7, <4>1 DEF Rejected, TypeOK
    <3>. QED  BY <2>7, <3>1, DropType DEF Rejected, Drop, Return, TypeOK, Phases, Inside, Ended
  <2>8. ASSUME NEW r \in Requests, AbandonAckWait(r)  PROVE TypeOK'
    BY <2>8 DEF AbandonAckWait, Return, TypeOK, Phases, Inside, Ended
  <2>9. ASSUME NEW r \in Requests, WaitLost(r)  PROVE TypeOK'
    BY <2>9 DEF WaitLost, Return, TypeOK, Phases, Inside, Ended
  <2>10. ASSUME NEW r \in Requests, WaitReply(r)  PROVE TypeOK'
    BY <2>10 DEF WaitReply, TypeOK, Phases, Inside
  <2>11. ASSUME NEW r \in Requests, Unclaim(r)  PROVE TypeOK'
    <3>1. unclaimed' \in Seq(Requests) /\ Len(unclaimed') <= UnclaimedMax
      BY <2>11, DropType DEF Unclaim
    <3>. QED  BY <2>11, <3>1 DEF Unclaim, Return, TypeOK, Phases, Inside, Ended
  <2>12. ASSUME NEW r \in Requests, WaitExpired(r)  PROVE TypeOK'
    BY <2>12 DEF WaitExpired, TypeOK, Phases, Inside
  <2>13. ASSUME NEW r \in Requests, WaitLinkDown(r)  PROVE TypeOK'
    BY <2>13 DEF WaitLinkDown, TypeOK, Phases, Inside
  <2>14. ASSUME NEW r \in Requests, GiveUp(r)  PROVE TypeOK'
    <3>1. absorb \in Nat /\ ttl \in Nat \cup {-1}
      BY DEF TypeOK
    <3>2. UNCHANGED <<absorb, ttl>> \/ (absorb' = Absorbance + 1 /\ ttl' = AbsorbTTL)
      BY <2>14 DEF GiveUp, DropAndAbsorb
    <3>3. absorb' \in Nat /\ ttl' \in Nat \cup {-1}
      BY <3>1, <3>2, AbsorbanceType, TTLType
    <3>4. q' \in Seq(Requests) /\ unclaimed' \in Seq(Requests) /\ Len(unclaimed') <= UnclaimedMax
      BY <2>14, DropType DEF GiveUp, DropAndAbsorb
    <3>. QED  BY <2>14, <3>3, <3>4 DEF GiveUp, Return, TypeOK, Phases, Inside, Ended
  <2>15. ASSUME PollCart  PROVE TypeOK'
    <3>1. /\ Tail(unclaimed) \in Seq(Requests)
          /\ Len(Tail(unclaimed)) = Len(unclaimed) - 1 /\ Len(unclaimed) \in Nat
      BY <2>15, TailElems, LenProperties DEF PollCart, TypeOK
    <3>. QED  BY <2>15, <3>1, CartAssumption DEF PollCart, TypeOK
  <2>16. ASSUME NEW c \in Clearers, ClearPending(c)  PROVE TypeOK'
    <3>1. Len(q) \in Nat /\ Elems(q) \subseteq Requests /\ <<>> \in Seq(Requests)
      BY ElemsIn, LenProperties, EmptySeq DEF TypeOK
    <3>2. CASE q = <<>>
      BY <2>16, <3>2 DEF ClearPending, TypeOK
    <3>3. CASE q # <<>>
      <4>1. absorb' \in Nat /\ ttl' \in Nat \cup {-1}
        BY <2>16, <3>1, <3>3, AbsorbanceType, TTLType DEF ClearPending
      <4>2. swept' \in [Clearers -> SUBSET Requests]
        BY <2>16, <3>1, <3>3 DEF ClearPending, TypeOK
      <4>3. clearing' \in [Clearers -> {"idle", "failing", "writing"}]
        BY <2>16, <3>3 DEF ClearPending, TypeOK
      <4>. QED  BY <2>16, <3>1, <3>3, <4>1, <4>2, <4>3 DEF ClearPending, TypeOK
    <3>. QED  BY <3>2, <3>3
  <2>17. ASSUME NEW c \in Clearers, FailSwept(c)  PROVE TypeOK'
    <3>1. lost' \in [Requests -> BOOLEAN]
      BY <2>17 DEF FailSwept, TypeOK
    <3>2. clearing' \in [Clearers -> {"idle", "failing", "writing"}]
      BY <2>17 DEF FailSwept, TypeOK
    <3>3. swept' \in [Clearers -> SUBSET Requests]
      BY <2>17 DEF FailSwept, TypeOK
    <3>. QED  BY <2>17, <3>1, <3>2, <3>3 DEF FailSwept, TypeOK
  <2>18. ASSUME NEW c \in Clearers, WriteClear(c)  PROVE TypeOK'
    <3>1. down' \in Seq(Requests \cup {ClearCmd})
      <4>1. Append(down, ClearCmd) \in Seq(Requests \cup {ClearCmd})
        BY AppendProperties DEF TypeOK
      <4>. QED  BY <2>18, <4>1 DEF WriteClear, TypeOK
    <3>. QED  BY <2>18, <3>1 DEF WriteClear, TypeOK
  <2>19. ASSUME StrayError  PROVE TypeOK'
    BY <2>19 DEF StrayError, TypeOK
  <2>20. ASSUME ReadAnswer  PROVE TypeOK'
    <3>1. ackq' \in Seq({"ack", "err"})
      BY <2>20, ArrivedType, AppendElems DEF ReadAnswer, TypeOK
    <3>. QED  BY <2>20, <3>1, ArrivedType DEF ReadAnswer, TypeOK
  <2>21. ASSUME AbsorbReply  PROVE TypeOK'
    BY <2>21, ArrivedType, AbsorbanceType DEF AbsorbReply, TypeOK
  <2>22. ASSUME ExtraReply  PROVE TypeOK'
    BY <2>22, ArrivedType, AbsorbanceType DEF ExtraReply, TypeOK
  <2>23. ASSUME PairReply  PROVE TypeOK'
    <3>1. Head(q) \in Requests /\ Tail(q) \in Seq(Requests)
      BY <2>23, TailElems DEF PairReply, TypeOK
    <3>2. unclaimed' = Listed(Head(q))
      BY <2>23 DEF PairReply, Listed
    <3>3. Head(up).req \in Requests
      BY <2>23, ArrivedType DEF PairReply
    <3>. QED  BY <2>23, <3>1, <3>2, <3>3, ArrivedType, AbsorbanceType, ListedType
         DEF PairReply, TypeOK
  <2>24. ASSUME Resolve  PROVE TypeOK'
    BY <2>24 DEF Resolve, TypeOK
  <2>25. ASSUME ReaderDies  PROVE TypeOK'
    BY <2>25, EmptySeq DEF ReaderDies, TypeOK
  <2>26. ASSUME FwAccept  PROVE TypeOK'
    <3>1. Head(down) \in Requests /\ down' \in Seq(Requests \cup {ClearCmd})
      BY <2>26, DownType DEF FwAccept
    <3>2. up' \in Seq([kind : {"ack", "err", "plan"}, req : Requests])
      BY <2>26, <3>1, SendType DEF FwAccept
    <3>3. owed' \in Seq(Requests)
      <4>1. CASE Len(owed) < 2
        BY <2>26, <3>1, <4>1, AppendElems DEF FwAccept, TypeOK
      <4>2. CASE ~(Len(owed) < 2)
        <5>1. owed # <<>>
          BY <4>2, EmptySeq
        <5>2. Head(owed) \in Requests
          BY <5>1, TailElems DEF TypeOK
        <5>. QED  BY <2>26, <3>1, <4>2, <5>2 DEF FwAccept
      <4>. QED  BY <4>1, <4>2
    <3>. QED  BY <2>26, <3>1, <3>2, <3>3 DEF FwAccept, TypeOK
  <2>27. ASSUME FwRefuse  PROVE TypeOK'
    <3>1. Head(down) \in Requests /\ down' \in Seq(Requests \cup {ClearCmd})
      BY <2>27, DownType DEF FwRefuse
    <3>2. up' \in Seq([kind : {"ack", "err", "plan"}, req : Requests])
      BY <2>27, <3>1, SendType DEF FwRefuse
    <3>. QED  BY <2>27, <3>1, <3>2 DEF FwRefuse, TypeOK
  <2>28. ASSUME FwClear  PROVE TypeOK'
    <3>1. down' \in Seq(Requests \cup {ClearCmd})
      BY <2>28, DownType DEF FwClear
    <3>2. owed' \in Seq(Requests)
      BY <2>28, ClearElems DEF FwClear, TypeOK
    <3>. QED  BY <2>28, <3>1, <3>2 DEF FwClear, TypeOK
  <2>29. ASSUME FwReply  PROVE TypeOK'
    <3>1. Head(owed) \in Requests /\ owed' \in Seq(Requests)
      BY <2>29, TailElems DEF FwReply, TypeOK
    <3>2. up' \in Seq([kind : {"ack", "err", "plan"}, req : Requests])
      BY <2>29, <3>1, SendType DEF FwReply
    <3>. QED  BY <2>29, <3>1, <3>2 DEF FwReply, TypeOK
  <2>30. ASSUME LoseFrame  PROVE TypeOK'
    <3>1. up' \in Seq([kind : {"ack", "err", "plan"}, req : Requests])
      BY <2>30, TailElems DEF LoseFrame, TypeOK
    <3>. QED  BY <2>30, <3>1 DEF LoseFrame, TypeOK
  <2>31. ASSUME Tick  PROVE TypeOK'
    <3>1. age' \in [Requests -> Nat]
      BY <2>31 DEF Tick, TypeOK
    <3>. QED  BY <2>31, <3>1 DEF Tick, TypeOK
  <2>32. CASE UNCHANGED vars
    BY <2>32 DEF vars, TypeOK
  <2>. QED  BY <2>1, <2>2, <2>3, <2>4, <2>5, <2>6, <2>7, <2>8, <2>9, <2>10, <2>11, <2>12,
               <2>13, <2>14, <2>15, <2>16, <2>17, <2>18, <2>19, <2>20, <2>21, <2>22, <2>23,
               <2>24, <2>25, <2>26, <2>27, <2>28, <2>29, <2>30, <2>31, <2>32
            DEF Next, Caller, Clearer, Reader, FwRead
<1>. QED  BY <1>1, <1>2, PTL DEF Spec

-----------------------------------------------------------------------------
(* The life of a token                                                     *)

\* What TokenLife speaks of and most steps leave alone.
listVars == <<q, unclaimed, reply, lost, swept, handTok, handPlan>>

LEMMA CallMoves ==
  ASSUME TypeOK, TokenLife, UNCHANGED listVars, NEW r \in Requests, NEW p \in Inside,
         phase[r] \in Inside, phase' = [phase EXCEPT ![r] = p], serial' = serial,
         p = "replied" => reply[r] # NoRequest
  PROVE  TokenLife'
<1>1. Elems(q) \cup Elems(unclaimed) \subseteq Requests
  BY ElemsIn DEF TypeOK
<1>2. /\ Elems(q') = Elems(q) /\ Elems(unclaimed') = Elems(unclaimed)
      /\ Distinct(q') = Distinct(q) /\ Distinct(unclaimed') = Distinct(unclaimed)
      /\ UNCHANGED <<reply, lost, swept, handTok, handPlan>>
  BY DEF listVars
<1>3. \A x \in Requests : phase'[x] \in Inside <=> x = serial'
  BY DEF TokenLife, TypeOK
<1>4. \A x \in Requests : phase'[x] = "replied" => reply[x] # NoRequest
  BY DEF TokenLife, TypeOK
<1>5. \A x \in Elems(q) \cup Elems(unclaimed) : x = serial' \/ phase'[x] = "abandoned"
  BY <1>1 DEF TokenLife, TypeOK, Inside
<1>. QED  BY <1>2, <1>3, <1>4, <1>5 DEF TokenLife, Done

LEMMA CallReturns ==
  ASSUME TypeOK, TokenLife, NEW r \in Requests, NEW o \in Ended,
         phase[r] \in Inside, Return(r, o),
         UNCHANGED <<reply, swept, handTok, handPlan>>,
         \A x \in Requests : x # r => lost'[x] = lost[x],
         \/ UNCHANGED <<q, unclaimed>> /\ UNCHANGED lost
            /\ (o = "abandoned" \/ r \notin Elems(q) \cup Elems(unclaimed))
         \/ q' = Without(q, r) /\ unclaimed' = Without(unclaimed, r)
  PROVE  TokenLife'
<1>1. /\ serial = r /\ serial' = NoRequest /\ NoRequest \notin Requests
      /\ phase' = [phase EXCEPT ![r] = o] /\ phase \in [Requests -> Phases]
  BY CartAssumption DEF TokenLife, Return, TypeOK
<1>2. \A x \in Requests : phase'[x] \in Inside <=> x = serial'
  BY <1>1 DEF TokenLife, Ended, Inside
<1>3. q \in Seq(Requests) /\ unclaimed \in Seq(Requests)
  BY DEF TypeOK
<1>4. CASE UNCHANGED <<q, unclaimed>> /\ UNCHANGED lost
           /\ (o = "abandoned" \/ r \notin Elems(q) \cup Elems(unclaimed))
  <2>1. Elems(q) \cup Elems(unclaimed) \subseteq Requests
    BY <1>3, ElemsIn
  <2>2. Elems(q') = Elems(q) /\ Elems(unclaimed') = Elems(unclaimed)
    BY <1>4
  <2>3. \A x \in Elems(q) \cup Elems(unclaimed) : x = serial' \/ phase'[x] = "abandoned"
    BY <1>1, <1>4, <2>1 DEF TokenLife
  <2>4. \A x \in Requests : phase'[x] = "replied" => reply[x] # NoRequest
    BY <1>1 DEF TokenLife, Ended
  <2>. QED  BY <1>2, <1>4, <2>2, <2>3, <2>4 DEF TokenLife, Done, Distinct
<1>5. CASE q' = Without(q, r) /\ unclaimed' = Without(unclaimed, r)
  <2>1. /\ Distinct(q') /\ Elems(q') = Elems(q) \ {r}
        /\ Distinct(unclaimed') /\ Elems(unclaimed') = Elems(unclaimed) \ {r}
    BY <1>3, <1>5, WithoutElems DEF TokenLife
  <2>2. Elems(q) \cup Elems(unclaimed) \subseteq Requests
    BY <1>3, ElemsIn
  <2>3. \A x \in Elems(q') \cup Elems(unclaimed') : x = serial' \/ phase'[x] = "abandoned"
    BY <1>1, <2>1, <2>2 DEF TokenLife
  <2>4. \A x \in Requests : phase'[x] = "replied" => reply[x] # NoRequest
    BY <1>1 DEF TokenLife, Ended
  <2>5. /\ \A x \in Elems(q') : ~(reply[x] # NoRequest \/ lost'[x])
        /\ \A x \in Elems(unclaimed') : ~lost'[x]
    BY <2>1, <2>2 DEF TokenLife, Done
  <2>. QED  BY <1>2, <2>1, <2>3, <2>4, <2>5 DEF TokenLife, Done
<1>. QED  BY <1>4, <1>5

LEMMA TokenLifeStep == TypeOK /\ TokenLife /\ [Next]_vars => TokenLife'
<1>. SUFFICES ASSUME TypeOK, TokenLife, [Next]_vars  PROVE TokenLife'
  OBVIOUS
<1>. USE DEF callVars, tokenVars, pendVars, clearVars, handVars, ackVars, linkVars
<1>q. /\ q \in Seq(Requests) /\ unclaimed \in Seq(Requests)
      /\ Elems(q) \subseteq Requests /\ Elems(unclaimed) \subseteq Requests
  BY ElemsIn DEF TypeOK
<1>1. ASSUME NEW r \in Requests, Register(r)  PROVE TokenLife'
  <2>1. /\ serial = NoRequest /\ NoRequest \notin Requests
        /\ r \notin Elems(q) \cup Elems(unclaimed) /\ r # handTok
        /\ \A c \in Clearers : r \notin swept[c]
    BY <1>1, CartAssumption DEF Register, Fresh
  <2>2. Elems(q') = Elems(q) \cup {r} /\ Distinct(q')
    BY <1>1, <1>q, <2>1, AppendElems DEF Register, TokenLife
  <2>3. /\ serial' = r /\ phase' = [phase EXCEPT ![r] = "registered"]
        /\ reply' = [reply EXCEPT ![r] = NoRequest] /\ lost' = [lost EXCEPT ![r] = FALSE]
        /\ UNCHANGED <<unclaimed, swept, handTok, handPlan>>
    BY <1>1 DEF Register
  <2>4. \A x \in Requests : phase'[x] \in Inside <=> x = serial'
    BY <2>1, <2>3 DEF TokenLife, TypeOK, Inside
  <2>5. \A x \in Elems(q') \cup Elems(unclaimed') : x = serial' \/ phase'[x] = "abandoned"
    BY <1>q, <2>1, <2>2, <2>3 DEF TokenLife, TypeOK
  <2>6. \A x \in Elems(q') : ~Done(x)'
    BY <1>q, <2>2, <2>3 DEF TokenLife, TypeOK, Done
  <2>7. \A x \in Elems(unclaimed') : ~lost'[x]
    BY <1>q, <2>1, <2>3 DEF TokenLife, TypeOK
  <2>8. \A x \in Requests : phase'[x] = "replied" => reply'[x] # NoRequest
    BY <2>3 DEF TokenLife, TypeOK
  <2>. QED  BY <2>1, <2>2, <2>3, <2>4, <2>5, <2>6, <2>7, <2>8 DEF TokenLife
<1>2. ASSUME NEW r \in Requests, Write(r)  PROVE TokenLife'
  BY <1>2, CallMoves DEF Write, listVars, Inside
<1>3. ASSUME NEW r \in Requests, WriteFails(r)  PROVE TokenLife'
  BY <1>3, CallReturns DEF WriteFails, Drop, Inside, Ended
<1>4. ASSUME NEW r \in Requests, WriteRefused(r)  PROVE TokenLife'
  BY <1>4, CallReturns DEF WriteRefused, Inside, Ended
<1>5. ASSUME NEW r \in Requests, TakeAck(r)  PROVE TokenLife'
  BY <1>5, CallMoves DEF TakeAck, listVars, Inside
<1>6. ASSUME NEW r \in Requests, RememberErr(r)  PROVE TokenLife'
  BY <1>6 DEF RememberErr, TokenLife, Done
<1>7. ASSUME NEW r \in Requests, Rejected(r)  PROVE TokenLife'
  BY <1>7, CallReturns DEF Rejected, Drop, Inside, Ended
<1>8. ASSUME NEW r \in Requests, AbandonAckWait(r)  PROVE TokenLife'
  BY <1>8, CallReturns DEF AbandonAckWait, Inside, Ended
<1>9. ASSUME NEW r \in Requests, WaitLost(r)  PROVE TokenLife'
  <2>1. r \notin Elems(q) \cup Elems(unclaimed)
    BY <1>9 DEF WaitLost, TokenLife, Done
  <2>. QED  BY <1>9, <2>1, CallReturns DEF WaitLost, Inside, Ended
<1>10. ASSUME NEW r \in Requests, WaitReply(r)  PROVE TokenLife'
  BY <1>10, CallMoves DEF WaitReply, listVars, Inside
<1>11. ASSUME NEW r \in Requests, Unclaim(r)  PROVE TokenLife'
  <2>1. r \notin Elems(q)
    BY <1>11 DEF Unclaim, TokenLife, Done
  <2>2. Without(q, r) = q
    BY <2>1 DEF Without
  <2>. QED  BY <1>11, <2>2, CallReturns DEF Unclaim, Inside, Ended
<1>12. ASSUME NEW r \in Requests, WaitExpired(r)  PROVE TokenLife'
  BY <1>12, CallMoves DEF WaitExpired, listVars, Inside
<1>13. ASSUME NEW r \in Requests, WaitLinkDown(r)  PROVE TokenLife'
  BY <1>13, CallMoves DEF WaitLinkDown, listVars, Inside
<1>14. ASSUME NEW r \in Requests, GiveUp(r)  PROVE TokenLife'
  <2>1. \A x \in Requests : x # r => lost'[x] = lost[x]
    BY <1>14 DEF GiveUp, TypeOK
  <2>. QED  BY <1>14, <2>1, CallReturns DEF GiveUp, DropAndAbsorb, Inside, Ended
<1>15. ASSUME PollCart  PROVE TokenLife'
  <2>1. Elems(Tail(unclaimed)) \subseteq Elems(unclaimed) /\ Distinct(Tail(unclaimed))
    BY <1>15, <1>q, TailElems DEF PollCart, TokenLife
  <2>. QED  BY <1>15, <2>1 DEF PollCart, TokenLife, Done
<1>16. ASSUME NEW c \in Clearers, ClearPending(c)  PROVE TokenLife'
  <2>1. CASE q = <<>>
    BY <1>16, <2>1 DEF ClearPending, TokenLife, Done
  <2>2. CASE q # <<>>
    <3>1. Elems(<<>>) = {} /\ Distinct(<<>>)
      BY EmptySeq DEF Elems, Distinct
    <3>2. q' = <<>> /\ swept' = [swept EXCEPT ![c] = Elems(q)]
      BY <1>16, <2>2 DEF ClearPending
    <3>3. \A d \in Clearers : swept'[d] \cap (Elems(q') \cup Elems(unclaimed)) = {}
      BY <3>1, <3>2 DEF TokenLife, TypeOK
    <3>. QED  BY <1>16, <2>2, <3>1, <3>2, <3>3 DEF ClearPending, TokenLife, Done
  <2>. QED  BY <2>1, <2>2
<1>17. ASSUME NEW c \in Clearers, FailSwept(c)  PROVE TokenLife'
  <2>1. \A x \in Elems(q) \cup Elems(unclaimed) : lost'[x] = lost[x]
    BY <1>17, <1>q DEF FailSwept, TokenLife, TypeOK
  <2>2. \A d \in Clearers : swept'[d] \subseteq swept[d]
    BY <1>17 DEF FailSwept, TypeOK
  <2>. QED  BY <1>17, <2>1, <2>2 DEF FailSwept, TokenLife, Done
<1>18. ASSUME NEW c \in Clearers, WriteClear(c)  PROVE TokenLife'
  BY <1>18 DEF WriteClear, TokenLife, Done
<1>19. ASSUME PairReply  PROVE TokenLife'
  <2>1. /\ q # <<>> /\ q' = Tail(q) /\ handTok' = Head(q)
        /\ unclaimed' = Listed(Head(q))
        /\ UNCHANGED <<serial, phase, reply, lost, swept>>
    BY <1>19 DEF PairReply, Listed
  <2>2. /\ Head(q) \in Requests /\ Head(q) \in Elems(q)
        /\ Elems(Tail(q)) \subseteq Elems(q) /\ Distinct(Tail(q))
        /\ Head(q) \notin Elems(Tail(q))
    BY <1>q, <2>1, TailElems DEF TokenLife
  <2>3. /\ Elems(unclaimed') \subseteq Elems(unclaimed) \cup {Head(q)}
        /\ Distinct(unclaimed')
    BY <2>1, <2>2, ListedType DEF TokenLife
  <2>4. Elems(q') \cup Elems(unclaimed') \subseteq Elems(q) \cup Elems(unclaimed)
    BY <2>1, <2>2, <2>3
  <2>5. Elems(q') \cap Elems(unclaimed') = {}
    BY <2>1, <2>2, <2>3 DEF TokenLife
  <2>6. \A x \in Elems(unclaimed') : ~lost[x]
    BY <2>2, <2>3 DEF TokenLife, Done
  <2>7. handPlan' # NoRequest
    BY <1>19, ArrivedType, CartAssumption DEF PairReply
  <2>. QED  BY <2>1, <2>2, <2>3, <2>4, <2>5, <2>6, <2>7 DEF TokenLife, Done
<1>20. ASSUME Resolve  PROVE TokenLife'
  <2>1. handTok \in Requests /\ handTok' = NoRequest /\ NoRequest \notin Elems(q)
    BY <1>20, <1>q, CartAssumption DEF Resolve, TypeOK
  <2>2. \A x \in Requests : x # handTok => reply'[x] = reply[x]
    BY <1>20 DEF Resolve, TypeOK
  <2>3. \A x \in Requests : reply[x] # NoRequest => reply'[x] # NoRequest
    BY <1>20, <2>1, <2>2 DEF Resolve, TokenLife, TypeOK
  <2>. QED  BY <1>20, <1>q, <2>1, <2>2, <2>3 DEF Resolve, TokenLife, Done
<1>21. CASE \/ StrayError \/ ReadAnswer \/ AbsorbReply \/ ExtraReply \/ ReaderDies
            \/ FwRead \/ FwReply \/ LoseFrame \/ Tick \/ UNCHANGED vars
  <2>1. UNCHANGED listVars /\ UNCHANGED <<serial, phase>>
    BY <1>21 DEF StrayError, ReadAnswer, AbsorbReply, ExtraReply, ReaderDies, FwRead, FwAccept,
                 FwRefuse, FwClear, FwReply, LoseFrame, Tick, vars, listVars
  <2>. QED  BY <2>1 DEF listVars, TokenLife, Done
<1>. QED  BY <1>1, <1>2, <1>3, <1>4, <1>5, <1>6, <1>7, <1>8, <1>9, <1>10, <1>11, <1>12, <1>13,
             <1>14, <1>15, <1>16, <1>17, <1>18, <1>19, <1>20, <1>21
          DEF Next, Caller, Clearer, Reader

(* One call at a time; a token is in one place; a queued token is open.     *)
THEOREM TokenLifeHolds == Spec => []TokenLife
<1>1. Init => TokenLife
  <2>. SUFFICES ASSUME Init  PROVE TokenLife
    OBVIOUS
  <2>1. Elems(q) = {} /\ Elems(unclaimed) = {} /\ Distinct(q) /\ Distinct(unclaimed)
    BY EmptySeq DEF Init, Elems, Distinct
  <2>. QED  BY <2>1, CartAssumption DEF Init, TokenLife, Inside
<1>2. TypeOK /\ TokenLife /\ [Next]_vars => TokenLife'
  BY TokenLifeStep
<1>. QED  BY <1>1, <1>2, TypeCorrect, PTL DEF Spec

(* A request that is over for its caller is in neither list, so no result   *)
(* can be paired with it any more and poll_cart cannot hand one out for it. *)
THEOREM DeadStaysDeadHolds == Spec => []DeadStaysDead
<1>1. TypeOK /\ TokenLife => DeadStaysDead
  BY DEF TypeOK, TokenLife, DeadStaysDead, Inside, Ended
<1>. QED  BY <1>1, TypeCorrect, TokenLifeHolds, PTL

-----------------------------------------------------------------------------
(***************************************************************************)
(* What the pairing of CartPairing achieves under the timing it is built   *)
(* for (Nominal), proved for every value of the constants: no result goes  *)
(* to the wrong call, none comes unexpected, a rejected request never      *)
(* runs, and CartPairing implements CartPromise.                           *)
(*                                                                         *)
(* The argument counts.  Let Rivals be the requests, other than one whose  *)
(* token is queued and whose caller still waits, whose result may still    *)
(* come.  The budget in force and the tokens ahead are at least as many,   *)
(* so a result of a rival never reaches the token of the caller that       *)
(* waits; and as results come in the order of the requests, its own result *)
(* finds no rival left.  The budget may lapse, because what is not covered *)
(* by a token is older than the budget, hence too old to come.             *)
(***************************************************************************)

\* Requests whose plan result may still come, the one about to be written included.
Due == {r \in Requests : r \in PlanDue \/ phase[r] = "registered"}
Rivals == Due \ (Elems(q) \cap {serial})
\* The tokens queued ahead of the caller that waits.
Ahead == IF serial \in Elems(q) THEN Len(q) - 1 ELSE Len(q)
\* Rivals written after the budget was last granted.
Young == {r \in Rivals : age[r] < AbsorbTTL - ttl}

(* There is a token or a unit of budget for every result that may come, and *)
(* a token for those that will outlive the budget.                          *)
Covered ==
  ~linkDead => /\ IsFiniteSet(Due)
               /\ Cardinality(Rivals) <= Absorbance + Ahead
               /\ Cardinality(Young) <= Ahead

\* The caller that waits registered last.
HolderIsLast == serial \in Elems(q) => q[Len(q)] = serial

\* x is another request than y, and not the one whose caller waits.
Before(x, y) == x # y /\ x # serial
Commands == Elems(down) \cap Requests
Results == UpReqs({"plan"})

(* What is on its way is in the order of the calls: no request twice, and   *)
(* the one whose caller waits behind all others.                            *)
DownInOrder ==
  \A i, j \in 1..Len(down) :
     i < j /\ down[i] \in Requests /\ down[j] \in Requests => Before(down[i], down[j])
OwedInOrder == \A i, j \in 1..Len(owed) : i < j => Before(owed[i], owed[j])
UpInOrder ==
  \A i, j \in 1..Len(up) :
     i < j /\ up[i].kind = "plan" /\ up[j].kind = "plan" => Before(up[i].req, up[j].req)
InOrder ==
  /\ DownInOrder /\ OwedInOrder /\ UpInOrder
  /\ \A x \in Elems(owed), y \in Commands : Before(x, y)
  /\ \A x \in Results, y \in Elems(owed) \cup Commands : Before(x, y)

\* Where a request is on its way says what the firmware has made of it.
Decided ==
  /\ \A x \in Commands : fate[x] = "sent"
  /\ \A x \in Elems(owed) \cup Results : fate[x] = "accepted"
  /\ \A x \in UpReqs({"ack"}) : fate[x] = "accepted"
  /\ \A x \in UpReqs({"err"}) : fate[x] = "refused"
  /\ \A r \in Requests : phase[r] = "registered" => fate[r] = "none" /\ ~InFlight(r)
  /\ \A r \in Requests : phase[r] = "rejected" => fate[r] = "refused"

(* The only answer on its way is that of the caller inside expect(), which  *)
(* has not had it yet; what it has had is its own.                          *)
AnswerOnItsWay ==
  ~linkDead => /\ \A r \in Requests \cap AnswerDue :
                     phase[r] = "ackwait" /\ ackq = <<>> /\ ~errSeen
               /\ \A i, j \in 1..Len(up) : up[i].kind # "plan" /\ up[j].kind # "plan" => i = j
               /\ UpReqs({"ack", "err"}) \cap Elems(down) = {}
AnswerTaken ==
  \A r \in Requests : phase[r] = "ackwait" =>
     /\ errSeen => fate[r] = "refused" /\ ackq = <<>>
     /\ Len(ackq) <= 1
     /\ ackq # <<>> => fate[r] = IF Head(ackq) = "ack" THEN "accepted" ELSE "refused"

(* The clocks: nothing is later than its delay, and the windows that are    *)
(* open began after everything on its way was written.                      *)
Clocked ==
  ~linkDead => /\ \A x \in Requests : x \in AnswerDue => age[x] <= AckDelay
               /\ \A x \in Requests : x \in PlanDue => age[x] <= PlanDelay
               /\ \A r \in Requests : phase[r] = "registered" => age[r] = 0
               /\ \A r, x \in Requests :
                     phase[r] = "ackwait" /\ x \in AnswerDue => age[x] + left >= AckTimeout
               /\ \A r, x \in Requests :
                     phase[r] \in {"planwait", "expired"} /\ x \in PlanDue
                        => age[x] + left >= MoveTimeout
               /\ \A r \in Requests : phase[r] = "expired" => left = 0
               /\ \A r \in Requests : phase[r] # "linkgone"

\* A token that has a result has its own, from a request that was accepted.
Paired ==
  /\ handTok # NoRequest => reply[handTok] = NoRequest
  /\ handTok \in Requests /\ handTok = serial => handPlan = serial /\ fate[serial] = "accepted"
  /\ serial \in Requests /\ reply[serial] # NoRequest
        => reply[serial] = serial /\ fate[serial] = "accepted"
  /\ \A r \in Requests : phase[r] = "ok" => reply[r] = r

PairingInv == /\ TypeOK /\ TokenLife /\ NoDesync
              /\ HolderIsLast /\ InOrder /\ Decided /\ AnswerOnItsWay /\ AnswerTaken
              /\ Clocked /\ Paired /\ Covered

-----------------------------------------------------------------------------
(* Frames on the uplink                                                    *)

Frames == [kind : {"ack", "err", "plan"}, req : Requests]
Frame(k, r) == [kind |-> k, req |-> r]
\* UpReqs of any sequence of frames.
ReqsOf(s, K) == {s[i].req : i \in {j \in 1..Len(s) : s[j].kind \in K}}

LEMMA ReqsAppend ==
  ASSUME NEW s \in Seq(Frames), NEW k \in {"ack", "err", "plan"}, NEW r \in Requests, NEW K
  PROVE  ReqsOf(Append(s, Frame(k, r)), K) =
            ReqsOf(s, K) \cup (IF k \in K THEN {r} ELSE {})
<1>. DEFINE t == Append(s, Frame(k, r))
<1>1. /\ t \in Seq(Frames) /\ Len(t) = Len(s) + 1 /\ Len(s) \in Nat
      /\ \A i \in 1..Len(s) : t[i] = s[i]
      /\ t[Len(s) + 1] = Frame(k, r)
  BY AppendProperties, LenProperties DEF Frames, Frame
<1>. HIDE DEF t
<1>2. ReqsOf(t, K) \subseteq ReqsOf(s, K) \cup (IF k \in K THEN {r} ELSE {})
  <2>. SUFFICES ASSUME NEW i \in 1..Len(t), t[i].kind \in K
                PROVE  t[i].req \in ReqsOf(s, K) \cup (IF k \in K THEN {r} ELSE {})
    BY DEF ReqsOf
  <2>1. CASE i = Len(s) + 1
    BY <1>1, <2>1 DEF Frame
  <2>2. CASE i \in 1..Len(s)
    BY <1>1, <2>2 DEF ReqsOf
  <2>. QED  BY <1>1, <2>1, <2>2
<1>3. ReqsOf(s, K) \subseteq ReqsOf(t, K)
  BY <1>1 DEF ReqsOf
<1>4. k \in K => r \in ReqsOf(t, K)
  BY <1>1 DEF ReqsOf, Frame
<1>. QED  BY <1>2, <1>3, <1>4 DEF t

LEMMA ReqsTail ==
  ASSUME NEW s \in Seq(Frames), s # <<>>, NEW K
  PROVE  ReqsOf(s, K) = ReqsOf(Tail(s), K) \cup (IF Head(s).kind \in K THEN {Head(s).req} ELSE {})
<1>1. /\ Tail(s) \in Seq(Frames)
      /\ Len(Tail(s)) = Len(s) - 1 /\ Len(s) \in Nat \ {0}
      /\ Head(s) = s[1]
      /\ \A i \in 1..(Len(s) - 1) : Tail(s)[i] = s[i + 1]
  BY HeadTailProperties, EmptySeq, LenProperties
<1>2. ReqsOf(Tail(s), K) \subseteq ReqsOf(s, K)
  BY <1>1 DEF ReqsOf
<1>3. Head(s).kind \in K => Head(s).req \in ReqsOf(s, K)
  BY <1>1 DEF ReqsOf
<1>4. ASSUME NEW i \in 1..Len(s), s[i].kind \in K, i # 1
      PROVE  s[i].req \in ReqsOf(Tail(s), K)
  <2>1. i - 1 \in 1..(Len(s) - 1) /\ Tail(s)[i - 1] = s[i]
    BY <1>1, <1>4
  <2>. QED  BY <1>1, <1>4, <2>1 DEF ReqsOf
<1>5. ReqsOf(s, K) \subseteq ReqsOf(Tail(s), K) \cup (IF Head(s).kind \in K THEN {Head(s).req} ELSE {})
  BY <1>1, <1>4 DEF ReqsOf
<1>. QED  BY <1>2, <1>3, <1>5

LEMMA ReqsTyped ==
  ASSUME NEW s \in Seq(Frames), NEW K
  PROVE  /\ ReqsOf(s, K) \subseteq Requests
         /\ ReqsOf(<<>>, K) = {}
         /\ UpReqs(K) = ReqsOf(up, K)
<1>1. ReqsOf(s, K) \subseteq Requests
  <2>1. \A i \in 1..Len(s) : s[i] \in Frames
    BY LenProperties
  <2>2. \A i \in 1..Len(s) : s[i].req \in Requests
    BY <2>1 DEF Frames
  <2>. QED  BY <2>2 DEF ReqsOf
<1>2. ReqsOf(<<>>, K) = {}
  <2>1. Len(<<>>) = 0
    BY EmptySeq
  <2>. QED  BY <2>1 DEF ReqsOf
<1>3. UpReqs(K) = ReqsOf(up, K)
  BY DEF ReqsOf, UpReqs
<1>. QED  BY <1>1, <1>2, <1>3
-----------------------------------------------------------------------------
(* How each step of the link and of the firmware moves what is on its way  *)

LEMMA LineTyped ==
  ASSUME TypeOK
  PROVE  /\ up \in Seq(Frames) /\ down \in Seq(Requests \cup {ClearCmd}) /\ owed \in Seq(Requests)
         /\ Elems(owed) \subseteq Requests /\ Commands \subseteq Requests
         /\ \A K : UpReqs(K) \subseteq Requests
<1>1. up \in Seq(Frames) /\ down \in Seq(Requests \cup {ClearCmd}) /\ owed \in Seq(Requests)
  BY DEF TypeOK, Frames
<1>. QED  BY <1>1, ElemsIn, ReqsTyped DEF Commands

\* What a request's place on the line means, in terms of the three parts of the line.
LEMMA DueParts ==
  ASSUME TypeOK, NEW x \in Requests
  PROVE  /\ x \in PlanDue <=> x \in Commands \cup Elems(owed) \cup Results
         /\ x \in AnswerDue <=> x \in Commands \cup UpReqs({"ack", "err"})
BY DEF PlanDue, AnswerDue, Commands, Results

LEMMA SentFrame ==
  ASSUME TypeOK, NEW k \in {"ack", "err", "plan"}, NEW r \in Requests, up' = Sent(k, r)
  PROVE  \/ linkDead /\ up' = up /\ \A K : UpReqs(K)' = UpReqs(K)
         \/ /\ ~linkDead /\ up' = Append(up, Frame(k, r)) /\ Len(up') = Len(up) + 1
            /\ Len(up) \in Nat
            /\ \A i \in 1..Len(up) : up'[i] = up[i]
            /\ up'[Len(up) + 1] = Frame(k, r)
            /\ \A K : UpReqs(K)' = UpReqs(K) \cup (IF k \in K THEN {r} ELSE {})
<1>1. up \in Seq(Frames)
  BY LineTyped
<1>2. CASE linkDead
  <2>1. up' = up
    BY <1>2 DEF Sent
  <2>. QED  BY <1>2, <2>1 DEF UpReqs
<1>3. CASE ~linkDead
  <2>1. up' = Append(up, Frame(k, r))
    BY <1>3 DEF Sent, Frame
  <2>2. /\ Len(up') = Len(up) + 1 /\ Len(up) \in Nat
        /\ \A i \in 1..Len(up) : up'[i] = up[i]
        /\ up'[Len(up) + 1] = Frame(k, r)
    BY <1>1, <2>1, AppendProperties, LenProperties DEF Frames, Frame
  <2>3. \A K : ReqsOf(up', K) = ReqsOf(up, K) \cup (IF k \in K THEN {r} ELSE {})
    BY <1>1, <2>1, ReqsAppend
  <2>4. \A K : UpReqs(K)' = ReqsOf(up', K) /\ UpReqs(K) = ReqsOf(up, K)
    BY DEF UpReqs, ReqsOf
  <2>. QED  BY <1>3, <2>1, <2>2, <2>3, <2>4
<1>. QED  BY <1>2, <1>3

LEMMA TakenFrame ==
  ASSUME TypeOK, up # <<>>, up' = Tail(up)
  PROVE  /\ Head(up) \in Frames /\ Head(up) = up[1]
         /\ Len(up') = Len(up) - 1 /\ Len(up) \in Nat \ {0}
         /\ \A i \in 1..Len(up') : up'[i] = up[i + 1] /\ i + 1 \in 1..Len(up)
         /\ \A K : UpReqs(K) = UpReqs(K)' \cup
                                (IF Head(up).kind \in K THEN {Head(up).req} ELSE {})
<1>1. up \in Seq(Frames)
  BY LineTyped
<1>2. /\ Head(up) \in Frames /\ Head(up) = up[1]
      /\ Len(up') = Len(up) - 1 /\ Len(up) \in Nat \ {0}
      /\ \A i \in 1..(Len(up) - 1) : up'[i] = up[i + 1]
  BY <1>1, HeadTailProperties, EmptySeq, LenProperties
<1>3. \A i \in 1..Len(up') : up'[i] = up[i + 1] /\ i + 1 \in 1..Len(up)
  BY <1>2
<1>4. \A K : ReqsOf(up, K) = ReqsOf(up', K) \cup (IF Head(up).kind \in K THEN {Head(up).req} ELSE {})
  BY <1>1, ReqsTail
<1>5. \A K : UpReqs(K)' = ReqsOf(up', K) /\ UpReqs(K) = ReqsOf(up, K)
  BY DEF UpReqs, ReqsOf
<1>. QED  BY <1>2, <1>3, <1>4, <1>5

LEMMA TakenCommand ==
  ASSUME TypeOK, down # <<>>, down' = Tail(down)
  PROVE  /\ Head(down) = down[1] /\ Len(down') = Len(down) - 1 /\ Len(down) \in Nat \ {0}
         /\ \A i \in 1..Len(down') : down'[i] = down[i + 1] /\ i + 1 \in 1..Len(down)
         /\ Elems(down) = Elems(down') \cup {Head(down)}
         /\ Commands = Commands' \cup ({Head(down)} \cap Requests)
<1>1. down \in Seq(Requests \cup {ClearCmd})
  BY LineTyped
<1>2. /\ Head(down) = down[1]
      /\ Len(down') = Len(down) - 1 /\ Len(down) \in Nat \ {0}
      /\ \A i \in 1..(Len(down) - 1) : down'[i] = down[i + 1]
      /\ Elems(down) = Elems(down') \cup {Head(down)}
  BY <1>1, HeadTailProperties, EmptySeq, LenProperties, TailElems
<1>3. \A i \in 1..Len(down') : down'[i] = down[i + 1] /\ i + 1 \in 1..Len(down)
  BY <1>2
<1>4. Commands = Commands' \cup ({Head(down)} \cap Requests)
  BY <1>2 DEF Commands
<1>. QED  BY <1>2, <1>3, <1>4

LEMMA WrittenCommand ==
  ASSUME TypeOK, NEW e \in Requests \cup {ClearCmd}, down' = Append(down, e)
  PROVE  /\ Len(down') = Len(down) + 1 /\ Len(down) \in Nat
         /\ \A i \in 1..Len(down) : down'[i] = down[i]
         /\ down'[Len(down) + 1] = e
         /\ Elems(down') = Elems(down) \cup {e}
         /\ Commands' = Commands \cup ({e} \cap Requests)
<1>1. down \in Seq(Requests \cup {ClearCmd})
  BY LineTyped
<1>2. /\ Len(down') = Len(down) + 1 /\ Len(down) \in Nat
      /\ \A i \in 1..Len(down) : down'[i] = down[i]
      /\ down'[Len(down) + 1] = e
      /\ Elems(down') = Elems(down) \cup {e}
  BY <1>1, AppendProperties, LenProperties, AppendElems
<1>3. Commands' = Commands \cup ({e} \cap Requests)
  BY <1>2 DEF Commands
<1>. QED  BY <1>2, <1>3

\* The steps that change what is on its way, other than the writing of a command.
LineStep == \/ FwAccept \/ FwRefuse \/ FwClear \/ FwReply \/ LoseFrame \/ ReaderDies
            \/ \E K \in SUBSET {"ack", "err", "plan"} : Arrived(K)

LEMMA OwedAppend ==
  ASSUME TypeOK, NEW x \in Requests, owed' = Append(owed, x)
  PROVE  /\ Len(owed') = Len(owed) + 1 /\ Len(owed) \in Nat
         /\ \A i \in 1..Len(owed) : owed'[i] = owed[i]
         /\ owed'[Len(owed) + 1] = x
         /\ Elems(owed') = Elems(owed) \cup {x}
BY LineTyped, AppendProperties, LenProperties, AppendElems

LEMMA OwedReplaced ==
  ASSUME TypeOK, NEW x \in Requests, owed' = <<Head(owed), x>>, Len(owed) >= 2
  PROVE  /\ Len(owed') = 2 /\ owed'[1] = owed[1] /\ owed'[2] = x
         /\ owed[1] \in Elems(owed)
         /\ Elems(owed') = {owed[1], x}
<1>1. owed \in Seq(Requests) /\ Len(owed) \in Nat /\ owed # <<>>
  BY LineTyped, LenProperties, EmptySeq
<1>2. Head(owed) = owed[1]
  BY <1>1, HeadTailProperties
<1>3. Len(owed') = 2 /\ owed'[1] = owed[1] /\ owed'[2] = x
  BY <1>2
<1>4. owed[1] \in Elems(owed)
  BY <1>1 DEF Elems
<1>5. Elems(owed') = {owed[1], x}
  BY <1>3 DEF Elems
<1>. QED  BY <1>3, <1>4, <1>5

LEMMA OwedTaken ==
  ASSUME TypeOK, owed # <<>>, owed' = Tail(owed)
  PROVE  /\ Head(owed) = owed[1] /\ Len(owed') = Len(owed) - 1 /\ Len(owed) \in Nat \ {0}
         /\ \A i \in 1..Len(owed') : owed'[i] = owed[i + 1] /\ i + 1 \in 1..Len(owed)
         /\ Elems(owed) = Elems(owed') \cup {Head(owed)}
<1>1. /\ Head(owed) = owed[1] /\ Len(owed') = Len(owed) - 1 /\ Len(owed) \in Nat \ {0}
      /\ \A i \in 1..(Len(owed) - 1) : owed'[i] = owed[i + 1]
      /\ Elems(owed) = Elems(owed') \cup {Head(owed)}
  BY LineTyped, HeadTailProperties, EmptySeq, LenProperties, TailElems
<1>. QED  BY <1>1

LEMMA OwedCut ==
  ASSUME TypeOK, NEW n \in 0..Len(owed), owed' = SubSeq(owed, 1, n)
  PROVE  /\ Len(owed') = n /\ Len(owed) \in Nat
         /\ \A i \in 1..n : owed'[i] = owed[i] /\ i \in 1..Len(owed)
         /\ Elems(owed') \subseteq Elems(owed)
<1>1. owed \in Seq(Requests) /\ Len(owed) \in Nat
  BY LineTyped, LenProperties
<1>2. Len(owed') = n /\ \A i \in 1..n : owed'[i] = owed[i]
  BY <1>1
<1>3. Elems(owed') \subseteq Elems(owed)
  BY <1>1, <1>2 DEF Elems
<1>. QED  BY <1>1, <1>2, <1>3

LEMMA NoFrames ==
  ASSUME up' = <<>>
  PROVE  Len(up') = 0 /\ \A K : UpReqs(K)' = {}
<1>1. Len(up') = 0
  BY EmptySeq
<1>. QED  BY <1>1 DEF UpReqs

(* Nothing but a write puts a request on its way.                           *)
LEMMA LineShrinks ==
  ASSUME TypeOK, LineStep, NEW x \in Requests
  PROVE  /\ x \in (PlanDue)' => x \in PlanDue
         /\ x \in (AnswerDue)' => x \in AnswerDue
<1>. DEFINE A == {"ack", "err"}
<1>. SUFFICES /\ x \in (Commands \cup Elems(owed) \cup Results)' => x \in Commands \cup Elems(owed) \cup Results
              /\ x \in (Commands \cup UpReqs(A))' => x \in Commands \cup UpReqs(A)
  BY DueParts DEF PlanDue, AnswerDue, Commands, Results
<1>1. CASE FwAccept
  <2>. DEFINE h == Head(down)
  <2>1. h \in Commands /\ h \in Requests /\ Commands' \subseteq Commands
    BY <1>1, TakenCommand DEF FwAccept
  <2>2. Elems(owed') \subseteq Elems(owed) \cup {h}
    <3>1. CASE Len(owed) < 2
      BY <1>1, <2>1, <3>1, OwedAppend DEF FwAccept
    <3>2. CASE ~(Len(owed) < 2)
      <4>1. Len(owed) >= 2
        BY <3>2, LineTyped, LenProperties
      <4>. QED  BY <1>1, <2>1, <3>2, <4>1, OwedReplaced DEF FwAccept
    <3>. QED  BY <3>1, <3>2
  <2>3. UpReqs({"plan"})' \subseteq UpReqs({"plan"}) /\ UpReqs(A)' \subseteq UpReqs(A) \cup {h}
    BY <1>1, <2>1, SentFrame DEF FwAccept
  <2>. QED  BY <2>1, <2>2, <2>3 DEF Results
<1>2. CASE FwRefuse
  <2>. DEFINE h == Head(down)
  <2>1. h \in Commands /\ h \in Requests /\ Commands' \subseteq Commands /\ owed' = owed
    BY <1>2, TakenCommand DEF FwRefuse
  <2>3. UpReqs({"plan"})' \subseteq UpReqs({"plan"}) /\ UpReqs(A)' \subseteq UpReqs(A) \cup {h}
    BY <1>2, <2>1, SentFrame DEF FwRefuse
  <2>. QED  BY <2>1, <2>3 DEF Results
<1>3. CASE FwClear
  <2>1. Commands' \subseteq Commands /\ up' = up
    BY <1>3, TakenCommand DEF FwClear
  <2>2. Elems(owed') \subseteq Elems(owed)
    BY <1>3, OwedCut DEF FwClear
  <2>. QED  BY <2>1, <2>2 DEF Results, UpReqs
<1>4. CASE FwReply
  <2>. DEFINE h == Head(owed)
  <2>1. h \in Elems(owed) /\ h \in Requests /\ Elems(owed') \subseteq Elems(owed) /\ down' = down
    BY <1>4, OwedTaken, LineTyped DEF FwReply
  <2>2. UpReqs({"plan"})' \subseteq UpReqs({"plan"}) \cup {h} /\ UpReqs(A)' \subseteq UpReqs(A)
    BY <1>4, <2>1, SentFrame DEF FwReply
  <2>. QED  BY <2>1, <2>2 DEF Results, Commands
<1>5. CASE LoseFrame \/ \E K \in SUBSET {"ack", "err", "plan"} : Arrived(K)
  <2>1. down' = down /\ owed' = owed /\ up # <<>> /\ up' = Tail(up)
    BY <1>5 DEF LoseFrame, Arrived
  <2>2. \A K : UpReqs(K)' \subseteq UpReqs(K)
    BY <2>1, TakenFrame
  <2>. QED  BY <2>1, <2>2 DEF Results, Commands
<1>6. CASE ReaderDies
  BY <1>6, NoFrames DEF ReaderDies, Results, Commands
<1>. QED  BY <1>1, <1>2, <1>3, <1>4, <1>5, <1>6 DEF LineStep
-----------------------------------------------------------------------------
(* The line stays in the order of the calls                                *)

\* A step leaves what is on its way alone, is one of the link, or writes a command.
LineQuiet == /\ UNCHANGED <<down, owed, up>>
             /\ \/ serial' = serial \/ serial' = NoRequest
                \/ \E r \in Requests : Register(r)

LEMMA LineSteps ==
  ASSUME [Next]_vars
  PROVE  \/ LineQuiet
         \/ LineStep /\ serial' = serial
         \/ \E r \in Requests : Write(r)
         \/ \E c \in Clearers : WriteClear(c)
<1>. USE DEF callVars, tokenVars, pendVars, clearVars, handVars, ackVars, linkVars
<1>1. CASE UNCHANGED vars
  BY <1>1 DEF vars, LineQuiet
<1>2. CASE \E r \in Requests : Register(r)
  BY <1>2 DEF Register, LineQuiet
<1>3. ASSUME NEW r \in Requests, Caller(r)
      PROVE  LineQuiet \/ Write(r)
  BY <1>3 DEF LineQuiet, Caller, WriteFails, WriteRefused, TakeAck, RememberErr, Rejected,
              AbandonAckWait, WaitLost, WaitReply, Unclaim, WaitExpired, WaitLinkDown, GiveUp, Return
<1>4. ASSUME NEW c \in Clearers, Clearer(c)
      PROVE  LineQuiet \/ WriteClear(c)
  BY <1>4 DEF LineQuiet, Clearer, ClearPending, FailSwept
<1>5. CASE PollCart \/ StrayError \/ Resolve \/ Tick
  BY <1>5 DEF LineQuiet, PollCart, StrayError, Resolve, Tick
<1>6. CASE ReadAnswer \/ AbsorbReply \/ ExtraReply \/ PairReply
  <2>1. Arrived({"ack", "err"}) \/ Arrived({"plan"})
    BY <1>6 DEF ReadAnswer, AbsorbReply, ExtraReply, PairReply
  <2>2. {"ack", "err"} \in SUBSET {"ack", "err", "plan"} /\ {"plan"} \in SUBSET {"ack", "err", "plan"}
    OBVIOUS
  <2>3. serial' = serial
    BY <1>6 DEF ReadAnswer, AbsorbReply, ExtraReply, PairReply
  <2>. QED  BY <2>1, <2>2, <2>3 DEF LineStep
<1>7. CASE ReaderDies \/ FwRead \/ FwReply \/ LoseFrame
  BY <1>7 DEF LineStep, ReaderDies, FwRead, FwAccept, FwRefuse, FwClear, FwReply, LoseFrame
<1>. QED  BY <1>1, <1>2, <1>3, <1>4, <1>5, <1>6, <1>7 DEF Next, Reader

LEMMA OrderStays ==
  ASSUME TypeOK, InOrder, UNCHANGED <<down, owed, up>>,
         serial' = serial \/ \A x \in Requests : x \in PlanDue => x # serial'
  PROVE  InOrder'
<1>1. /\ \A i \in 1..Len(down) : down[i] \in Requests => down[i] \in Commands
      /\ \A i \in 1..Len(owed) : owed[i] \in Elems(owed)
      /\ \A i \in 1..Len(up) : up[i].kind = "plan" => up[i].req \in Results
  BY DEF Commands, Elems, Results, UpReqs
<1>2. Commands' = Commands /\ Elems(owed') = Elems(owed) /\ Results' = Results
  BY DEF Commands, Results, UpReqs
<1>3. serial' # serial => \A x \in Commands \cup Elems(owed) \cup Results : x # serial'
  BY DueParts, LineTyped DEF Results
<1>4. DownInOrder'
  BY <1>1, <1>3 DEF InOrder, DownInOrder, Before
<1>5. OwedInOrder'
  BY <1>1, <1>3 DEF InOrder, OwedInOrder, Before
<1>6. UpInOrder'
  BY <1>1, <1>3 DEF InOrder, UpInOrder, Before
<1>. QED  BY <1>2, <1>3, <1>4, <1>5, <1>6 DEF InOrder, Before

LEMMA OrderWrite ==
  ASSUME TypeOK, InOrder, UNCHANGED <<owed, up, serial>>, NEW e \in Requests \cup {ClearCmd},
         down' = Append(down, e), e \in Requests => e \notin PlanDue /\ e = serial
  PROVE  InOrder'
<1>1. /\ \A i \in 1..Len(down) : down[i] \in Requests => down[i] \in Commands
      /\ e \in Requests => \A x \in Commands \cup Elems(owed) \cup Results : x # e
  BY DueParts, LineTyped DEF Commands, Elems, Results
<1>2. /\ Elems(owed)' = Elems(owed) /\ Results' = Results
      /\ Commands' = Commands \cup ({e} \cap Requests)
  BY WrittenCommand DEF Results, UpReqs
<1>3. DownInOrder'
  <2>1. /\ Len(down') = Len(down) + 1 /\ Len(down) \in Nat
        /\ \A i \in 1..Len(down) : down'[i] = down[i]
        /\ down'[Len(down) + 1] = e
    BY WrittenCommand
  <2>. SUFFICES ASSUME NEW i \in 1..Len(down'), NEW j \in 1..Len(down'), i < j,
                       down'[i] \in Requests, down'[j] \in Requests
                PROVE  down'[i] # down'[j] /\ down'[i] # serial
    BY DEF DownInOrder, Before
  <2>2. i \in 1..Len(down) /\ (j \in 1..Len(down) \/ j = Len(down) + 1)
    BY <2>1
  <2>. QED  BY <2>1, <2>2, <1>1 DEF InOrder, DownInOrder, Before
<1>4. OwedInOrder' /\ UpInOrder'
  BY DEF InOrder, OwedInOrder, UpInOrder, Before
<1>. QED  BY <1>1, <1>2, <1>3, <1>4 DEF InOrder, Before

LEMMA OrderDownTail ==
  ASSUME TypeOK, InOrder, serial' = serial, down # <<>>, down' = Tail(down)
  PROVE  /\ DownInOrder' /\ Commands' \subseteq Commands
         /\ Head(down) \in Requests => /\ Head(down) \in Commands
                                       /\ \A y \in Commands' : Before(Head(down), y)
<1>1. /\ Commands' \subseteq Commands
      /\ Head(down) \in Requests => Head(down) \in Commands
      /\ Head(down) = down[1] /\ Len(down') = Len(down) - 1 /\ Len(down) \in Nat \ {0}
      /\ \A i \in 1..Len(down') : down'[i] = down[i + 1] /\ i + 1 \in 1..Len(down)
  BY TakenCommand
<1>2. ASSUME Head(down) \in Requests
      PROVE  \A y \in Commands' : Before(Head(down), y)
  <2>. SUFFICES ASSUME NEW i \in 1..Len(down'), down'[i] \in Requests
                PROVE  Before(Head(down), down'[i])
    BY DEF Commands, Elems
  <2>. QED  BY <1>1, <1>2 DEF InOrder, DownInOrder
<1>3. DownInOrder'
  <2>. SUFFICES ASSUME NEW i \in 1..Len(down'), NEW j \in 1..Len(down'), i < j,
                       down'[i] \in Requests, down'[j] \in Requests
                PROVE  Before(down'[i], down'[j])
    BY DEF DownInOrder, Before
  <2>. QED  BY <1>1 DEF InOrder, DownInOrder
<1>. QED  BY <1>1, <1>2, <1>3

LEMMA OrderAnswer ==
  ASSUME TypeOK, InOrder, serial' = serial,
         NEW k \in {"ack", "err"}, NEW r \in Requests, up' = Sent(k, r)
  PROVE  UpInOrder' /\ Results' = Results
<1>1. CASE linkDead
  <2>1. up' = up
    BY <1>1 DEF Sent
  <2>. QED  BY <2>1 DEF InOrder, UpInOrder, Before, Results, UpReqs
<1>2. CASE ~linkDead
  <2>1. /\ Len(up') = Len(up) + 1 /\ Len(up) \in Nat
        /\ \A i \in 1..Len(up) : up'[i] = up[i]
        /\ up'[Len(up) + 1] = Frame(k, r)
        /\ UpReqs({"plan"})' = UpReqs({"plan"}) \cup (IF k \in {"plan"} THEN {r} ELSE {})
    BY <1>2, SentFrame
  <2>2. Results' = Results
    BY <2>1 DEF Results
  <2>3. up'[Len(up) + 1].kind # "plan"
    BY <2>1 DEF Frame
  <2>. SUFFICES ASSUME NEW i \in 1..Len(up'), NEW j \in 1..Len(up'), i < j,
                       up'[i].kind = "plan", up'[j].kind = "plan"
                PROVE  Before(up'[i].req, up'[j].req)
    BY <2>2 DEF UpInOrder, Before
  <2>4. i \in 1..Len(up) /\ j \in 1..Len(up)
    BY <2>1, <2>3
  <2>. QED  BY <2>1, <2>4 DEF InOrder, UpInOrder
<1>. QED  BY <1>1, <1>2

LEMMA OrderAccept ==
  ASSUME TypeOK, InOrder, FwAccept
  PROVE  InOrder'
<1>. DEFINE h == Head(down)
<1>. USE DEF callVars, ackVars
<1>1. h \in Requests /\ h \in Commands /\ serial' = serial
  BY OrderDownTail DEF FwAccept
<1>2. Commands' \subseteq Commands /\ \A y \in Commands' : Before(h, y)
  BY <1>1, OrderDownTail DEF FwAccept
<1>3. DownInOrder'
  BY <1>1, OrderDownTail DEF FwAccept
<1>4. OwedInOrder' /\ \A x \in Elems(owed') : x \in Elems(owed) \/ x = h
  <2>1. \A x \in Elems(owed) : Before(x, h)
    BY <1>1 DEF InOrder
  <2>2. CASE Len(owed) < 2
    <3>1. /\ Len(owed') = Len(owed) + 1 /\ Len(owed) \in Nat
          /\ \A i \in 1..Len(owed) : owed'[i] = owed[i] /\ owed[i] \in Elems(owed)
          /\ owed'[Len(owed) + 1] = h
          /\ Elems(owed') = Elems(owed) \cup {h}
      BY <1>1, <2>2, OwedAppend DEF FwAccept, Elems
    <3>. SUFFICES ASSUME NEW i \in 1..Len(owed'), NEW j \in 1..Len(owed'), i < j
                  PROVE  Before(owed'[i], owed'[j])
      BY <1>1, <3>1 DEF OwedInOrder, Before
    <3>2. i \in 1..Len(owed) /\ (j \in 1..Len(owed) \/ j = Len(owed) + 1)
      BY <3>1
    <3>. QED  BY <2>1, <3>1, <3>2 DEF InOrder, OwedInOrder
  <2>3. CASE ~(Len(owed) < 2)
    <3>0. Len(owed) >= 2
      BY <2>3, LineTyped, LenProperties
    <3>1. /\ Len(owed') = 2 /\ owed'[1] = owed[1] /\ owed'[2] = h /\ owed[1] \in Elems(owed)
          /\ Elems(owed') = {owed[1], h}
      BY <1>1, <2>3, <3>0, OwedReplaced DEF FwAccept
    <3>2. Before(owed'[1], owed'[2])
      BY <2>1, <3>1
    <3>3. \A i, j \in 1..Len(owed') : i < j => i = 1 /\ j = 2
      BY <3>1
    <3>. QED  BY <1>1, <3>1, <3>2, <3>3 DEF OwedInOrder, Before
  <2>. QED  BY <2>2, <2>3
<1>5. UpInOrder' /\ Results' = Results
  BY <1>1, OrderAnswer DEF FwAccept
<1>6. \A x \in Results, y \in Elems(owed') \cup Commands' : Before(x, y)
  <2>1. \A x \in Results, y \in Elems(owed) \cup Commands : Before(x, y)
    BY DEF InOrder
  <2>2. Elems(owed') \cup Commands' \subseteq Elems(owed) \cup Commands
    BY <1>1, <1>2, <1>4
  <2>. QED  BY <2>1, <2>2
<1>7. \A x \in Elems(owed'), y \in Commands' : Before(x, y)
  BY <1>1, <1>2, <1>4 DEF InOrder
<1>. QED  BY <1>1, <1>3, <1>4, <1>5, <1>6, <1>7 DEF InOrder, Before

LEMMA OrderRefuse ==
  ASSUME TypeOK, InOrder, FwRefuse
  PROVE  InOrder'
<1>. USE DEF callVars, ackVars
<1>1. DownInOrder' /\ Commands' \subseteq Commands /\ serial' = serial /\ owed' = owed
  BY OrderDownTail DEF FwRefuse
<1>2. UpInOrder' /\ Results' = Results
  BY <1>1, OrderAnswer DEF FwRefuse
<1>3. OwedInOrder' /\ Elems(owed') = Elems(owed)
  BY <1>1 DEF InOrder, OwedInOrder, Before
<1>. QED  BY <1>1, <1>2, <1>3 DEF InOrder, Before

LEMMA OrderClear ==
  ASSUME TypeOK, InOrder, FwClear
  PROVE  InOrder'
<1>. USE DEF callVars
<1>1. DownInOrder' /\ Commands' \subseteq Commands /\ serial' = serial /\ up' = up
  BY OrderDownTail DEF FwClear
<1>2. UpInOrder' /\ Results' = Results
  BY <1>1 DEF InOrder, UpInOrder, Before, Results, UpReqs
<1>3. PICK n \in 0..Len(owed) : owed' = SubSeq(owed, 1, n)
  BY DEF FwClear
<1>4. /\ Len(owed') = n /\ Len(owed) \in Nat
      /\ \A i \in 1..n : owed'[i] = owed[i] /\ i \in 1..Len(owed)
      /\ Elems(owed') \subseteq Elems(owed)
  BY <1>3, OwedCut
<1>5. OwedInOrder'
  BY <1>1, <1>4 DEF InOrder, OwedInOrder, Before
<1>. QED  BY <1>1, <1>2, <1>4, <1>5 DEF InOrder, Before

LEMMA OrderReply ==
  ASSUME TypeOK, InOrder, FwReply
  PROVE  InOrder'
<1>. DEFINE h == Head(owed)
<1>. USE DEF callVars
<1>1. /\ h = owed[1] /\ Len(owed') = Len(owed) - 1 /\ Len(owed) \in Nat \ {0}
      /\ \A i \in 1..Len(owed') : owed'[i] = owed[i + 1] /\ i + 1 \in 1..Len(owed)
      /\ Elems(owed) = Elems(owed') \cup {h} /\ h \in Requests
      /\ serial' = serial /\ down' = down
  BY OwedTaken, LineTyped DEF FwReply
<1>2. OwedInOrder'
  BY <1>1 DEF InOrder, OwedInOrder, Before
<1>3. \A y \in Elems(owed') : Before(h, y)
  <2>. SUFFICES ASSUME NEW i \in 1..Len(owed')  PROVE Before(h, owed'[i])
    BY DEF Elems
  <2>. QED  BY <1>1 DEF InOrder, OwedInOrder
<1>4. DownInOrder' /\ Commands' = Commands
  BY <1>1 DEF InOrder, DownInOrder, Before, Commands
<1>5. \A y \in Elems(owed') \cup Commands : Before(h, y)
  BY <1>1, <1>3 DEF InOrder
<1>6. CASE linkDead
  <2>1. up' = up
    BY <1>6 DEF FwReply, Sent
  <2>2. UpInOrder' /\ Results' = Results
    BY <1>1, <2>1 DEF InOrder, UpInOrder, Before, Results, UpReqs
  <2>. QED  BY <1>1, <1>2, <1>4, <2>2 DEF InOrder, Before
<1>7. CASE ~linkDead
  <2>1. /\ Len(up') = Len(up) + 1 /\ Len(up) \in Nat
        /\ \A i \in 1..Len(up) : up'[i] = up[i]
        /\ up'[Len(up) + 1] = Frame("plan", h)
        /\ UpReqs({"plan"})' = UpReqs({"plan"}) \cup (IF "plan" \in {"plan"} THEN {h} ELSE {})
    BY <1>1, <1>7, SentFrame DEF FwReply
  <2>2. Results' = Results \cup {h}
    BY <2>1 DEF Results
  <2>3. \A i \in 1..Len(up) : up[i].kind = "plan" => Before(up[i].req, h)
    BY <1>1 DEF InOrder, Results, UpReqs
  <2>4. UpInOrder'
    <3>. SUFFICES ASSUME NEW i \in 1..Len(up'), NEW j \in 1..Len(up'), i < j,
                         up'[i].kind = "plan", up'[j].kind = "plan"
                  PROVE  Before(up'[i].req, up'[j].req)
      BY <1>1 DEF UpInOrder, Before
    <3>1. i \in 1..Len(up) /\ (j \in 1..Len(up) \/ j = Len(up) + 1)
      BY <2>1
    <3>2. CASE j \in 1..Len(up)
      BY <2>1, <3>1, <3>2 DEF InOrder, UpInOrder
    <3>3. CASE j = Len(up) + 1
      BY <2>1, <2>3, <3>1, <3>3 DEF Frame
    <3>. QED  BY <3>1, <3>2, <3>3
  <2>. QED  BY <1>1, <1>2, <1>4, <1>5, <2>2, <2>4 DEF InOrder, Before
<1>. QED  BY <1>6, <1>7

(* The result at the head of the uplink comes before all the others: its    *)
(* request is not due a second time, and when it is that of the caller that *)
(* waits, nothing else is due.                                              *)
LEMMA OrderTaken ==
  ASSUME TypeOK, InOrder, serial' = serial, UNCHANGED <<down, owed>>, up # <<>>, up' = Tail(up)
  PROVE  /\ InOrder'
         /\ Head(up).kind = "plan" =>
              \A y \in Requests : y \in PlanDue' => Before(Head(up).req, y)
<1>1. /\ Head(up) \in Frames /\ Head(up) = up[1]
      /\ Len(up') = Len(up) - 1 /\ Len(up) \in Nat \ {0}
      /\ \A i \in 1..Len(up') : up'[i] = up[i + 1] /\ i + 1 \in 1..Len(up)
      /\ \A K : UpReqs(K)' \subseteq UpReqs(K)
  BY TakenFrame
<1>2. Results' \subseteq Results /\ Commands' = Commands /\ Elems(owed)' = Elems(owed)
  BY <1>1 DEF Results, Commands
<1>3. UpInOrder'
  <2>. SUFFICES ASSUME NEW i \in 1..Len(up'), NEW j \in 1..Len(up'), i < j,
                       up'[i].kind = "plan", up'[j].kind = "plan"
                PROVE  Before(up'[i].req, up'[j].req)
    BY DEF UpInOrder, Before
  <2>. QED  BY <1>1 DEF InOrder, UpInOrder
<1>4. DownInOrder' /\ OwedInOrder'
  BY DEF InOrder, DownInOrder, OwedInOrder, Before
<1>5. InOrder'
  BY <1>2, <1>3, <1>4 DEF InOrder, Before
<1>6. ASSUME Head(up).kind = "plan", NEW y \in Requests, y \in PlanDue'
      PROVE  Before(Head(up).req, y)
  <2>1. Head(up).req \in Results
    BY <1>1, <1>6 DEF Results, UpReqs
  <2>2. y \in Commands \cup Elems(owed) \/ y \in Results'
    BY <1>6 DEF PlanDue, Commands, Results
  <2>3. CASE y \in Commands \cup Elems(owed)
    BY <2>1, <2>3 DEF InOrder
  <2>4. CASE y \in Results'
    <3>1. PICK i \in 1..Len(up') : up'[i].kind = "plan" /\ y = up'[i].req
      BY <2>4 DEF Results, UpReqs
    <3>. QED  BY <1>1, <1>6, <3>1 DEF InOrder, UpInOrder
  <2>. QED  BY <2>2, <2>3, <2>4
<1>. QED  BY <1>5, <1>6

LEMMA OrderStep ==
  ASSUME TypeOK, InOrder, Decided, TokenLife, [Next]_vars
  PROVE  InOrder'
<1>. USE DEF callVars
<1>n. NoRequest \notin Requests
  BY CartAssumption
<1>1. CASE LineQuiet
  <2>1. CASE serial' = serial \/ serial' = NoRequest
    BY <1>1, <1>n, <2>1, OrderStays DEF LineQuiet
  <2>2. ASSUME NEW r \in Requests, Register(r)  PROVE InOrder'
    <3>1. serial' = r /\ r \notin PlanDue
      BY <2>2 DEF Register, Fresh, InFlight
    <3>. QED  BY <1>1, <3>1, OrderStays DEF LineQuiet
  <2>. QED  BY <1>1, <2>1, <2>2 DEF LineQuiet
<1>2. CASE LineStep /\ serial' = serial
  <2>1. CASE FwAccept
    BY <2>1, OrderAccept
  <2>2. CASE FwRefuse
    BY <2>2, OrderRefuse
  <2>3. CASE FwClear
    BY <2>3, OrderClear
  <2>4. CASE FwReply
    BY <2>4, OrderReply
  <2>5. CASE LoseFrame \/ \E K \in SUBSET {"ack", "err", "plan"} : Arrived(K)
    BY <1>2, <2>5, OrderTaken DEF LoseFrame, Arrived
  <2>6. CASE ReaderDies
    <3>1. Len(up') = 0 /\ Results' = {} /\ Commands' = Commands /\ UNCHANGED <<down, owed, serial>>
      BY <2>6, NoFrames DEF ReaderDies, Results, Commands
    <3>2. UpInOrder'
      BY <3>1 DEF UpInOrder
    <3>3. DownInOrder' /\ OwedInOrder'
      BY <3>1 DEF InOrder, DownInOrder, OwedInOrder, Before
    <3>. QED  BY <3>1, <3>2, <3>3 DEF InOrder, Before
  <2>. QED  BY <1>2, <2>1, <2>2, <2>3, <2>4, <2>5, <2>6 DEF LineStep
<1>3. ASSUME NEW r \in Requests, Write(r)  PROVE InOrder'
  <2>1. r \notin PlanDue /\ r = serial
    BY <1>3 DEF Write, Decided, InFlight, TokenLife, Inside
  <2>. QED  BY <1>3, <2>1, OrderWrite DEF Write
<1>4. ASSUME NEW c \in Clearers, WriteClear(c)  PROVE InOrder'
  <2>1. down' = down \/ down' = Append(down, ClearCmd)
    BY <1>4 DEF WriteClear
  <2>2. UNCHANGED <<owed, up, serial>> /\ ClearCmd \notin Requests
    BY <1>4, CartAssumption DEF WriteClear
  <2>. QED  BY <2>1, <2>2, OrderWrite, OrderStays
<1>. QED  BY <1>1, <1>2, <1>3, <1>4, LineSteps

-----------------------------------------------------------------------------
(* The caller that waits registered last                                   *)

LEMMA HolderStep ==
  ASSUME TypeOK, TokenLife, HolderIsLast, [Next]_vars
  PROVE  HolderIsLast'
<1>. USE DEF callVars, tokenVars, pendVars, clearVars, handVars, ackVars, linkVars
<1>q. q \in Seq(Requests) /\ Elems(q) \subseteq Requests /\ Len(q) \in Nat /\ NoRequest \notin Requests
  BY ElemsIn, LenProperties, CartAssumption DEF TypeOK
<1>1. CASE q' = q /\ (serial' = serial \/ serial' = NoRequest)
  BY <1>q, <1>1 DEF HolderIsLast
<1>2. ASSUME NEW r \in Requests, Register(r)  PROVE HolderIsLast'
  BY <1>q, <1>2, AppendProperties DEF Register, HolderIsLast
<1>3. ASSUME NEW r \in Requests, q' = Without(q, r), serial' = NoRequest  PROVE HolderIsLast'
  <2>1. Elems(q') \subseteq Requests
    BY <1>q, <1>3, WithoutElems
  <2>. QED  BY <1>q, <1>3, <2>1 DEF HolderIsLast
<1>4. CASE q' = <<>>
  <2>1. Elems(q') = {}
    BY <1>4, EmptySeq DEF Elems
  <2>. QED  BY <2>1 DEF HolderIsLast
<1>5. CASE PairReply
  <2>1. q # <<>> /\ q' = Tail(q) /\ serial' = serial
    BY <1>5 DEF PairReply
  <2>2. /\ Len(q') = Len(q) - 1 /\ Len(q) \in Nat \ {0}
        /\ \A i \in 1..(Len(q) - 1) : q'[i] = q[i + 1]
        /\ Elems(q') \subseteq Elems(q)
    BY <1>q, <2>1, HeadTailProperties, EmptySeq, LenProperties, TailElems
  <2>3. ASSUME serial \in Elems(q')
        PROVE  q'[Len(q')] = serial
    <3>1. Len(q') >= 1 /\ Len(q') \in 1..(Len(q) - 1)
      BY <2>2, <2>3 DEF Elems
    <3>. QED  BY <2>2, <2>3, <3>1 DEF HolderIsLast
  <2>. QED  BY <2>1, <2>3 DEF HolderIsLast
<1>6. ASSUME NEW r \in Requests, Caller(r)  PROVE HolderIsLast'
  <2>1. \/ q' = q /\ (serial' = serial \/ serial' = NoRequest)
        \/ q' = Without(q, r) /\ serial' = NoRequest
    BY <1>6 DEF Caller, Write, WriteFails, WriteRefused, TakeAck, RememberErr, Rejected,
                AbandonAckWait, WaitLost, WaitReply, Unclaim, WaitExpired, WaitLinkDown, GiveUp,
                Return, Drop, DropAndAbsorb
  <2>. QED  BY <2>1, <1>1, <1>3
<1>7. ASSUME NEW c \in Clearers, Clearer(c)  PROVE HolderIsLast'
  <2>1. q' = <<>> \/ (q' = q /\ serial' = serial)
    BY <1>7 DEF Clearer, ClearPending, FailSwept, WriteClear
  <2>. QED  BY <2>1, <1>1, <1>4
<1>8. CASE PollCart \/ StrayError \/ ReadAnswer \/ AbsorbReply \/ ExtraReply \/ Resolve \/ ReaderDies
           \/ FwRead \/ FwReply \/ LoseFrame \/ Tick
  <2>1. q' = q /\ serial' = serial
    BY <1>8 DEF PollCart, StrayError, ReadAnswer, AbsorbReply, ExtraReply, Resolve, ReaderDies,
                FwRead, FwAccept, FwRefuse, FwClear, FwReply, LoseFrame, Tick
  <2>. QED  BY <2>1, <1>1
<1>9. CASE UNCHANGED vars
  BY <1>1, <1>9 DEF vars
<1>. QED  BY <1>2, <1>5, <1>6, <1>7, <1>8, <1>9 DEF Next, Reader

-----------------------------------------------------------------------------
(* What the firmware has decided                                           *)

LEMMA DecidedStays ==
  ASSUME TypeOK, Decided, fate' = fate,
         \A K : UpReqs(K)' \subseteq UpReqs(K), Commands' \subseteq Commands,
         Elems(owed') \cup Results' \subseteq Elems(owed) \cup Results,
         \A r \in Requests : phase'[r] = "registered" => phase[r] = "registered",
         \A x \in Requests : InFlight(x)' => InFlight(x),
         \A r \in Requests : phase'[r] = "rejected" => phase[r] = "rejected" \/ fate[r] = "refused"
  PROVE  Decided'
BY DEF Decided

LEMMA DecidedAccept ==
  ASSUME TypeOK, InOrder, Decided, FwAccept
  PROVE  Decided'
<1>. DEFINE h == Head(down)
<1>. USE DEF callVars, ackVars
<1>1. h \in Requests /\ h \in Commands /\ serial' = serial /\ phase' = phase
  BY OrderDownTail DEF FwAccept
<1>2. Commands' \subseteq Commands /\ h \notin Commands'
  BY <1>1, OrderDownTail DEF FwAccept, Before
<1>3. /\ fate[h] = "sent" /\ fate'[h] = "accepted"
      /\ \A x \in Requests : x # h => fate'[x] = fate[x]
  BY <1>1 DEF Decided, FwAccept, TypeOK
<1>4. \A x \in Elems(owed') : x \in Elems(owed) \/ x = h
  <2>1. CASE Len(owed) < 2
    BY <1>1, <2>1, OwedAppend DEF FwAccept
  <2>2. CASE ~(Len(owed) < 2)
    <3>1. Len(owed) >= 2
      BY <2>2, LineTyped, LenProperties
    <3>. QED  BY <1>1, <2>2, <3>1, OwedReplaced DEF FwAccept
  <2>. QED  BY <2>1, <2>2
<1>5. /\ Results' = Results
      /\ UpReqs({"ack"})' \subseteq UpReqs({"ack"}) \cup {h}
      /\ UpReqs({"err"})' \subseteq UpReqs({"err"})
  <2>1. Results' = Results
    BY <1>1, OrderAnswer DEF FwAccept
  <2>2. "ack" \in {"ack"} /\ "ack" \notin {"err"}
    OBVIOUS
  <2>3. UpReqs({"ack"})' \subseteq UpReqs({"ack"}) \cup {h}
    BY <1>1, <2>2, SentFrame DEF FwAccept
  <2>4. UpReqs({"err"})' \subseteq UpReqs({"err"})
    BY <1>1, <2>2, SentFrame DEF FwAccept
  <2>. QED  BY <2>1, <2>3, <2>4
<1>6. Elems(owed) \subseteq Requests /\ \A K : UpReqs(K) \subseteq Requests
  BY LineTyped
<1>7. \A x \in Requests : InFlight(x)' => InFlight(x)
  BY LineShrinks DEF LineStep, InFlight
<1>8. \A x \in Commands' : fate'[x] = "sent"
  BY <1>2, <1>3 DEF Decided, Commands
<1>9. \A x \in Elems(owed') \cup Results' : fate'[x] = "accepted"
  BY <1>3, <1>4, <1>5, <1>6 DEF Decided, Results
<1>10. \A x \in UpReqs({"ack"})' : fate'[x] = "accepted"
  BY <1>3, <1>5, <1>6 DEF Decided
<1>11. \A x \in UpReqs({"err"})' : fate'[x] = "refused"
  BY <1>3, <1>5, <1>6 DEF Decided
<1>12. \A r \in Requests : phase'[r] = "registered" => fate'[r] = "none" /\ ~InFlight(r)'
  BY <1>1, <1>3, <1>7 DEF Decided
<1>13. \A r \in Requests : phase'[r] = "rejected" => fate'[r] = "refused"
  BY <1>1, <1>3 DEF Decided
<1>. QED  BY <1>8, <1>9, <1>10, <1>11, <1>12, <1>13 DEF Decided

LEMMA LineSame ==
  ASSUME UNCHANGED <<down, owed, up>>
  PROVE  /\ \A K : UpReqs(K)' = UpReqs(K)
         /\ Commands' = Commands /\ Elems(owed)' = Elems(owed) /\ Results' = Results
         /\ Elems(down)' = Elems(down)
         /\ PlanDue' = PlanDue /\ AnswerDue' = AnswerDue
         /\ \A x : InFlight(x)' = InFlight(x)
<1>1. \A K : UpReqs(K)' = UpReqs(K)
  BY DEF UpReqs
<1>2. Commands' = Commands /\ Elems(owed)' = Elems(owed) /\ Elems(down)' = Elems(down)
  BY DEF Commands
<1>3. PlanDue' = PlanDue /\ AnswerDue' = AnswerDue /\ Results' = Results
  BY DEF PlanDue, AnswerDue, Results, UpReqs
<1>. QED  BY <1>1, <1>2, <1>3 DEF InFlight

LEMMA DecidedRefuse ==
  ASSUME TypeOK, InOrder, Decided, FwRefuse
  PROVE  Decided'
<1>. DEFINE h == Head(down)
<1>. USE DEF callVars, ackVars
<1>1. h \in Requests /\ h \in Commands /\ serial' = serial /\ phase' = phase /\ owed' = owed
  BY OrderDownTail DEF FwRefuse
<1>2. Commands' \subseteq Commands /\ h \notin Commands'
  BY <1>1, OrderDownTail DEF FwRefuse, Before
<1>3. /\ fate[h] = "sent" /\ fate'[h] = "refused"
      /\ \A x \in Requests : x # h => fate'[x] = fate[x]
  BY <1>1 DEF Decided, FwRefuse, TypeOK
<1>4. "err" \in {"err"} /\ "err" \notin {"ack"}
  OBVIOUS
<1>5. /\ Results' = Results
      /\ UpReqs({"ack"})' \subseteq UpReqs({"ack"})
      /\ UpReqs({"err"})' \subseteq UpReqs({"err"}) \cup {h}
  <2>1. Results' = Results
    BY <1>1, OrderAnswer DEF FwRefuse
  <2>3. UpReqs({"ack"})' \subseteq UpReqs({"ack"})
    BY <1>1, <1>4, SentFrame DEF FwRefuse
  <2>4. UpReqs({"err"})' \subseteq UpReqs({"err"}) \cup {h}
    BY <1>1, <1>4, SentFrame DEF FwRefuse
  <2>. QED  BY <2>1, <2>3, <2>4
<1>6. Elems(owed) \subseteq Requests /\ \A K : UpReqs(K) \subseteq Requests
  BY LineTyped
<1>7. \A x \in Requests : InFlight(x)' => InFlight(x)
  BY LineShrinks DEF LineStep, InFlight
<1>8. \A x \in Commands' : fate'[x] = "sent"
  BY <1>2, <1>3 DEF Decided, Commands
<1>9. \A x \in Elems(owed') \cup Results' : fate'[x] = "accepted"
  BY <1>1, <1>3, <1>5, <1>6 DEF Decided, Results
<1>10. \A x \in UpReqs({"ack"})' : fate'[x] = "accepted"
  BY <1>3, <1>5, <1>6 DEF Decided
<1>11. \A x \in UpReqs({"err"})' : fate'[x] = "refused"
  BY <1>3, <1>5, <1>6 DEF Decided
<1>12. \A r \in Requests : phase'[r] = "registered" => fate'[r] = "none" /\ ~InFlight(r)'
  BY <1>1, <1>3, <1>7 DEF Decided
<1>13. \A r \in Requests : phase'[r] = "rejected" => fate'[r] = "refused"
  BY <1>1, <1>3 DEF Decided
<1>. QED  BY <1>8, <1>9, <1>10, <1>11, <1>12, <1>13 DEF Decided

\* The firmware and the link without a decision.
LEMMA DecidedLink ==
  ASSUME TypeOK, Decided, UNCHANGED <<phase, fate>>,
         \/ FwClear \/ FwReply \/ LoseFrame \/ ReaderDies
         \/ \E K \in SUBSET {"ack", "err", "plan"} : Arrived(K)
  PROVE  Decided'
<1>1. \A x \in Requests : InFlight(x)' => InFlight(x)
  BY LineShrinks DEF LineStep, InFlight
<1>2. CASE FwClear
  <2>1. Commands' \subseteq Commands /\ up' = up /\ Elems(owed') \subseteq Elems(owed)
    BY <1>2, TakenCommand, OwedCut DEF FwClear
  <2>2. \A K : UpReqs(K)' = UpReqs(K)
    BY <2>1 DEF UpReqs
  <2>. QED  BY <1>1, <2>1, <2>2, DecidedStays DEF Results
<1>3. CASE FwReply
  <2>. DEFINE h == Head(owed)
  <2>1. h \in Elems(owed) /\ h \in Requests /\ Elems(owed') \subseteq Elems(owed) /\ down' = down
    BY <1>3, OwedTaken, LineTyped DEF FwReply
  <2>2. "plan" \notin {"ack"} /\ "plan" \notin {"err"} /\ "plan" \in {"plan"}
    OBVIOUS
  <2>3. /\ Results' \subseteq Results \cup {h}
        /\ UpReqs({"ack"})' \subseteq UpReqs({"ack"}) /\ UpReqs({"err"})' \subseteq UpReqs({"err"})
    BY <1>3, <2>1, <2>2, SentFrame DEF FwReply, Results
  <2>4. Commands' = Commands
    BY <2>1 DEF Commands
  <2>. QED  BY <1>1, <2>1, <2>3, <2>4 DEF Decided
<1>4. CASE LoseFrame \/ \E K \in SUBSET {"ack", "err", "plan"} : Arrived(K)
  <2>1. down' = down /\ owed' = owed /\ up # <<>> /\ up' = Tail(up)
    BY <1>4 DEF LoseFrame, Arrived
  <2>2. \A K : UpReqs(K)' \subseteq UpReqs(K)
    BY <2>1, TakenFrame
  <2>. QED  BY <1>1, <2>1, <2>2, DecidedStays DEF Results, Commands
<1>5. CASE ReaderDies
  BY <1>1, <1>5, NoFrames, DecidedStays DEF ReaderDies, Results, Commands
<1>. QED  BY <1>2, <1>3, <1>4, <1>5

LEMMA DecidedStep ==
  ASSUME TypeOK, TokenLife, InOrder, Decided, AnswerTaken, [Next]_vars
  PROVE  Decided'
<1>. USE DEF callVars, tokenVars, pendVars, clearVars, handVars, ackVars, linkVars
<1>1. ASSUME NEW r \in Requests, Register(r)  PROVE Decided'
  <2>1. /\ ~InFlight(r) /\ fate'[r] = "none" /\ phase' = [phase EXCEPT ![r] = "registered"]
        /\ \A x \in Requests : x # r => fate'[x] = fate[x] /\ phase'[x] = phase[x]
    BY <1>1 DEF Register, Fresh, TypeOK
  <2>2. UNCHANGED <<down, owed, up>>
    BY <1>1 DEF Register
  <2>3. \A x \in Commands \cup Elems(owed) \cup Results \cup UpReqs({"ack"}) \cup UpReqs({"err"}) :
          x \in Requests /\ x # r
    <3>1. UpReqs({"ack"}) \cup UpReqs({"err"}) \subseteq UpReqs({"ack", "err"})
      BY DEF UpReqs
    <3>. QED  BY <2>1, <3>1, LineTyped, DueParts DEF InFlight, Results
  <2>. QED  BY <2>1, <2>2, <2>3, LineSame DEF Decided, TypeOK
<1>2. ASSUME NEW r \in Requests, Write(r)  PROVE Decided'
  <2>1. /\ ~InFlight(r) /\ fate'[r] = "sent" /\ phase'[r] = "ackwait"
        /\ \A x \in Requests : x # r => fate'[x] = fate[x] /\ phase'[x] = phase[x]
        /\ down' = Append(down, r) /\ UNCHANGED <<owed, up>>
    BY <1>2 DEF Write, Decided, TypeOK
  <2>2. \A x \in Commands \cup Elems(owed) \cup Results \cup UpReqs({"ack"}) \cup UpReqs({"err"}) :
          x \in Requests /\ x # r
    <3>1. UpReqs({"ack"}) \cup UpReqs({"err"}) \subseteq UpReqs({"ack", "err"})
      BY DEF UpReqs
    <3>. QED  BY <2>1, <3>1, LineTyped, DueParts DEF InFlight, Results
  <2>3. /\ Commands' = Commands \cup {r} /\ Elems(down') = Elems(down) \cup {r}
        /\ Elems(owed)' = Elems(owed)
    BY <2>1, WrittenCommand
  <2>4. UpReqs({"ack"})' = UpReqs({"ack"}) /\ UpReqs({"err"})' = UpReqs({"err"})
        /\ UpReqs({"ack", "err"})' = UpReqs({"ack", "err"}) /\ Results' = Results
    BY <2>1 DEF UpReqs, Results
  <2>5. \A x \in Requests : x # r => InFlight(x)' = InFlight(x)
    BY <2>3, <2>4 DEF InFlight, AnswerDue, PlanDue, Results
  <2>. QED  BY <2>1, <2>2, <2>3, <2>4, <2>5 DEF Decided
<1>3. ASSUME NEW r \in Requests, Rejected(r)  PROVE Decided'
  <2>1. fate[r] = "refused" /\ phase' = [phase EXCEPT ![r] = "rejected"] /\ fate' = fate
    BY <1>3 DEF Rejected, AnswerTaken, Return
  <2>2. UNCHANGED <<down, owed, up>>
    BY <1>3 DEF Rejected
  <2>3. \A x \in Requests : /\ phase'[x] = "registered" => phase[x] = "registered"
                            /\ phase'[x] = "rejected" => phase[x] = "rejected" \/ fate[x] = "refused"
    BY <2>1 DEF TypeOK
  <2>. QED  BY <2>1, <2>2, <2>3, LineSame, DecidedStays
<1>4. ASSUME NEW r \in Requests, Caller(r), ~Write(r), ~Rejected(r)  PROVE Decided'
  <2>1. UNCHANGED <<down, owed, up, fate>>
    BY <1>4 DEF Caller, WriteFails, WriteRefused, TakeAck, RememberErr,
                AbandonAckWait, WaitLost, WaitReply, Unclaim, WaitExpired, WaitLinkDown, GiveUp
  <2>2. \/ phase' = phase
        \/ \E p \in Phases \ {"registered", "rejected"} : phase' = [phase EXCEPT ![r] = p]
    BY <1>4 DEF Caller, WriteFails, WriteRefused, TakeAck, RememberErr, Return, Phases, Inside, Ended,
                AbandonAckWait, WaitLost, WaitReply, Unclaim, WaitExpired, WaitLinkDown, GiveUp
  <2>3. \A x \in Requests : /\ phase'[x] = "registered" => phase[x] = "registered"
                            /\ phase'[x] = "rejected" => phase[x] = "rejected"
    BY <2>2 DEF TypeOK
  <2>4. /\ Commands' = Commands /\ Elems(owed)' = Elems(owed) /\ Results' = Results
        /\ \A K : UpReqs(K)' = UpReqs(K)
        /\ \A x : InFlight(x)' = InFlight(x)
    BY <2>1, LineSame
  <2>. QED  BY <2>1, <2>3, <2>4, DecidedStays
<1>5. ASSUME NEW c \in Clearers, Clearer(c)  PROVE Decided'
  <2>1. UNCHANGED <<owed, up, fate, phase>> /\ (down' = down \/ down' = Append(down, ClearCmd))
    BY <1>5 DEF Clearer, ClearPending, FailSwept, WriteClear
  <2>2. CASE down' = down
    BY <2>1, <2>2, LineSame, DecidedStays
  <2>3. CASE down' = Append(down, ClearCmd)
    <3>1. /\ Commands' = Commands /\ Elems(down') = Elems(down) \cup {ClearCmd}
          /\ ClearCmd \notin Requests
      BY <2>3, WrittenCommand, CartAssumption
    <3>2. \A K : UpReqs(K)' = UpReqs(K)
      BY <2>1 DEF UpReqs
    <3>3. \A x \in Requests : InFlight(x)' => InFlight(x)
      BY <2>1, <3>1, <3>2 DEF InFlight, AnswerDue, PlanDue
    <3>. QED  BY <2>1, <3>1, <3>2, <3>3, DecidedStays DEF Results
  <2>. QED  BY <2>1, <2>2, <2>3
<1>6. CASE PollCart \/ StrayError \/ Resolve \/ Tick \/ UNCHANGED vars
  <2>1. UNCHANGED <<down, owed, up, fate, phase>>
    BY <1>6 DEF PollCart, StrayError, Resolve, Tick, vars
  <2>. QED  BY <2>1, LineSame, DecidedStays
<1>7. CASE ReadAnswer \/ AbsorbReply \/ ExtraReply \/ PairReply
  <2>1. Arrived({"ack", "err"}) \/ Arrived({"plan"})
    BY <1>7 DEF ReadAnswer, AbsorbReply, ExtraReply, PairReply
  <2>2. {"ack", "err"} \in SUBSET {"ack", "err", "plan"} /\ {"plan"} \in SUBSET {"ack", "err", "plan"}
    OBVIOUS
  <2>3. UNCHANGED <<phase, fate>>
    BY <1>7 DEF ReadAnswer, AbsorbReply, ExtraReply, PairReply, Arrived
  <2>. QED  BY <2>1, <2>2, <2>3, DecidedLink
<1>8. CASE FwAccept
  BY <1>8, DecidedAccept
<1>9. CASE FwRefuse
  BY <1>9, DecidedRefuse
<1>10. CASE FwClear \/ FwReply \/ LoseFrame \/ ReaderDies
  <2>1. UNCHANGED <<phase, fate>>
    BY <1>10 DEF FwClear, FwReply, LoseFrame, ReaderDies
  <2>. QED  BY <1>10, <2>1, DecidedLink
<1>. QED  BY <1>1, <1>2, <1>3, <1>4, <1>5, <1>6, <1>7, <1>8, <1>9, <1>10 DEF Next, Reader, FwRead
-----------------------------------------------------------------------------
(* The answer to the frame of the caller that waits                        *)

LEMMA OnlyTheHolder ==
  ASSUME TypeOK, TokenLife, AnswerOnItsWay, ~linkDead, NEW x \in Requests, x \in AnswerDue
  PROVE  x = serial /\ phase[x] = "ackwait" /\ ackq = <<>> /\ ~errSeen
BY DEF AnswerOnItsWay, TokenLife, Inside

\* An answer frame on the uplink is the only answer that is due.
LEMMA AnswerFrames ==
  ASSUME TypeOK
  PROVE  /\ \A i \in 1..Len(up) : up[i].kind # "plan" => /\ up[i].req \in UpReqs({"ack", "err"})
                                                         /\ up[i].req \in Requests
                                                         /\ up[i].req \in AnswerDue
<1>1. \A i \in 1..Len(up) : up[i] \in Frames
  BY LineTyped, LenProperties
<1>. QED  BY <1>1 DEF Frames, UpReqs, AnswerDue

LEMMA AnswerStays ==
  ASSUME TypeOK, AnswerOnItsWay, UNCHANGED <<down, owed, up>>,
         ~linkDead' => ~linkDead,
         ~linkDead => \/ \A x \in Requests : x \notin AnswerDue
                      \/ UNCHANGED <<ackq, errSeen>>
                         /\ \A x \in Requests : x \in AnswerDue /\ phase[x] = "ackwait" => phase'[x] = "ackwait"
  PROVE  AnswerOnItsWay'
<1>. SUFFICES ASSUME ~linkDead, ~linkDead'
              PROVE  /\ \A r \in Requests \cap AnswerDue' :
                          phase'[r] = "ackwait" /\ ackq' = <<>> /\ ~errSeen'
                     /\ \A i, j \in 1..Len(up') : up'[i].kind # "plan" /\ up'[j].kind # "plan" => i = j
                     /\ UpReqs({"ack", "err"})' \cap Elems(down') = {}
  BY DEF AnswerOnItsWay
<1>1. AnswerDue' = AnswerDue /\ UpReqs({"ack", "err"})' = UpReqs({"ack", "err"})
  BY LineSame
<1>. QED  BY <1>1 DEF AnswerOnItsWay

LEMMA AnswerSent ==
  ASSUME TypeOK, TokenLife, InOrder, AnswerOnItsWay,
         down # <<>>, Head(down) \in Requests, down' = Tail(down),
         NEW k \in {"ack", "err"}, up' = Sent(k, Head(down)),
         \A x \in Requests : x \in AnswerDue' => x \in AnswerDue,
         UNCHANGED <<phase, ackq, errSeen, linkDead, serial>>
  PROVE  AnswerOnItsWay'
<1>. DEFINE h == Head(down)
<1>. SUFFICES ASSUME ~linkDead, ~linkDead'
              PROVE  AnswerOnItsWay'
  BY DEF AnswerOnItsWay
<1>1. h \in Commands /\ h \in Elems(down) /\ h \notin Elems(down') /\ Elems(down') \subseteq Elems(down)
  <2>1. h \in Commands /\ h \notin Commands' /\ Elems(down') \subseteq Elems(down)
    BY OrderDownTail, TakenCommand DEF Before
  <2>. QED  BY <2>1 DEF Commands
<1>2. h = serial
  BY <1>1, OnlyTheHolder DEF AnswerDue
<1>3. \A i \in 1..Len(up) : up[i].kind = "plan"
  <2>. SUFFICES ASSUME NEW i \in 1..Len(up), up[i].kind # "plan"
                PROVE  FALSE
    OBVIOUS
  <2>1. up[i].req = serial /\ up[i].req \in UpReqs({"ack", "err"})
    BY AnswerFrames, OnlyTheHolder
  <2>. QED  BY <1>1, <1>2, <2>1 DEF AnswerOnItsWay
<1>4. /\ Len(up') = Len(up) + 1 /\ Len(up) \in Nat
      /\ \A i \in 1..Len(up) : up'[i] = up[i]
  BY SentFrame
<1>5. \A i, j \in 1..Len(up') : up'[i].kind # "plan" /\ up'[j].kind # "plan" => i = j
  BY <1>3, <1>4
<1>6. UpReqs({"ack", "err"})' \cap Elems(down') = {}
  <2>1. UpReqs({"ack", "err"})' \subseteq UpReqs({"ack", "err"}) \cup {h}
    BY SentFrame
  <2>. QED  BY <1>1, <2>1 DEF AnswerOnItsWay
<1>7. \A r \in Requests \cap AnswerDue' : phase'[r] = "ackwait" /\ ackq' = <<>> /\ ~errSeen'
  BY DEF AnswerOnItsWay
<1>. QED  BY <1>5, <1>6, <1>7 DEF AnswerOnItsWay

\* A frame leaves the uplink; what has been read of answers may change with the only answer.
LEMMA AnswerTail ==
  ASSUME TypeOK, TokenLife, AnswerOnItsWay, up # <<>>, up' = Tail(up), UNCHANGED <<down, owed>>,
         UNCHANGED <<phase, errSeen, linkDead, serial>>,
         Head(up).kind = "plan" => ackq' = ackq
  PROVE  /\ AnswerOnItsWay'
         /\ Head(up).kind # "plan" /\ ~linkDead => \A x \in Requests : x \notin AnswerDue'
<1>. SUFFICES ASSUME ~linkDead, ~linkDead'
              PROVE  /\ AnswerOnItsWay'
                     /\ Head(up).kind # "plan" => \A x \in Requests : x \notin AnswerDue'
  BY DEF AnswerOnItsWay
<1>1. /\ Head(up) \in Frames /\ Head(up) = up[1]
      /\ Len(up') = Len(up) - 1 /\ Len(up) \in Nat \ {0}
      /\ \A i \in 1..Len(up') : up'[i] = up[i + 1] /\ i + 1 \in 1..Len(up)
      /\ UpReqs({"ack", "err"})' \subseteq UpReqs({"ack", "err"})
  BY TakenFrame
<1>2. \A i, j \in 1..Len(up') : up'[i].kind # "plan" /\ up'[j].kind # "plan" => i = j
  <2>. SUFFICES ASSUME NEW i \in 1..Len(up'), NEW j \in 1..Len(up'),
                       up'[i].kind # "plan", up'[j].kind # "plan"
                PROVE  i = j
    OBVIOUS
  <2>1. i + 1 = j + 1
    BY <1>1 DEF AnswerOnItsWay
  <2>. QED  BY <1>1, <2>1
<1>3. UpReqs({"ack", "err"})' \cap Elems(down') = {}
  BY <1>1 DEF AnswerOnItsWay
<1>4. \A x \in Requests : x \in AnswerDue' => x \in AnswerDue
  BY <1>1 DEF AnswerDue
<1>5. ASSUME Head(up).kind # "plan"
      PROVE  \A x \in Requests : x \notin AnswerDue'
  <2>. SUFFICES ASSUME NEW x \in Requests, x \in AnswerDue'
                PROVE  FALSE
    OBVIOUS
  <2>1. x = serial
    BY <1>4, OnlyTheHolder
  <2>2. Head(up).req = serial /\ Head(up).req \in UpReqs({"ack", "err"})
    BY <1>1, <1>5, AnswerFrames, OnlyTheHolder
  <2>3. x \notin Elems(down)
    BY <2>1, <2>2 DEF AnswerOnItsWay
  <2>4. x \in UpReqs({"ack", "err"})'
    BY <2>3 DEF AnswerDue
  <2>5. PICK i \in 1..Len(up') : up'[i].kind # "plan"
    BY <2>4 DEF UpReqs
  <2>6. i + 1 = 1
    BY <1>1, <1>5, <2>5 DEF AnswerOnItsWay
  <2>. QED  BY <1>1, <2>6
<1>6. \A r \in Requests \cap AnswerDue' : phase'[r] = "ackwait" /\ ackq' = <<>> /\ ~errSeen'
  BY <1>4, <1>5 DEF AnswerOnItsWay
<1>. QED  BY <1>2, <1>3, <1>5, <1>6 DEF AnswerOnItsWay

LEMMA AnswerStep ==
  ASSUME Nominal, TypeOK, TokenLife, NoDesync, InOrder, Decided, AnswerOnItsWay, Clocked, [Next]_vars
  PROVE  AnswerOnItsWay'
<1>. USE DEF callVars, tokenVars, pendVars, clearVars, handVars, ackVars, linkVars
<1>0. ASSUME NEW r \in Requests, r = serial, phase[r] # "ackwait", ~linkDead
      PROVE  \A x \in Requests : x \notin AnswerDue
  BY <1>0, OnlyTheHolder
<1>1. ASSUME NEW r \in Requests, Register(r)  PROVE AnswerOnItsWay'
  <2>1. /\ UNCHANGED <<down, owed, up, ackq, errSeen, linkDead>>
        /\ r \notin AnswerDue /\ \A x \in Requests : x # r => phase'[x] = phase[x]
    BY <1>1 DEF Register, Fresh, InFlight, TypeOK
  <2>. QED  BY <2>1, AnswerStays
<1>2. ASSUME NEW r \in Requests, Write(r)  PROVE AnswerOnItsWay'
  <2>. SUFFICES ASSUME ~linkDead, ~linkDead'
                PROVE  AnswerOnItsWay'
    BY <1>2 DEF AnswerOnItsWay, Write
  <2>1. /\ phase'[r] = "ackwait" /\ ackq' = <<>> /\ errSeen' = FALSE
        /\ down' = Append(down, r) /\ UNCHANGED <<owed, up>> /\ r = serial
    BY <1>2 DEF Write, TokenLife, Inside, TypeOK
  <2>2. \A x \in Requests : x \notin AnswerDue
    BY <1>0, <1>2, <2>1 DEF Write
  <2>3. /\ Elems(down') = Elems(down) \cup {r}
        /\ UpReqs({"ack", "err"})' = UpReqs({"ack", "err"})
    BY <2>1, WrittenCommand DEF UpReqs
  <2>4. \A x \in Requests : x \in AnswerDue' => x = r
    BY <2>2, <2>3 DEF AnswerDue
  <2>5. UpReqs({"ack", "err"})' = {}
    BY <2>2, <2>3, LineTyped DEF AnswerDue
  <2>6. \A i, j \in 1..Len(up) : up[i].kind # "plan" /\ up[j].kind # "plan" => i = j
    BY DEF AnswerOnItsWay
  <2>. QED  BY <2>1, <2>4, <2>5, <2>6 DEF AnswerOnItsWay
<1>3. ASSUME NEW r \in Requests, Caller(r), ~Write(r)  PROVE AnswerOnItsWay'
  <2>1. UNCHANGED <<down, owed, up, linkDead>>
    BY <1>3 DEF Caller, WriteFails, WriteRefused, TakeAck, RememberErr, Rejected,
                AbandonAckWait, WaitLost, WaitReply, Unclaim, WaitExpired, WaitLinkDown, GiveUp
  <2>2. phase[r] \in Inside /\ r = serial
    BY <1>3 DEF Caller, WriteFails, WriteRefused, TakeAck, RememberErr, Rejected, Inside, TokenLife,
                AbandonAckWait, WaitLost, WaitReply, Unclaim, WaitExpired, WaitLinkDown, GiveUp
  <2>3. ASSUME phase[r] = "ackwait", ~linkDead
        PROVE  \A x \in Requests : x \notin AnswerDue
    <3>1. CASE TakeAck(r) \/ RememberErr(r) \/ Rejected(r)
      BY <3>1, <2>3, OnlyTheHolder DEF TakeAck, RememberErr, Rejected
    <3>2. CASE AbandonAckWait(r)
      <4>1. left = 0
        BY <2>3, <3>2 DEF AbandonAckWait, NoDesync
      <4>2. \A x \in Requests : x \in AnswerDue => age[x] <= AckDelay /\ age[x] + left >= AckTimeout
                                                   /\ age[x] \in Nat
        BY <2>3 DEF Clocked, TypeOK
      <4>. QED  BY <4>1, <4>2, CartAssumption DEF Nominal
    <3>. QED  BY <1>3, <2>3, <3>1, <3>2
              DEF Caller, WriteFails, WriteRefused, WaitLost, WaitReply, Unclaim,
                  WaitExpired, WaitLinkDown, GiveUp
  <2>4. ~linkDead => \A x \in Requests : x \notin AnswerDue
    BY <1>0, <2>2, <2>3
  <2>. QED  BY <2>1, <2>4, AnswerStays
<1>4. ASSUME NEW c \in Clearers, Clearer(c)  PROVE AnswerOnItsWay'
  <2>1. UNCHANGED <<owed, up, linkDead, phase, ackq, errSeen>>
        /\ (down' = down \/ down' = Append(down, ClearCmd))
    BY <1>4 DEF Clearer, ClearPending, FailSwept, WriteClear
  <2>2. CASE down' = down
    BY <2>1, <2>2, AnswerStays
  <2>3. CASE down' = Append(down, ClearCmd)
    <3>1. /\ Elems(down') = Elems(down) \cup {ClearCmd} /\ ClearCmd \notin Requests
      BY <2>3, WrittenCommand, CartAssumption
    <3>2. UpReqs({"ack", "err"})' = UpReqs({"ack", "err"}) /\ UpReqs({"ack", "err"}) \subseteq Requests
      BY <2>1, LineTyped DEF UpReqs
    <3>. QED  BY <2>1, <3>1, <3>2 DEF AnswerOnItsWay, AnswerDue
  <2>. QED  BY <2>1, <2>2, <2>3
<1>5. CASE PollCart \/ StrayError \/ Resolve \/ Tick \/ UNCHANGED vars
  <2>1. UNCHANGED <<down, owed, up, linkDead, phase, ackq, errSeen>>
    BY <1>5 DEF PollCart, StrayError, Resolve, Tick, vars
  <2>. QED  BY <2>1, AnswerStays
<1>6. CASE ReadAnswer \/ AbsorbReply \/ ExtraReply \/ PairReply \/ LoseFrame
  <2>1. /\ up # <<>> /\ up' = Tail(up)
        /\ UNCHANGED <<down, owed, phase, errSeen, linkDead, serial>>
        /\ Head(up).kind = "plan" => ackq' = ackq
    BY <1>6 DEF ReadAnswer, AbsorbReply, ExtraReply, PairReply, LoseFrame, Arrived
  <2>. QED  BY <2>1, AnswerTail
<1>7. CASE FwAccept \/ FwRefuse
  <2>1. \A x \in Requests : x \in AnswerDue' => x \in AnswerDue
    BY <1>7, LineShrinks DEF LineStep
  <2>2. /\ down # <<>> /\ Head(down) \in Requests /\ down' = Tail(down)
        /\ UNCHANGED <<phase, ackq, errSeen, linkDead, serial>>
        /\ \E k \in {"ack", "err"} : up' = Sent(k, Head(down))
    BY <1>7 DEF FwAccept, FwRefuse
  <2>. QED  BY <2>1, <2>2, AnswerSent
<1>8. CASE FwClear
  <2>1. UNCHANGED <<up, linkDead, phase, ackq, errSeen>> /\ Elems(down') \subseteq Elems(down)
    BY <1>8, TakenCommand DEF FwClear
  <2>2. UpReqs({"ack", "err"})' = UpReqs({"ack", "err"})
    BY <2>1 DEF UpReqs
  <2>. QED  BY <2>1, <2>2 DEF AnswerOnItsWay, AnswerDue
<1>9. CASE FwReply
  <2>. SUFFICES ASSUME ~linkDead, ~linkDead'
                PROVE  AnswerOnItsWay'
    BY <1>9 DEF AnswerOnItsWay, FwReply
  <2>1. UNCHANGED <<down, linkDead, phase, ackq, errSeen>> /\ Head(owed) \in Requests
    BY <1>9, OwedTaken, LineTyped DEF FwReply
  <2>2. "plan" \notin {"ack", "err"}
    OBVIOUS
  <2>3. /\ Len(up') = Len(up) + 1 /\ Len(up) \in Nat
        /\ \A i \in 1..Len(up) : up'[i] = up[i]
        /\ up'[Len(up) + 1] = Frame("plan", Head(owed))
        /\ UpReqs({"ack", "err"})' \subseteq UpReqs({"ack", "err"})
    BY <1>9, <2>1, <2>2, SentFrame DEF FwReply
  <2>4. \A i \in 1..Len(up') : up'[i].kind # "plan" => i \in 1..Len(up)
    BY <2>3 DEF Frame
  <2>5. \A i, j \in 1..Len(up') : up'[i].kind # "plan" /\ up'[j].kind # "plan" => i = j
    BY <2>3, <2>4 DEF AnswerOnItsWay
  <2>. QED  BY <2>1, <2>3, <2>5 DEF AnswerOnItsWay, AnswerDue
<1>10. CASE ReaderDies
  BY <1>10 DEF ReaderDies, AnswerOnItsWay
<1>. QED  BY <1>1, <1>2, <1>3, <1>4, <1>5, <1>6, <1>7, <1>8, <1>9, <1>10 DEF Next, Reader, FwRead

LEMMA TakenStays ==
  ASSUME TypeOK, AnswerTaken, UNCHANGED <<ackq, errSeen, fate>>,
         \A r \in Requests : phase'[r] = "ackwait" => phase[r] = "ackwait"
  PROVE  AnswerTaken'
BY DEF AnswerTaken

LEMMA TakenStep ==
  ASSUME TypeOK, TokenLife, Decided, AnswerOnItsWay, AnswerTaken, [Next]_vars
  PROVE  AnswerTaken'
<1>. USE DEF callVars, tokenVars, pendVars, clearVars, handVars, ackVars, linkVars
<1>0. ackq \in Seq({"ack", "err"}) /\ Len(ackq) \in Nat
  BY LenProperties DEF TypeOK
<1>1. ASSUME NEW r \in Requests, Register(r)  PROVE AnswerTaken'
  <2>1. /\ UNCHANGED <<ackq, errSeen>> /\ phase'[r] = "registered"
        /\ \A x \in Requests : x # r => phase'[x] = phase[x] /\ fate'[x] = fate[x]
    BY <1>1 DEF Register, TypeOK
  <2>. QED  BY <2>1 DEF AnswerTaken
<1>2. ASSUME NEW r \in Requests, Write(r)  PROVE AnswerTaken'
  <2>1. /\ ackq' = <<>> /\ errSeen' = FALSE
    BY <1>2 DEF Write
  <2>. QED  BY <2>1, EmptySeq DEF AnswerTaken
<1>3. ASSUME NEW r \in Requests, TakeAck(r) \/ RememberErr(r)  PROVE AnswerTaken'
  <2>1. /\ phase[r] = "ackwait" /\ ackq # <<>> /\ ackq' = Tail(ackq) /\ fate' = fate /\ r = serial
        /\ (TakeAck(r) => phase' = [phase EXCEPT ![r] = "planwait"])
        /\ (RememberErr(r) => phase' = phase /\ errSeen' = TRUE /\ Head(ackq) = "err")
    BY <1>3 DEF TakeAck, RememberErr, TokenLife, Inside
  <2>2. Len(ackq) <= 1
    BY <2>1 DEF AnswerTaken
  <2>3. Tail(ackq) = <<>> /\ Len(ackq') = 0
    <3>1. Tail(ackq) \in Seq({"ack", "err"}) /\ Len(Tail(ackq)) = Len(ackq) - 1 /\ Len(Tail(ackq)) \in Nat
      BY <1>0, <2>1, HeadTailProperties, LenProperties
    <3>2. Len(Tail(ackq)) = 0
      BY <1>0, <2>2, <3>1
    <3>. QED  BY <2>1, <3>1, <3>2, EmptySeq
  <2>4. \A x \in Requests : phase'[x] = "ackwait" => x = r /\ RememberErr(r)
    BY <1>3, <2>1 DEF TypeOK, TokenLife, Inside
  <2>5. RememberErr(r) => fate[r] = "refused"
    BY <2>1 DEF AnswerTaken
  <2>. QED  BY <2>1, <2>3, <2>4, <2>5 DEF AnswerTaken
<1>4. ASSUME NEW r \in Requests, Caller(r), ~Write(r), ~TakeAck(r), ~RememberErr(r)  PROVE AnswerTaken'
  <2>1. /\ r = serial /\ fate' = fate
        /\ \/ UNCHANGED <<ackq, errSeen>> /\ phase' = [phase EXCEPT ![r] = phase'[r]]
              /\ phase'[r] # "ackwait"
           \/ serial' = NoRequest /\ \E o \in Ended : phase' = [phase EXCEPT ![r] = o]
    BY <1>4 DEF Caller, WriteFails, WriteRefused, Rejected, Inside, TokenLife, TypeOK, Ended,
                AbandonAckWait, WaitLost, WaitReply, Unclaim, WaitExpired, WaitLinkDown, GiveUp, Return
  <2>2. \A x \in Requests : phase'[x] # "ackwait"
    BY <2>1 DEF TokenLife, TypeOK, Inside, Ended
  <2>. QED  BY <2>2 DEF AnswerTaken
<1>5. ASSUME NEW c \in Clearers, Clearer(c)  PROVE AnswerTaken'
  <2>1. UNCHANGED <<fate, phase, ackq, errSeen>>
    BY <1>5 DEF Clearer, ClearPending, FailSwept, WriteClear
  <2>. QED  BY <2>1, TakenStays
<1>6. CASE PollCart \/ StrayError \/ Resolve \/ Tick \/ UNCHANGED vars \/ AbsorbReply \/ ExtraReply
           \/ PairReply \/ LoseFrame \/ ReaderDies \/ FwClear \/ FwReply
  <2>1. UNCHANGED <<fate, phase, ackq, errSeen>>
    BY <1>6 DEF PollCart, StrayError, Resolve, Tick, vars, AbsorbReply, ExtraReply, PairReply,
                Arrived, LoseFrame, ReaderDies, FwClear, FwReply
  <2>. QED  BY <2>1, TakenStays
<1>7. CASE ReadAnswer
  <2>1. /\ ~linkDead /\ up # <<>> /\ Head(up).kind \in {"ack", "err"} /\ ackq' = Append(ackq, Head(up).kind)
        /\ UNCHANGED <<phase, errSeen, fate>> /\ up' = Tail(up)
    BY <1>7 DEF ReadAnswer, Arrived
  <2>2. Head(up) = up[1] /\ 1 \in 1..Len(up) /\ Head(up) \in Frames
    BY <2>1, TakenFrame
  <2>3. Head(up).req = serial /\ Head(up).req \in Requests /\ ackq = <<>> /\ ~errSeen
    BY <2>1, <2>2, AnswerFrames, OnlyTheHolder
  <2>4. fate[serial] = IF Head(up).kind = "ack" THEN "accepted" ELSE "refused"
    BY <2>1, <2>2, <2>3 DEF Decided, UpReqs
  <2>5. Len(ackq') = 1 /\ Head(ackq') = Head(up).kind /\ ackq' # <<>>
    BY <1>0, <2>1, <2>3
  <2>6. \A r \in Requests : phase'[r] = "ackwait" => r = serial
    BY <2>1 DEF TokenLife, Inside
  <2>. QED  BY <2>1, <2>3, <2>4, <2>5, <2>6 DEF AnswerTaken
<1>8. CASE FwAccept \/ FwRefuse
  <2>. DEFINE h == Head(down)
  <2>1. /\ h \in Requests /\ h \in Commands /\ UNCHANGED <<phase, ackq, errSeen>>
        /\ \A x \in Requests : x # h => fate'[x] = fate[x]
    BY <1>8, TakenCommand DEF FwAccept, FwRefuse, TypeOK
  <2>2. fate[h] = "sent"
    BY <2>1 DEF Decided
  <2>. QED  BY <2>1, <2>2 DEF AnswerTaken
<1>. QED  BY <1>1, <1>2, <1>3, <1>4, <1>5, <1>6, <1>7, <1>8 DEF Next, Reader, FwRead
-----------------------------------------------------------------------------
(* The clocks                                                              *)

Timed == Inside \ {"replied"}

LEMMA ClockedStays ==
  ASSUME TypeOK, Clocked, age' = age, ~linkDead' => ~linkDead,
         \A x \in Requests : (x \in PlanDue' => x \in PlanDue) /\ (x \in AnswerDue' => x \in AnswerDue),
         \A r \in Requests : phase'[r] \in Timed => phase'[r] = phase[r] /\ left' = left
  PROVE  Clocked'
BY DEF Clocked, Timed, Inside

LEMMA ClockedCall ==
  ASSUME TypeOK, TokenLife, Clocked, NEW r \in Requests, Caller(r), ~Write(r)
  PROVE  Clocked'
<1>. USE DEF callVars, tokenVars, pendVars, clearVars, handVars, ackVars, linkVars
<1>1. UNCHANGED <<down, owed, up, age, linkDead>> /\ phase[r] \in Inside /\ r = serial
  BY DEF Caller, WriteFails, WriteRefused, TakeAck, RememberErr, Rejected, Inside, TokenLife,
         AbandonAckWait, WaitLost, WaitReply, Unclaim, WaitExpired, WaitLinkDown, GiveUp
<1>2. \A x \in Requests : (x \in PlanDue' => x \in PlanDue) /\ (x \in AnswerDue' => x \in AnswerDue)
  BY <1>1, LineSame
<1>3. \A x \in Requests : x # r => phase[x] \notin Inside
  BY <1>1 DEF TokenLife
<1>4. CASE TakeAck(r)
  <2>1. phase' = [phase EXCEPT ![r] = "planwait"] /\ left' = MoveTimeout /\ phase[r] = "ackwait"
    BY <1>4 DEF TakeAck
  <2>2. \A x \in Requests : phase'[x] \in Inside => x = r /\ phase'[x] = "planwait"
    BY <1>3, <2>1 DEF TypeOK
  <2>3. \A x \in Requests : age[x] + MoveTimeout >= MoveTimeout
    BY CartAssumption DEF TypeOK
  <2>. QED  BY <1>1, <1>2, <2>1, <2>2, <2>3 DEF Clocked, Inside
<1>5. CASE WaitExpired(r)
  <2>1. phase' = [phase EXCEPT ![r] = "expired"] /\ left' = left /\ left = 0 /\ phase[r] = "planwait"
    BY <1>5 DEF WaitExpired
  <2>2. \A x \in Requests : phase'[x] \in Inside => x = r /\ phase'[x] = "expired"
    BY <1>3, <2>1 DEF TypeOK
  <2>. QED  BY <1>1, <1>2, <2>1, <2>2 DEF Clocked, Inside
<1>6. CASE WaitLinkDown(r)
  BY <1>1, <1>6 DEF WaitLinkDown, Clocked
<1>7. CASE RememberErr(r)
  BY <1>1, <1>2, <1>7, ClockedStays DEF RememberErr
<1>8. CASE \/ WaitReply(r) \/ WriteFails(r) \/ WriteRefused(r) \/ Rejected(r) \/ AbandonAckWait(r)
           \/ WaitLost(r) \/ Unclaim(r) \/ GiveUp(r)
  <2>1. \E o \in Ended \cup {"replied"} : phase' = [phase EXCEPT ![r] = o]
    BY <1>8 DEF WaitReply, WriteFails, WriteRefused, Rejected, AbandonAckWait, WaitLost,
                Unclaim, GiveUp, Return, Ended
  <2>2. \A x \in Requests : phase'[x] \notin Timed
    BY <1>3, <2>1 DEF TypeOK, Timed, Inside, Ended
  <2>. QED  BY <1>1, <1>2, <2>2, ClockedStays
<1>. QED  BY <1>4, <1>5, <1>6, <1>7, <1>8 DEF Caller

LEMMA ClockedTick ==
  ASSUME TypeOK, Clocked, Tick
  PROVE  Clocked'
<1>. SUFFICES ASSUME ~linkDead'  PROVE Clocked'
  BY DEF Clocked
<1>1. /\ UNCHANGED <<down, owed, up, phase>> /\ ~linkDead
      /\ \A x \in Requests : phase[x] # "registered" /\ Timely(x)
      /\ left' = IF left > 0 THEN left - 1 ELSE 0
      /\ left \in Nat
  BY DEF Tick, ackVars, TypeOK
<1>2. \A x \in Requests : (x \in PlanDue' <=> x \in PlanDue) /\ (x \in AnswerDue' <=> x \in AnswerDue)
  BY <1>1, LineSame
<1>3. ASSUME NEW x \in Requests, x \in AnswerDue \cup PlanDue
      PROVE  /\ age'[x] = age[x] + 1 /\ age[x] \in Nat
             /\ x \in AnswerDue => age[x] < AckDelay
             /\ x \in PlanDue => age[x] < PlanDelay
  <2>1. /\ x \in AnswerDue => age[x] < AckDelay
        /\ x \in PlanDue => age[x] < PlanDelay
    BY <1>1 DEF Timely
  <2>2. InFlight(x)
    BY <1>3 DEF InFlight
  <2>. QED  BY <1>3, <2>1, <2>2 DEF Tick, TypeOK
<1>4. \A x \in Requests : x \in AnswerDue' => age'[x] <= AckDelay
  BY <1>2, <1>3, CartAssumption
<1>5. \A x \in Requests : x \in PlanDue' => age'[x] <= PlanDelay
  BY <1>2, <1>3, CartAssumption
<1>6. ASSUME NEW r \in Requests, NEW x \in Requests, phase'[r] = "ackwait", x \in AnswerDue'
      PROVE  age'[x] + left' >= AckTimeout
  <2>1. age[x] + left >= AckTimeout
    BY <1>1, <1>2, <1>6 DEF Clocked
  <2>. QED  BY <1>1, <1>2, <1>3, <1>6, <2>1, CartAssumption
<1>7. ASSUME NEW r \in Requests, NEW x \in Requests, phase'[r] \in {"planwait", "expired"}, x \in PlanDue'
      PROVE  age'[x] + left' >= MoveTimeout
  <2>1. age[x] + left >= MoveTimeout
    BY <1>1, <1>2, <1>7 DEF Clocked
  <2>. QED  BY <1>1, <1>2, <1>3, <1>7, <2>1, CartAssumption
<1>8. \A r \in Requests : phase'[r] = "expired" => left' = 0
  BY <1>1 DEF Clocked
<1>9. \A r \in Requests : phase'[r] # "linkgone" /\ phase'[r] # "registered"
  BY <1>1 DEF Clocked
<1>. QED  BY <1>4, <1>5, <1>6, <1>7, <1>8, <1>9 DEF Clocked

LEMMA ClockedStep ==
  ASSUME TypeOK, TokenLife, Clocked, [Next]_vars
  PROVE  Clocked'
<1>. USE DEF callVars, tokenVars, pendVars, clearVars, handVars, ackVars, linkVars
<1>1. ASSUME NEW r \in Requests, Register(r)  PROVE Clocked'
  <2>1. /\ serial = NoRequest /\ NoRequest \notin Requests
        /\ UNCHANGED <<down, owed, up, linkDead>>
        /\ r \notin AnswerDue /\ r \notin PlanDue
        /\ phase' = [phase EXCEPT ![r] = "registered"] /\ age' = [age EXCEPT ![r] = 0]
    BY <1>1, CartAssumption DEF Register, Fresh, InFlight
  <2>2. \A x \in Requests : (x \in PlanDue' <=> x \in PlanDue) /\ (x \in AnswerDue' <=> x \in AnswerDue)
    BY <2>1, LineSame
  <2>3. \A x \in Requests : phase'[x] \in Inside => x = r /\ phase'[x] = "registered"
    BY <2>1 DEF TokenLife, TypeOK
  <2>4. \A x \in Requests : (x # r => age'[x] = age[x]) /\ age'[r] = 0
    BY <2>1 DEF TypeOK
  <2>. QED  BY <2>1, <2>2, <2>3, <2>4 DEF Clocked, Inside
<1>2. ASSUME NEW r \in Requests, Write(r)  PROVE Clocked'
  <2>1. /\ r = serial /\ UNCHANGED <<owed, up, linkDead>> /\ down' = Append(down, r)
        /\ phase' = [phase EXCEPT ![r] = "ackwait"] /\ age' = [age EXCEPT ![r] = 0]
        /\ left' = AckTimeout
    BY <1>2 DEF Write, TokenLife, Inside
  <2>2. Elems(down') = Elems(down) \cup {r} /\ \A K : UpReqs(K)' = UpReqs(K)
    BY <2>1, WrittenCommand DEF UpReqs
  <2>3. \A x \in Requests : /\ x \in PlanDue' => x \in PlanDue \/ x = r
                            /\ x \in AnswerDue' => x \in AnswerDue \/ x = r
    BY <2>1, <2>2 DEF PlanDue, AnswerDue
  <2>4. \A x \in Requests : phase'[x] \in Inside => x = r /\ phase'[x] = "ackwait"
    BY <2>1 DEF TokenLife, TypeOK
  <2>5. \A x \in Requests : (x # r => age'[x] = age[x]) /\ age'[r] = 0 /\ age'[x] \in Nat
    BY <2>1 DEF TypeOK
  <2>6. \A x \in Requests : age'[x] + AckTimeout >= AckTimeout
    BY <2>5, CartAssumption
  <2>. QED  BY <2>1, <2>3, <2>4, <2>5, <2>6, CartAssumption DEF Clocked, Inside
<1>3. ASSUME NEW r \in Requests, Caller(r), ~Write(r)  PROVE Clocked'
  BY <1>3, ClockedCall
<1>4. ASSUME NEW c \in Clearers, Clearer(c)  PROVE Clocked'
  <2>1. UNCHANGED <<owed, up, linkDead, phase, age, left>>
        /\ (down' = down \/ down' = Append(down, ClearCmd))
    BY <1>4 DEF Clearer, ClearPending, FailSwept, WriteClear
  <2>2. \A x \in Requests : (x \in PlanDue' => x \in PlanDue) /\ (x \in AnswerDue' => x \in AnswerDue)
    <3>1. CASE down' = down
      BY <2>1, <3>1, LineSame
    <3>2. CASE down' = Append(down, ClearCmd)
      <4>1. /\ Elems(down') = Elems(down) \cup {ClearCmd} /\ ClearCmd \notin Requests
            /\ \A K : UpReqs(K)' = UpReqs(K)
        BY <2>1, <3>2, WrittenCommand, CartAssumption DEF UpReqs
      <4>. QED  BY <2>1, <4>1 DEF PlanDue, AnswerDue
    <3>. QED  BY <2>1, <3>1, <3>2
  <2>. QED  BY <2>1, <2>2, ClockedStays
<1>5. CASE PollCart \/ StrayError \/ Resolve \/ UNCHANGED vars
  <2>1. UNCHANGED <<down, owed, up, linkDead, phase, age, left>>
    BY <1>5 DEF PollCart, StrayError, Resolve, vars
  <2>2. \A x \in Requests : (x \in PlanDue' => x \in PlanDue) /\ (x \in AnswerDue' => x \in AnswerDue)
    BY <2>1, LineSame
  <2>. QED  BY <2>1, <2>2, ClockedStays
<1>6. CASE Tick
  BY <1>6, ClockedTick
<1>7. CASE \/ ReadAnswer \/ AbsorbReply \/ ExtraReply \/ PairReply \/ LoseFrame
           \/ ReaderDies \/ FwAccept \/ FwRefuse \/ FwClear \/ FwReply
  <2>1. UNCHANGED <<phase, age, left>> /\ (~linkDead' => ~linkDead)
    BY <1>7 DEF ReadAnswer, AbsorbReply, ExtraReply, PairReply, LoseFrame, Arrived,
                ReaderDies, FwAccept, FwRefuse, FwClear, FwReply
  <2>2. LineStep
    <3>1. {"ack", "err"} \in SUBSET {"ack", "err", "plan"} /\ {"plan"} \in SUBSET {"ack", "err", "plan"}
      OBVIOUS
    <3>2. CASE ReadAnswer \/ AbsorbReply \/ ExtraReply \/ PairReply
      <4>1. Arrived({"ack", "err"}) \/ Arrived({"plan"})
        BY <3>2 DEF ReadAnswer, AbsorbReply, ExtraReply, PairReply
      <4>. QED  BY <3>1, <4>1 DEF LineStep
    <3>. QED  BY <1>7, <3>2 DEF LineStep
  <2>3. \A x \in Requests : (x \in PlanDue' => x \in PlanDue) /\ (x \in AnswerDue' => x \in AnswerDue)
    BY <2>2, LineShrinks
  <2>. QED  BY <2>1, <2>3, ClockedStays
<1>. QED  BY <1>1, <1>2, <1>3, <1>4, <1>5, <1>6, <1>7 DEF Next, Reader, FwRead
-----------------------------------------------------------------------------
(* Counting                                                                *)

LEMMA Fewer ==
  ASSUME NEW S, IsFiniteSet(S), NEW T, T \subseteq S
  PROVE  IsFiniteSet(T) /\ Cardinality(T) \in Nat /\ Cardinality(T) <= Cardinality(S)
BY FS_Subset, FS_CardinalityType

LEMMA OneLess ==
  ASSUME NEW S, IsFiniteSet(S), NEW x \in S, NEW T, T \subseteq S \ {x}
  PROVE  Cardinality(T) <= Cardinality(S) - 1
<1>1. IsFiniteSet(S \ {x}) /\ Cardinality(S \ {x}) = Cardinality(S) - 1
  BY FS_RemoveElement
<1>2. Cardinality(T) <= Cardinality(S \ {x})
  BY <1>1, Fewer
<1>. QED  BY <1>1, <1>2

LEMMA OneMore ==
  ASSUME NEW S, IsFiniteSet(S), NEW x, NEW T, T \subseteq S \cup {x}
  PROVE  Cardinality(T) <= Cardinality(S) + 1
<1>1. /\ IsFiniteSet(S \cup {x}) /\ Cardinality(S) \in Nat
      /\ Cardinality(S \cup {x}) <= Cardinality(S) + 1 /\ Cardinality(S \cup {x}) \in Nat
  BY FS_AddElement, FS_CardinalityType
<1>2. Cardinality(T) <= Cardinality(S \cup {x}) /\ Cardinality(T) \in Nat
  BY <1>1, Fewer
<1>. QED  BY <1>1, <1>2

LEMMA WithoutLen ==
  ASSUME NEW S, NEW s \in Seq(S), NEW e
  PROVE  Len(Without(s, e)) = IF e \in Elems(s) THEN Len(s) - 1 ELSE Len(s)
<1>1. CASE e \notin Elems(s)
  BY <1>1 DEF Without
<1>2. CASE e \in Elems(s)
  <2>. DEFINE k == CHOOSE i \in 1..Len(s) : s[i] = e
              w == [j \in 1..(Len(s) - 1) |-> IF j < k THEN s[j] ELSE s[j + 1]]
  <2>1. k \in 1..Len(s) /\ Len(s) \in Nat
    BY <1>2, LenProperties DEF Elems
  <2>2. Without(s, e) = w
    BY <1>2 DEF Without
  <2>. HIDE DEF k
  <2>3. \A j \in 1..(Len(s) - 1) : w[j] \in S
    BY <2>1
  <2>4. Len(w) = Len(s) - 1
    BY <2>1, <2>3, IsASeq, LenProperties
  <2>. QED  BY <1>2, <2>2, <2>4
<1>. QED  BY <1>1, <1>2

LEMMA CoveredParts ==
  ASSUME TypeOK, Covered, ~linkDead
  PROVE  /\ IsFiniteSet(Due) /\ IsFiniteSet(Rivals) /\ IsFiniteSet(Young)
         /\ Cardinality(Rivals) \in Nat /\ Cardinality(Young) \in Nat
         /\ Young \subseteq Rivals /\ Rivals \subseteq Due
         /\ Due \subseteq Rivals \cup {serial}
         /\ serial \notin Elems(q) => Rivals = Due
         /\ Cardinality(Rivals) <= Absorbance + Ahead /\ Cardinality(Young) <= Ahead
         /\ Absorbance \in Nat /\ Ahead \in Nat /\ Len(q) \in Nat
         /\ Ahead = IF serial \in Elems(q) THEN Len(q) - 1 ELSE Len(q)
<1>1. Young \subseteq Rivals /\ Rivals \subseteq Due /\ Due \subseteq Rivals \cup {serial}
      /\ (serial \notin Elems(q) => Rivals = Due)
  BY DEF Young, Rivals
<1>2. IsFiniteSet(Due)
  BY DEF Covered
<1>3. /\ IsFiniteSet(Rivals) /\ IsFiniteSet(Young)
      /\ Cardinality(Rivals) \in Nat /\ Cardinality(Young) \in Nat
  BY <1>1, <1>2, Fewer
<1>4. Len(q) \in Nat /\ (serial \in Elems(q) => Len(q) # 0)
  BY LenProperties DEF TypeOK, Elems
<1>. QED  BY <1>1, <1>2, <1>3, <1>4, AbsorbanceType DEF Covered, Ahead

LEMMA CoveredStays ==
  ASSUME TypeOK, Covered, ~linkDead' => ~linkDead,
         UNCHANGED <<q, serial, absorb, ttl>>, ~linkDead => age' = age,
         \A x \in Requests : /\ x \in PlanDue' => x \in Due
                             /\ phase'[x] = "registered" => x \in Due
  PROVE  Covered'
<1>. SUFFICES ASSUME ~linkDead, ~linkDead'  PROVE Covered'
  BY DEF Covered
<1>1. Due' \subseteq Due
  BY DEF Due
<1>2. Rivals' \subseteq Rivals /\ Absorbance' = Absorbance /\ Ahead' = Ahead
  BY <1>1 DEF Rivals, Absorbance, Ahead
<1>3. Young' \subseteq Young
  BY <1>2 DEF Young, AbsorbTTL
<1>4. IsFiniteSet(Due') /\ Cardinality(Rivals') <= Cardinality(Rivals) /\ Cardinality(Young') <= Cardinality(Young)
      /\ Cardinality(Rivals') \in Nat /\ Cardinality(Young') \in Nat
  BY <1>1, <1>2, <1>3, CoveredParts, Fewer
<1>. QED  BY <1>2, <1>4, CoveredParts DEF Covered

(* The caller gives up and its token stays: its request becomes a rival of  *)
(* the next call, its token one more ahead.                                 *)
LEMMA CoveredLeft ==
  ASSUME TypeOK, Covered, UNCHANGED <<q, absorb, ttl, age, linkDead>>, serial' = NoRequest,
         \A x \in Requests : /\ x \in PlanDue' => x \in Due
                             /\ phase'[x] # "registered"
  PROVE  Covered'
<1>. SUFFICES ASSUME ~linkDead  PROVE Covered'
  BY DEF Covered
<1>1. Due' \subseteq Due /\ Absorbance' = Absorbance
  BY DEF Due, Absorbance
<1>2. Ahead' = Len(q)
  <2>1. NoRequest \notin Elems(q)
    BY ElemsIn, CartAssumption DEF TypeOK
  <2>. QED  BY <2>1 DEF Ahead
<1>3. CASE serial \notin Elems(q)
  <2>1. Rivals' \subseteq Rivals /\ Ahead' = Ahead
    BY <1>1, <1>2, <1>3 DEF Rivals, Ahead
  <2>2. Young' \subseteq Young
    BY <2>1 DEF Young, AbsorbTTL
  <2>3. IsFiniteSet(Due') /\ Cardinality(Rivals') <= Cardinality(Rivals) /\ Cardinality(Young') <= Cardinality(Young)
        /\ Cardinality(Rivals') \in Nat /\ Cardinality(Young') \in Nat
    BY <1>1, <2>1, <2>2, CoveredParts, Fewer
  <2>. QED  BY <1>1, <2>1, <2>3, CoveredParts DEF Covered
<1>4. CASE serial \in Elems(q)
  <2>1. Rivals' \subseteq Rivals \cup {serial} /\ Ahead' = Ahead + 1
    BY <1>1, <1>2, <1>4, CoveredParts DEF Rivals
  <2>2. Young' \subseteq Young \cup {serial}
    BY <2>1 DEF Young, AbsorbTTL
  <2>3. /\ Cardinality(Rivals') <= Cardinality(Rivals) + 1
        /\ Cardinality(Young') <= Cardinality(Young) + 1
    BY <2>1, <2>2, CoveredParts, OneMore
  <2>4. IsFiniteSet(Due') /\ Rivals' \subseteq Due' /\ Young' \subseteq Due'
    BY <1>1, CoveredParts, Fewer DEF Rivals, Young
  <2>5. Cardinality(Rivals') \in Nat /\ Cardinality(Young') \in Nat
    BY <2>4, Fewer
  <2>. QED  BY <1>1, <2>1, <2>3, <2>4, <2>5, CoveredParts DEF Covered
<1>. QED  BY <1>3, <1>4

(* A call whose request comes to nothing takes its token with it.           *)
LEMMA CoveredDropped ==
  ASSUME TypeOK, Covered, UNCHANGED <<absorb, ttl, age, linkDead>>, serial' = NoRequest,
         q' = Without(q, serial),
         \A x \in Requests : /\ x \in PlanDue' => x \in Due /\ x # serial
                             /\ phase'[x] # "registered"
  PROVE  Covered'
<1>. SUFFICES ASSUME ~linkDead  PROVE Covered'
  BY DEF Covered
<1>1. Due' \subseteq Due \ {serial} /\ Absorbance' = Absorbance
  BY DEF Due, Absorbance
<1>2. Ahead' = Ahead
  <2>1. Elems(q') \subseteq Elems(q) /\ NoRequest \notin Elems(q)
    BY ElemsIn, WithoutElems, CartAssumption DEF TypeOK
  <2>2. Len(q') = IF serial \in Elems(q) THEN Len(q) - 1 ELSE Len(q)
    BY WithoutLen DEF TypeOK
  <2>. QED  BY <2>1, <2>2 DEF Ahead
<1>3. Rivals' \subseteq Rivals
  BY <1>1, CoveredParts DEF Rivals
<1>4. Young' \subseteq Young
  BY <1>3 DEF Young, AbsorbTTL
<1>5. IsFiniteSet(Due') /\ Cardinality(Rivals') <= Cardinality(Rivals) /\ Cardinality(Young') <= Cardinality(Young)
      /\ Cardinality(Rivals') \in Nat /\ Cardinality(Young') \in Nat
  BY <1>1, <1>3, <1>4, CoveredParts, Fewer
<1>. QED  BY <1>1, <1>2, <1>5, CoveredParts DEF Covered

LEMMA CoveredRegister ==
  ASSUME TypeOK, TokenLife, Covered, NEW r \in Requests, Register(r)
  PROVE  Covered'
<1>. SUFFICES ASSUME ~linkDead  PROVE Covered'
  BY DEF Covered, Register, ackVars
<1>1. /\ serial = NoRequest /\ NoRequest \notin Requests /\ serial' = r /\ q' = Append(q, r)
      /\ UNCHANGED <<absorb, ttl, down, owed, up, linkDead>>
      /\ age' = [age EXCEPT ![r] = 0] /\ phase' = [phase EXCEPT ![r] = "registered"]
  BY CartAssumption DEF Register, ackVars
<1>2. q \in Seq(Requests) /\ Elems(q) \subseteq Requests /\ Len(q) \in Nat
  BY ElemsIn, LenProperties DEF TypeOK
<1>3. Elems(q') = Elems(q) \cup {r} /\ Len(q') = Len(q) + 1
  BY <1>1, <1>2, AppendElems
<1>4. Due' \subseteq Due \cup {r} /\ Absorbance' = Absorbance
  <2>1. PlanDue' = PlanDue
    BY <1>1, LineSame
  <2>. QED  BY <1>1, <2>1 DEF Due, Absorbance, TypeOK
<1>5. Ahead' = Ahead
  BY <1>1, <1>2, <1>3 DEF Ahead
<1>6. Rivals' \subseteq Rivals /\ r \notin Rivals' /\ Rivals \subseteq Requests
  BY <1>1, <1>2, <1>3, <1>4 DEF Rivals, Due
<1>7. Young' \subseteq Young
  <2>1. \A x \in Requests : x # r => age'[x] = age[x]
    BY <1>1 DEF TypeOK
  <2>. QED  BY <1>1, <1>6, <2>1 DEF Young, AbsorbTTL
<1>8. IsFiniteSet(Due \cup {r})
  BY CoveredParts, FS_AddElement
<1>9. IsFiniteSet(Due') /\ Cardinality(Rivals') <= Cardinality(Rivals) /\ Cardinality(Young') <= Cardinality(Young)
      /\ Cardinality(Rivals') \in Nat /\ Cardinality(Young') \in Nat
  BY <1>4, <1>6, <1>7, <1>8, CoveredParts, Fewer
<1>. QED  BY <1>4, <1>5, <1>9, CoveredParts DEF Covered

(* Clearing the queue turns tokens into as much budget, and gives it all a  *)
(* new deadline that nothing on its way outlives.                           *)
LEMMA CoveredClear ==
  ASSUME TypeOK, Covered, NEW c \in Clearers, ClearPending(c)
  PROVE  Covered'
<1>. USE DEF callVars, tokenVars, handVars, ackVars, linkVars
<1>. SUFFICES ASSUME ~linkDead  PROVE Covered'
  BY DEF Covered, ClearPending
<1>1. CASE q = <<>>
  <2>1. UNCHANGED <<q, serial, absorb, ttl, age, phase, down, owed, up, linkDead>>
    BY <1>1 DEF ClearPending, pendVars
  <2>2. PlanDue' = PlanDue
    BY <2>1, LineSame
  <2>. QED  BY <2>1, <2>2, CoveredStays DEF Due
<1>2. CASE q # <<>>
  <2>1. /\ q' = <<>> /\ absorb' = Absorbance + Len(q) /\ ttl' = AbsorbTTL
        /\ UNCHANGED <<serial, age, phase, down, owed, up, linkDead>>
    BY <1>2 DEF ClearPending
  <2>2. Due' = Due
    <3>1. PlanDue' = PlanDue
      BY <2>1, LineSame
    <3>. QED  BY <2>1, <3>1 DEF Due
  <2>3. Elems(q') = {} /\ Len(q') = 0
    BY <2>1, EmptySeq DEF Elems
  <2>4. Absorbance' = Absorbance + Len(q) /\ Ahead' = 0
    BY <2>1, <2>3, TTLType DEF Absorbance, Ahead, AbsorbTTL
  <2>5. Rivals' = Due
    BY <2>2, <2>3 DEF Rivals
  <2>6. Young' = {}
    <3>1. \A x \in Requests : ~(age'[x] < AbsorbTTL - ttl')
      BY <2>1, TTLType DEF TypeOK
    <3>. QED  BY <3>1 DEF Young, Rivals, Due, AbsorbTTL
  <2>7. Cardinality(Due) <= Absorbance + Len(q) /\ Cardinality(Due) \in Nat
    <3>1. CASE serial \in Elems(q)
      <4>1. Cardinality(Due) <= Cardinality(Rivals) + 1 /\ Cardinality(Due) \in Nat
        BY CoveredParts, OneMore, FS_CardinalityType
      <4>. QED  BY <3>1, <4>1, CoveredParts
    <3>2. CASE serial \notin Elems(q)
      BY <3>2, CoveredParts
    <3>. QED  BY <3>1, <3>2
  <2>8. IsFiniteSet(Due') /\ Cardinality(Young') = 0
    BY <2>2, <2>6, CoveredParts, FS_EmptySet
  <2>. QED  BY <2>4, <2>5, <2>7, <2>8, CoveredParts DEF Covered
<1>. QED  BY <1>1, <1>2

(* The result at the head of the uplink: of its request it was the only one *)
(* that may come, and when it is that of the caller that waits, there is no *)
(* rival.                                                                   *)
LEMMA ResultTaken ==
  ASSUME TypeOK, TokenLife, InOrder, Decided, Arrived({"plan"}), UNCHANGED <<serial, phase>>
  PROVE  /\ Head(up).req \in Due
         /\ Due' \subseteq Due \ {Head(up).req}
         /\ Head(up).req = serial => Due \subseteq {serial}
         /\ Head(up).req \in Requests /\ fate[Head(up).req] = "accepted"
<1>. DEFINE x == Head(up).req
<1>1. /\ up # <<>> /\ up' = Tail(up) /\ UNCHANGED <<down, owed>> /\ Head(up).kind = "plan"
  BY DEF Arrived
<1>2. \A y \in Requests : y \in PlanDue' => x # y /\ x # serial
  BY <1>1, OrderTaken DEF Before
<1>3. /\ x \in Results /\ x \in Requests
      /\ \A y \in Requests : y \in PlanDue => y = x \/ y \in PlanDue'
  <2>1. Results = Results' \cup {x} /\ Head(up) \in Frames
    BY <1>1, TakenFrame DEF Results
  <2>2. Commands' = Commands /\ Elems(owed)' = Elems(owed)
    BY <1>1 DEF Commands
  <2>3. \A y \in Requests : y \in PlanDue => y \in Commands \cup Elems(owed) \cup Results
    BY DueParts
  <2>4. \A y \in Commands' \cup Elems(owed)' \cup Results' : y \in PlanDue'
    BY DEF Commands, Results, PlanDue
  <2>. QED  BY <2>1, <2>2, <2>3, <2>4 DEF Frames
<1>4. x \in PlanDue /\ fate[x] = "accepted"
  BY <1>3, DueParts DEF Decided
<1>5. \A y \in Requests : y \in PlanDue' => y \in PlanDue
  <2>1. {"plan"} \in SUBSET {"ack", "err", "plan"}
    OBVIOUS
  <2>. QED  BY <2>1, LineShrinks DEF LineStep
<1>6. phase[x] # "registered"
  BY <1>3, <1>4 DEF Decided, InFlight
<1>7. Due' \subseteq Due \ {x}
  BY <1>2, <1>5, <1>6 DEF Due
<1>8. x = serial => Due \subseteq {serial}
  <2>. SUFFICES ASSUME x = serial, NEW y \in Requests, y \in PlanDue \/ phase[y] = "registered"
                PROVE  y = x
    BY DEF Due
  <2>1. phase[y] = "registered" => y = serial
    BY DEF TokenLife, Inside
  <2>. QED  BY <1>2, <1>3, <2>1
<1>. QED  BY <1>3, <1>4, <1>7, <1>8 DEF Due

(* A result that is absorbed was that of a rival, or none is left.          *)
LEMMA CoveredAbsorb ==
  ASSUME TypeOK, TokenLife, InOrder, Decided, Covered, AbsorbReply
  PROVE  Covered'
<1>. USE DEF callVars, tokenVars, handVars, ackVars, clearVars
<1>. SUFFICES ASSUME ~linkDead  PROVE Covered'
  BY DEF Covered, AbsorbReply
<1>. DEFINE x == Head(up).req
<1>1. /\ UNCHANGED <<serial, phase, q, ttl, age, linkDead>> /\ absorb' = absorb - 1
      /\ Arrived({"plan"}) /\ Absorbance > 0
  BY DEF AbsorbReply, Arrived
<1>2. /\ x \in Due /\ Due' \subseteq Due \ {x} /\ (x = serial => Due \subseteq {serial})
  BY <1>1, ResultTaken
<1>3. Absorbance' = Absorbance - 1 /\ Ahead' = Ahead
  BY <1>1 DEF Absorbance, Ahead, TypeOK
<1>4. Rivals' \subseteq Rivals \ {x}
  BY <1>1, <1>2 DEF Rivals
<1>5. Young' \subseteq Young
  BY <1>1, <1>4 DEF Young, AbsorbTTL
<1>6. /\ IsFiniteSet(Due') /\ Cardinality(Young') <= Cardinality(Young)
      /\ Cardinality(Rivals') \in Nat /\ Cardinality(Young') \in Nat
  BY <1>2, <1>4, <1>5, CoveredParts, Fewer
<1>7. Cardinality(Rivals') <= Absorbance' + Ahead'
  <2>1. CASE x \in Rivals
    <3>1. Cardinality(Rivals') <= Cardinality(Rivals) - 1
      BY <1>4, <2>1, CoveredParts, OneLess
    <3>. QED  BY <1>3, <1>6, <3>1, CoveredParts
  <2>2. CASE x \notin Rivals
    <3>1. Rivals' = {}
      BY <1>2, <1>4, <2>2, CoveredParts
    <3>2. Cardinality(Rivals') = 0
      BY <3>1, FS_EmptySet
    <3>. QED  BY <1>1, <1>3, <3>2, CoveredParts
  <2>. QED  BY <2>1, <2>2
<1>. QED  BY <1>3, <1>6, <1>7, CoveredParts DEF Covered

(* A result that meets a token when no budget is left: the token of the     *)
(* caller that waits only when the result is its own.                       *)
LEMMA PairsRight ==
  ASSUME TypeOK, TokenLife, InOrder, Decided, HolderIsLast, Covered, PairReply, ~linkDead
  PROVE  /\ Head(q) = serial => Head(up).req = serial /\ Len(q) = 1 /\ Due \subseteq {serial}
         /\ Head(q) # serial => (serial \in Elems(q') <=> serial \in Elems(q))
         /\ Len(q') = Len(q) - 1 /\ Len(q) \in Nat \ {0}
<1>. USE DEF callVars, tokenVars, handVars, ackVars, clearVars
<1>. DEFINE x == Head(up).req
<1>1. /\ UNCHANGED <<serial, phase>> /\ Arrived({"plan"}) /\ Absorbance = 0 /\ q # <<>> /\ q' = Tail(q)
  BY DEF PairReply
<1>2. /\ x \in Due /\ (x = serial => Due \subseteq {serial})
  BY <1>1, ResultTaken
<1>3. /\ q \in Seq(Requests) /\ Len(q) \in Nat \ {0} /\ Head(q) = q[1] /\ Head(q) \in Elems(q)
      /\ Len(Tail(q)) = Len(q) - 1 /\ Elems(q) = Elems(Tail(q)) \cup {Head(q)}
      /\ Head(q) \notin Elems(Tail(q))
  BY <1>1, TailElems, HeadTailProperties, EmptySeq, LenProperties DEF TypeOK, TokenLife
<1>4. ASSUME Head(q) = serial
      PROVE  x = serial /\ Len(q) = 1
  <2>1. Len(q) = 1
    BY <1>3, <1>4 DEF HolderIsLast, TokenLife, Distinct
  <2>2. Ahead = 0
    BY <1>3, <1>4, <2>1 DEF Ahead
  <2>3. Cardinality(Rivals) = 0
    BY <1>1, <2>2, CoveredParts
  <2>4. Rivals = {}
    BY <2>3, CoveredParts, FS_EmptySet
  <2>. QED  BY <1>2, <2>1, <2>4, CoveredParts
<1>. QED  BY <1>1, <1>2, <1>3, <1>4

LEMMA CoveredPair ==
  ASSUME TypeOK, TokenLife, InOrder, Decided, HolderIsLast, Covered, PairReply
  PROVE  Covered'
<1>. USE DEF callVars, tokenVars, handVars, ackVars, clearVars
<1>. SUFFICES ASSUME ~linkDead  PROVE Covered'
  BY DEF Covered, PairReply
<1>. DEFINE x == Head(up).req
<1>1. /\ UNCHANGED <<serial, phase, ttl, age, linkDead>> /\ absorb' = Absorbance
      /\ Arrived({"plan"}) /\ Absorbance = 0
  BY DEF PairReply, Arrived
<1>2. /\ x \in Due /\ Due' \subseteq Due \ {x} /\ (x = serial => Due \subseteq {serial})
  BY <1>1, ResultTaken
<1>3. Absorbance' = 0
  BY <1>1 DEF Absorbance
<1>4. IsFiniteSet(Due') /\ Young' \subseteq Rivals' /\ Rivals' \subseteq Due'
  BY <1>2, CoveredParts, Fewer DEF Rivals, Young
<1>5. IsFiniteSet(Rivals') /\ Cardinality(Rivals') \in Nat
      /\ Cardinality(Young') \in Nat /\ Cardinality(Young') <= Cardinality(Rivals')
  BY <1>4, Fewer
<1>6. /\ Head(q) = serial => x = serial /\ Len(q) = 1
      /\ Head(q) # serial => (serial \in Elems(q') <=> serial \in Elems(q))
      /\ Len(q') = Len(q) - 1 /\ Len(q) \in Nat \ {0}
  BY PairsRight
<1>7. Ahead' \in Nat
  <2>1. serial \in Elems(q') => Len(q') # 0
    BY DEF Elems
  <2>. QED  BY <1>1, <1>6, <2>1 DEF Ahead
<1>8. Cardinality(Rivals') <= Ahead'
  <2>1. CASE x = serial
    <3>1. Rivals' = {}
      BY <1>2, <1>4, <2>1
    <3>2. Cardinality(Rivals') = 0
      BY <3>1, FS_EmptySet
    <3>. QED  BY <1>7, <3>2
  <2>2. CASE x # serial
    <3>1. Ahead' = Ahead - 1
      BY <1>1, <1>6, <2>2 DEF Ahead
    <3>2. Rivals' \subseteq Rivals \ {x} /\ x \in Rivals
      BY <1>1, <1>2, <1>6, <2>2 DEF Rivals
    <3>3. Cardinality(Rivals') <= Cardinality(Rivals) - 1
      BY <3>2, CoveredParts, OneLess
    <3>. QED  BY <1>1, <1>5, <3>1, <3>3, CoveredParts
  <2>. QED  BY <2>1, <2>2
<1>. QED  BY <1>3, <1>4, <1>5, <1>7, <1>8 DEF Covered

(* Time passes: the budget may lapse, because every rival is then young.    *)
LEMMA CoveredTick ==
  ASSUME Nominal, TypeOK, Covered, Tick
  PROVE  Covered'
<1>. USE DEF callVars, tokenVars, handVars, ackVars, clearVars
<1>. SUFFICES ASSUME ~linkDead  PROVE Covered'
  BY DEF Covered, Tick
<1>1. /\ UNCHANGED <<serial, phase, q, absorb, down, owed, up, linkDead>>
      /\ \A x \in Requests : phase[x] # "registered" /\ Timely(x)
      /\ ttl' = IF ttl >= 0 THEN ttl - 1 ELSE ttl
      /\ ttl \in Nat \cup {-1} /\ absorb \in Nat
  BY DEF Tick, TypeOK
<1>2. Due' = Due /\ Rivals' = Rivals /\ Ahead' = Ahead
  <2>1. PlanDue' = PlanDue
    BY <1>1, LineSame
  <2>2. Due' = Due
    BY <1>1, <2>1 DEF Due
  <2>. QED  BY <1>1, <2>2 DEF Rivals, Ahead
<1>3. ASSUME NEW x \in Due
      PROVE  x \in Requests /\ age[x] \in Nat /\ age'[x] = age[x] + 1 /\ age[x] < PlanDelay
  <2>1. x \in Requests /\ x \in PlanDue /\ InFlight(x)
    BY <1>1, <1>3 DEF Due, InFlight
  <2>2. age[x] < PlanDelay
    BY <1>1, <2>1 DEF Timely
  <2>. QED  BY <2>1, <2>2 DEF Tick, TypeOK
<1>4. PlanDelay \in Nat /\ AbsorbTTL \in Nat /\ PlanDelay < AbsorbTTL
  BY TTLType, CartAssumption DEF Nominal, AbsorbTTL
<1>5. Rivals \subseteq Due
  BY DEF Rivals
<1>6. CASE ttl > 0
  <2>1. Absorbance' = Absorbance /\ ttl' = ttl - 1
    BY <1>1, <1>6 DEF Absorbance
  <2>2. Young' \subseteq Young
    <3>1. \A x \in Rivals : age'[x] < AbsorbTTL - ttl' => age[x] < AbsorbTTL - ttl
      BY <1>1, <1>3, <1>4, <1>5, <2>1
    <3>. QED  BY <1>2, <3>1 DEF Young, AbsorbTTL
  <2>3. Cardinality(Young') <= Cardinality(Young) /\ Cardinality(Young') \in Nat
    BY <2>2, CoveredParts, Fewer
  <2>. QED  BY <1>2, <2>1, <2>3, CoveredParts DEF Covered
<1>7. CASE ~(ttl > 0)
  <2>1. Absorbance' = 0
    BY <1>1, <1>7 DEF Absorbance
  <2>2. Cardinality(Rivals) <= Ahead
    <3>1. CASE ttl = 0
      <4>1. \A x \in Rivals : age[x] < AbsorbTTL - ttl
        BY <1>3, <1>4, <1>5, <3>1
      <4>2. Young = Rivals
        BY <4>1 DEF Young
      <4>. QED  BY <4>2, CoveredParts
    <3>2. CASE ttl # 0
      <4>1. Absorbance = 0
        BY <1>1, <1>7, <3>2 DEF Absorbance
      <4>. QED  BY <4>1, CoveredParts
    <3>. QED  BY <3>1, <3>2
  <2>3. Young' \subseteq Rivals
    BY <1>2 DEF Young
  <2>4. Cardinality(Young') <= Cardinality(Rivals) /\ Cardinality(Young') \in Nat
    BY <2>3, CoveredParts, Fewer
  <2>. QED  BY <1>2, <2>1, <2>2, <2>4, CoveredParts DEF Covered
<1>. QED  BY <1>1, <1>6, <1>7

(* A window that has closed leaves nothing that may still come.             *)
LEMMA CoveredGiveUp ==
  ASSUME Nominal, TypeOK, TokenLife, Clocked, Covered, NEW r \in Requests, GiveUp(r)
  PROVE  Covered'
<1>. USE DEF callVars, tokenVars, handVars, ackVars, clearVars, linkVars
<1>. SUFFICES ASSUME ~linkDead  PROVE Covered'
  BY DEF Covered, GiveUp
<1>1. /\ phase[r] = "expired" /\ left = 0 /\ r = serial
      /\ UNCHANGED <<down, owed, up, age, linkDead>>
      /\ \E o \in Ended : phase' = [phase EXCEPT ![r] = o]
      /\ q' = Without(q, r)
      /\ (UNCHANGED <<absorb, ttl>> \/ (absorb' = Absorbance + 1 /\ ttl' = AbsorbTTL))
  BY DEF GiveUp, DropAndAbsorb, Return, Clocked, TokenLife, Inside, Ended
<1>2. \A x \in Requests : x \notin PlanDue
  <2>. SUFFICES ASSUME NEW x \in Requests, x \in PlanDue
                PROVE  FALSE
    OBVIOUS
  <2>1. age[x] <= PlanDelay /\ age[x] + left >= MoveTimeout /\ age[x] \in Nat
    BY <1>1 DEF Clocked, TypeOK
  <2>. QED  BY <1>1, <2>1, CartAssumption DEF Nominal
<1>3. \A x \in Requests : phase'[x] # "registered"
  BY <1>1 DEF TypeOK, TokenLife, Inside, Ended
<1>4. Due' = {}
  <2>1. PlanDue' = PlanDue
    BY <1>1, LineSame
  <2>. QED  BY <1>2, <1>3, <2>1 DEF Due
<1>5. Rivals' = {} /\ Young' = {}
  BY <1>4 DEF Rivals, Young
<1>6. Absorbance' \in Nat
  BY <1>1, AbsorbanceType DEF Absorbance, TypeOK
<1>7. Ahead' \in Nat
  <2>1. q' \in Seq(Requests) /\ Len(q') \in Nat /\ (Len(q') = 0 => Elems(q') = {})
    BY <1>1, DropType, LenProperties DEF Elems
  <2>. QED  BY <2>1 DEF Ahead
<1>. QED  BY <1>4, <1>5, <1>6, <1>7, FS_EmptySet DEF Covered

LEMMA CoveredCall ==
  ASSUME Nominal, TypeOK, TokenLife, Decided, AnswerTaken, Clocked, Covered,
         NEW r \in Requests, Caller(r)
  PROVE  Covered'
<1>. USE DEF callVars, tokenVars, pendVars, clearVars, handVars, ackVars, linkVars
<1>1. CASE Write(r)
  <2>. SUFFICES ASSUME ~linkDead  PROVE Covered'
    BY <1>1 DEF Covered, Write
  <2>1. /\ phase[r] = "registered" /\ down' = Append(down, r) /\ age' = [age EXCEPT ![r] = 0]
        /\ phase' = [phase EXCEPT ![r] = "ackwait"]
        /\ UNCHANGED <<serial, q, absorb, ttl, owed, up, linkDead>>
    BY <1>1 DEF Write
  <2>2. age' = age
    BY <2>1 DEF Clocked, TypeOK
  <2>3. Elems(down') = Elems(down) \cup {r} /\ \A K : UpReqs(K)' = UpReqs(K)
    BY <2>1, WrittenCommand DEF UpReqs
  <2>4. \A x \in Requests : x \in PlanDue' => x \in PlanDue \/ x = r
    BY <2>1, <2>3 DEF PlanDue
  <2>5. \A x \in Requests : phase'[x] = "registered" => phase[x] = "registered"
    BY <2>1 DEF TypeOK
  <2>. QED  BY <2>1, <2>2, <2>4, <2>5, CoveredStays DEF Due
<1>. SUFFICES ASSUME ~Write(r)  PROVE Covered'
  BY <1>1
<1>2. UNCHANGED <<down, owed, up, age, linkDead>> /\ phase[r] \in Inside /\ r = serial
  BY DEF Caller, WriteFails, WriteRefused, TakeAck, RememberErr, Rejected, Inside, TokenLife,
         AbandonAckWait, WaitLost, WaitReply, Unclaim, WaitExpired, WaitLinkDown, GiveUp
<1>3. PlanDue' = PlanDue
  BY <1>2, LineSame
<1>4. CASE TakeAck(r) \/ RememberErr(r) \/ WaitReply(r) \/ WaitExpired(r) \/ WaitLinkDown(r)
  <2>1. /\ UNCHANGED <<q, serial, absorb, ttl>>
        /\ phase' = phase
           \/ \E p \in {"planwait", "replied", "expired", "linkgone"} : phase' = [phase EXCEPT ![r] = p]
    BY <1>4 DEF TakeAck, RememberErr, WaitReply, WaitExpired, WaitLinkDown
  <2>2. \A x \in Requests : phase'[x] = "registered" => phase[x] = "registered"
    BY <2>1 DEF TypeOK
  <2>. QED  BY <1>2, <1>3, <2>1, <2>2, CoveredStays DEF Due
<1>5. ASSUME \E o \in Ended : Return(r, o)
      PROVE  serial' = NoRequest /\ \A x \in Requests : phase'[x] # "registered"
  BY <1>2, <1>5 DEF Return, TypeOK, TokenLife, Inside, Ended
<1>6. CASE WriteRefused(r) \/ AbandonAckWait(r) \/ WaitLost(r) \/ Unclaim(r)
  <2>1. UNCHANGED <<q, absorb, ttl>> /\ \E o \in Ended : Return(r, o)
    BY <1>6 DEF WriteRefused, AbandonAckWait, WaitLost, Unclaim, Ended
  <2>. QED  BY <1>2, <1>3, <1>5, <2>1, CoveredLeft DEF Due
<1>7. CASE WriteFails(r) \/ Rejected(r)
  <2>1. /\ UNCHANGED <<absorb, ttl>> /\ q' = Without(q, serial) /\ \E o \in Ended : Return(r, o)
    BY <1>2, <1>7 DEF WriteFails, Rejected, Drop, Ended
  <2>2. serial \notin PlanDue
    <3>1. CASE WriteFails(r)
      BY <1>2, <3>1 DEF WriteFails, Decided, InFlight
    <3>2. CASE Rejected(r)
      <4>1. fate[r] = "refused"
        BY <3>2 DEF Rejected, AnswerTaken
      <4>2. r \notin Commands \cup Elems(owed) \cup Results
        BY <4>1 DEF Decided
      <4>. QED  BY <1>2, <4>2, DueParts
    <3>. QED  BY <1>7, <3>1, <3>2
  <2>. QED  BY <1>2, <1>3, <1>5, <2>1, <2>2, CoveredDropped DEF Due
<1>8. CASE GiveUp(r)
  BY <1>8, CoveredGiveUp
<1>. QED  BY <1>4, <1>6, <1>7, <1>8 DEF Caller

LEMMA CoveredStep ==
  ASSUME Nominal, TypeOK, TokenLife, InOrder, Decided, HolderIsLast, AnswerTaken, Clocked, Covered,
         [Next]_vars
  PROVE  Covered'
<1>. USE DEF callVars, tokenVars, pendVars, clearVars, handVars, ackVars, linkVars
<1>1. ASSUME NEW r \in Requests, Register(r) \/ Caller(r)  PROVE Covered'
  BY <1>1, CoveredRegister, CoveredCall
<1>2. ASSUME NEW c \in Clearers, Clearer(c)  PROVE Covered'
  <2>1. CASE ClearPending(c)
    BY <2>1, CoveredClear
  <2>2. CASE FailSwept(c) \/ WriteClear(c)
    <3>1. UNCHANGED <<serial, q, absorb, ttl, age, phase, owed, up, linkDead>>
          /\ (down' = down \/ down' = Append(down, ClearCmd))
      BY <2>2 DEF FailSwept, WriteClear
    <3>2. \A x \in Requests : x \in PlanDue' => x \in PlanDue
      <4>1. CASE down' = down
        BY <3>1, <4>1, LineSame
      <4>2. CASE down' = Append(down, ClearCmd)
        <5>1. /\ Elems(down') = Elems(down) \cup {ClearCmd} /\ ClearCmd \notin Requests
              /\ \A K : UpReqs(K)' = UpReqs(K)
          BY <3>1, <4>2, WrittenCommand, CartAssumption DEF UpReqs
        <5>. QED  BY <3>1, <5>1 DEF PlanDue
      <4>. QED  BY <3>1, <4>1, <4>2
    <3>. QED  BY <3>1, <3>2, CoveredStays DEF Due
  <2>. QED  BY <1>2, <2>1, <2>2 DEF Clearer
<1>3. CASE PollCart \/ StrayError \/ Resolve \/ UNCHANGED vars
  <2>1. UNCHANGED <<serial, q, absorb, ttl, age, phase, down, owed, up, linkDead>>
    BY <1>3 DEF PollCart, StrayError, Resolve, vars
  <2>2. PlanDue' = PlanDue
    BY <2>1, LineSame
  <2>. QED  BY <2>1, <2>2, CoveredStays DEF Due
<1>4. CASE AbsorbReply
  BY <1>4, CoveredAbsorb
<1>5. CASE PairReply
  BY <1>5, CoveredPair
<1>6. CASE ExtraReply \/ ReadAnswer \/ LoseFrame \/ FwAccept \/ FwRefuse \/ FwClear \/ FwReply
  <2>1. UNCHANGED <<serial, phase, q, ttl, age, linkDead>>
    BY <1>6 DEF ExtraReply, ReadAnswer, LoseFrame, FwAccept, FwRefuse, FwClear, FwReply, Arrived
  <2>2. LineStep
    <3>1. {"ack", "err"} \in SUBSET {"ack", "err", "plan"} /\ {"plan"} \in SUBSET {"ack", "err", "plan"}
      OBVIOUS
    <3>. QED  BY <1>6, <3>1 DEF LineStep, ExtraReply, ReadAnswer
  <2>3. \A x \in Requests : x \in PlanDue' => x \in PlanDue
    BY <2>2, LineShrinks
  <2>4. CASE ~ExtraReply
    <3>1. absorb' = absorb
      BY <1>6, <2>4 DEF ReadAnswer, LoseFrame, FwAccept, FwRefuse, FwClear, FwReply
    <3>. QED  BY <2>1, <2>3, <3>1, CoveredStays DEF Due
  <2>5. CASE ExtraReply
    <3>. SUFFICES ASSUME ~linkDead  PROVE Covered'
      BY <2>5 DEF Covered, ExtraReply
    <3>1. Arrived({"plan"}) /\ Absorbance = 0 /\ q = <<>>
      BY <2>5 DEF ExtraReply
    <3>2. Head(up).req \in Due
      BY <2>1, <3>1, ResultTaken
    <3>3. serial \notin Elems(q) /\ Len(q) = 0
      BY <3>1, EmptySeq DEF Elems
    <3>4. Cardinality(Due) = 0 /\ IsFiniteSet(Due)
      BY <3>1, <3>3, CoveredParts
    <3>. QED  BY <3>2, <3>4, FS_EmptySet
  <2>. QED  BY <2>4, <2>5
<1>7. CASE ReaderDies
  BY <1>7 DEF ReaderDies, Covered
<1>8. CASE Tick
  BY <1>8, CoveredTick
<1>. QED  BY <1>1, <1>2, <1>3, <1>4, <1>5, <1>6, <1>7, <1>8 DEF Next, Reader, FwRead

-----------------------------------------------------------------------------
(* No result is unexpected                                                 *)

LEMMA NoDesyncStep ==
  ASSUME TypeOK, TokenLife, InOrder, Decided, Covered, NoDesync, [Next]_vars
  PROVE  NoDesync'
<1>. USE DEF callVars, tokenVars, pendVars, clearVars, handVars, ackVars, linkVars
<1>1. CASE ExtraReply
  <2>1. Arrived({"plan"}) /\ Absorbance = 0 /\ q = <<>> /\ ~linkDead /\ UNCHANGED <<serial, phase>>
    BY <1>1 DEF ExtraReply, Arrived
  <2>2. Head(up).req \in Due
    BY <2>1, ResultTaken
  <2>3. serial \notin Elems(q) /\ Len(q) = 0
    BY <2>1, EmptySeq DEF Elems
  <2>4. Cardinality(Due) = 0 /\ IsFiniteSet(Due)
    BY <2>1, <2>3, CoveredParts
  <2>. QED  BY <2>2, <2>4, FS_EmptySet
<1>2. ASSUME NEW r \in Requests, Register(r) \/ Caller(r)  PROVE errors' \in {FALSE, errors}
  BY <1>2 DEF Register, Caller, Write, WriteFails, WriteRefused, TakeAck, RememberErr, Rejected,
              AbandonAckWait, WaitLost, WaitReply, Unclaim, WaitExpired, WaitLinkDown, GiveUp
<1>3. ASSUME NEW c \in Clearers, Clearer(c)  PROVE errors' \in {FALSE, errors}
  BY <1>3 DEF Clearer, ClearPending, FailSwept, WriteClear
<1>4. CASE \/ PollCart \/ StrayError \/ ReadAnswer \/ AbsorbReply \/ PairReply \/ Resolve \/ ReaderDies
           \/ FwRead \/ FwReply \/ LoseFrame \/ Tick \/ UNCHANGED vars
  <2>1. errors' \in {FALSE, errors}
    BY <1>4 DEF PollCart, StrayError, ReadAnswer, AbsorbReply, PairReply, Resolve, ReaderDies,
                FwRead, FwAccept, FwRefuse, FwClear, FwReply, LoseFrame, Tick, vars
  <2>. QED  BY <2>1 DEF NoDesync
<1>. QED  BY <1>1, <1>2, <1>3, <1>4 DEF Next, Reader, NoDesync

-----------------------------------------------------------------------------
(* A token takes its own result                                            *)

LEMMA PairedStays ==
  ASSUME TypeOK, Paired, UNCHANGED <<handTok, handPlan, reply>>,
         serial' \in {serial, NoRequest},
         \A x \in Requests : fate[x] = "accepted" => fate'[x] = "accepted",
         \A x \in Requests : phase'[x] = "ok" => phase[x] = "ok"
  PROVE  Paired'
<1>1. handTok' # NoRequest => reply'[handTok'] = NoRequest
  BY DEF Paired
<1>2. handTok' \in Requests /\ handTok' = serial' => handPlan' = serial' /\ fate'[serial'] = "accepted"
  BY CartAssumption DEF Paired
<1>3. serial' \in Requests /\ reply'[serial'] # NoRequest
         => reply'[serial'] = serial' /\ fate'[serial'] = "accepted"
  BY CartAssumption DEF Paired
<1>4. \A r \in Requests : phase'[r] = "ok" => reply'[r] = r
  BY DEF Paired
<1>. QED  BY <1>1, <1>2, <1>3, <1>4 DEF Paired

LEMMA PairedCall ==
  ASSUME TypeOK, TokenLife, Decided, Paired, NEW r \in Requests, Caller(r)
  PROVE  Paired'
<1>. USE DEF callVars, tokenVars, pendVars, clearVars, handVars, ackVars, linkVars
<1>1. CASE Write(r)
  <2>1. /\ UNCHANGED <<handTok, handPlan, reply, serial>>
        /\ phase' = [phase EXCEPT ![r] = "ackwait"] /\ fate' = [fate EXCEPT ![r] = "sent"]
        /\ phase[r] = "registered"
    BY <1>1 DEF Write
  <2>2. \A x \in Requests : fate[x] = "accepted" => fate'[x] = "accepted"
    BY <2>1 DEF Decided, TypeOK
  <2>3. \A x \in Requests : phase'[x] = "ok" => phase[x] = "ok"
    BY <2>1 DEF TypeOK
  <2>. QED  BY <2>1, <2>2, <2>3, PairedStays
<1>2. CASE Unclaim(r)
  <2>1. /\ UNCHANGED <<handTok, handPlan, reply, fate>> /\ serial' = NoRequest
        /\ phase' = [phase EXCEPT ![r] = "ok"] /\ phase[r] = "replied"
    BY <1>2 DEF Unclaim, Return
  <2>2. reply[r] = r
    BY <2>1 DEF TokenLife, Inside, Paired
  <2>. QED  BY <2>1, <2>2, CartAssumption DEF Paired, TypeOK
<1>3. CASE ~Write(r) /\ ~Unclaim(r)
  <2>1. /\ UNCHANGED <<handTok, handPlan, reply, fate>> /\ serial' \in {serial, NoRequest}
        /\ \/ phase' = phase
           \/ \E p \in Phases \ {"ok"} : phase' = [phase EXCEPT ![r] = p]
    BY <1>3 DEF Caller, WriteFails, WriteRefused, TakeAck, RememberErr, Rejected, AbandonAckWait,
                WaitLost, WaitReply, WaitExpired, WaitLinkDown, GiveUp, Return, Phases, Inside, Ended
  <2>2. \A x \in Requests : phase'[x] = "ok" => phase[x] = "ok"
    BY <2>1 DEF TypeOK
  <2>. QED  BY <2>1, <2>2, PairedStays
<1>. QED  BY <1>1, <1>2, <1>3

LEMMA PairedStep ==
  ASSUME TypeOK, TokenLife, InOrder, Decided, HolderIsLast, Covered, Paired, [Next]_vars
  PROVE  Paired'
<1>. USE DEF callVars, tokenVars, pendVars, clearVars, handVars, ackVars, linkVars
<1>1. ASSUME NEW r \in Requests, Register(r)  PROVE Paired'
  <2>1. /\ UNCHANGED <<handTok, handPlan>> /\ serial' = r /\ r # handTok
        /\ reply' = [reply EXCEPT ![r] = NoRequest] /\ phase' = [phase EXCEPT ![r] = "registered"]
    BY <1>1 DEF Register, Fresh
  <2>2. \A x \in Requests : x # r => reply'[x] = reply[x] /\ phase'[x] = phase[x]
    BY <2>1 DEF TypeOK
  <2>3. reply'[r] = NoRequest /\ phase'[r] = "registered"
    BY <2>1 DEF TypeOK
  <2>. QED  BY <2>1, <2>2, <2>3 DEF Paired, TypeOK
<1>2. ASSUME NEW r \in Requests, Caller(r)  PROVE Paired'
  BY <1>2, PairedCall
<1>3. ASSUME NEW c \in Clearers, Clearer(c)  PROVE Paired'
  <2>1. UNCHANGED <<handTok, handPlan, reply, serial, phase, fate>>
    BY <1>3 DEF Clearer, ClearPending, FailSwept, WriteClear
  <2>. QED  BY <2>1, PairedStays
<1>4. CASE PairReply
  <2>1. /\ UNCHANGED <<reply, serial, phase, fate>> /\ Arrived({"plan"}) /\ ~linkDead /\ q # <<>>
        /\ handTok' = Head(q) /\ handPlan' = Head(up).req
    BY <1>4 DEF PairReply, Arrived
  <2>2. Head(q) \in Elems(q) /\ Head(q) \in Requests
    BY <2>1, TailElems DEF TypeOK
  <2>3. reply[Head(q)] = NoRequest
    BY <2>2 DEF TokenLife, Done
  <2>4. Head(q) = serial => Head(up).req = serial
    BY <1>4, <2>1, PairsRight
  <2>5. fate[Head(up).req] = "accepted"
    BY <2>1, ResultTaken
  <2>. QED  BY <2>1, <2>2, <2>3, <2>4, <2>5 DEF Paired
<1>5. CASE Resolve
  <2>1. /\ UNCHANGED <<serial, phase, fate>> /\ handTok \in Requests /\ reply[handTok] = NoRequest
        /\ reply' = [reply EXCEPT ![handTok] = handPlan] /\ handTok' = NoRequest
    BY <1>5 DEF Resolve, TypeOK, Paired
  <2>2. \A x \in Requests : x # handTok => reply'[x] = reply[x]
    BY <2>1 DEF TypeOK
  <2>3. reply'[handTok] = handPlan
    BY <2>1 DEF TypeOK
  <2>4. phase[handTok] # "ok"
    BY <2>1, CartAssumption DEF Paired
  <2>. QED  BY <2>1, <2>2, <2>3, <2>4, CartAssumption DEF Paired
<1>6. CASE FwAccept \/ FwRefuse
  <2>. DEFINE h == Head(down)
  <2>1. /\ h \in Requests /\ h \in Commands /\ UNCHANGED <<handTok, handPlan, reply, serial, phase>>
        /\ \A x \in Requests : x # h => fate'[x] = fate[x]
    BY <1>6, TakenCommand DEF FwAccept, FwRefuse, TypeOK
  <2>2. fate[h] = "sent"
    BY <2>1 DEF Decided
  <2>. QED  BY <2>1, <2>2, PairedStays
<1>7. CASE \/ PollCart \/ StrayError \/ ReadAnswer \/ AbsorbReply \/ ExtraReply \/ ReaderDies
           \/ FwClear \/ FwReply \/ LoseFrame \/ Tick \/ UNCHANGED vars
  <2>1. UNCHANGED <<reply, serial, phase, fate>>
    BY <1>7 DEF PollCart, StrayError, ReadAnswer, AbsorbReply, ExtraReply, ReaderDies, Arrived,
                FwClear, FwReply, LoseFrame, Tick, vars
  <2>2. UNCHANGED <<handTok, handPlan>>
    BY <1>7 DEF PollCart, StrayError, ReadAnswer, AbsorbReply, ExtraReply, ReaderDies, Arrived,
                FwClear, FwReply, LoseFrame, Tick, vars
  <2>. QED  BY <2>1, <2>2, PairedStays
<1>. QED  BY <1>1, <1>2, <1>3, <1>4, <1>5, <1>6, <1>7 DEF Next, Reader, FwRead

-----------------------------------------------------------------------------
(* What follows                                                            *)

LEMMA PairingInit == Init => HolderIsLast /\ InOrder /\ Decided /\ AnswerOnItsWay /\ AnswerTaken
                             /\ Clocked /\ Paired /\ Covered /\ NoDesync
<1>. SUFFICES ASSUME Init
              PROVE  HolderIsLast /\ InOrder /\ Decided /\ AnswerOnItsWay /\ AnswerTaken
                     /\ Clocked /\ Paired /\ Covered /\ NoDesync
  OBVIOUS
<1>1. /\ Elems(q) = {} /\ Elems(down) = {} /\ Elems(owed) = {}
      /\ Len(q) = 0 /\ Len(down) = 0 /\ Len(owed) = 0 /\ Len(up) = 0
  BY EmptySeq DEF Init, Elems
<1>2. \A K : UpReqs(K) = {}
  BY <1>1 DEF UpReqs
<1>3. PlanDue = {} /\ AnswerDue = {} /\ Commands = {} /\ Results = {}
  BY <1>1, <1>2 DEF PlanDue, AnswerDue, Commands, Results
<1>4. Due = {} /\ Rivals = {} /\ Young = {} /\ Ahead = 0 /\ Absorbance = 0
  <2>1. Due = {} /\ Ahead = 0 /\ Absorbance = 0
    BY <1>1, <1>3 DEF Init, Due, Ahead, Absorbance
  <2>. QED  BY <2>1 DEF Rivals, Young
<1>5. Covered
  BY <1>4, FS_EmptySet DEF Covered
<1>6. InOrder
  BY <1>1, <1>3 DEF InOrder, DownInOrder, OwedInOrder, UpInOrder
<1>7. Decided
  BY <1>1, <1>2, <1>3 DEF Decided, Init
<1>8. AnswerOnItsWay /\ AnswerTaken
  BY <1>1, <1>2, <1>3 DEF AnswerOnItsWay, AnswerTaken, Init
<1>9. Clocked /\ HolderIsLast /\ NoDesync
  BY <1>1, <1>3 DEF Clocked, HolderIsLast, NoDesync, Init
<1>10. Paired
  BY CartAssumption DEF Paired, Init
<1>. QED  BY <1>5, <1>6, <1>7, <1>8, <1>9, <1>10

\* The part of PairingInv that is not in the theorems of CartPairing_proofs.
PairingPart == /\ NoDesync /\ HolderIsLast /\ InOrder /\ Decided /\ AnswerOnItsWay /\ AnswerTaken
               /\ Clocked /\ Paired /\ Covered

(* The inductive invariant: under the nominal timing the line, the clocks,  *)
(* the answers and the budget are related as PairingInv says.               *)
THEOREM PairingHolds == Nominal /\ Spec => []PairingInv
<1>1. Nominal /\ Init => Nominal /\ PairingPart
  BY PairingInit DEF PairingPart
<1>2. TypeOK /\ TokenLife /\ (Nominal /\ PairingPart) /\ [Next]_vars => (Nominal /\ PairingPart)'
  <2>. SUFFICES ASSUME TypeOK, TokenLife, Nominal, PairingPart, [Next]_vars
                PROVE  Nominal' /\ PairingPart'
    OBVIOUS
  <2>0. Nominal'
    BY DEF Nominal
  <2>1. NoDesync' /\ HolderIsLast' /\ InOrder'
    BY NoDesyncStep, HolderStep, OrderStep DEF PairingPart
  <2>2. Decided' /\ AnswerOnItsWay' /\ AnswerTaken'
    BY DecidedStep, AnswerStep, TakenStep DEF PairingPart
  <2>3. Clocked' /\ Paired' /\ Covered'
    BY ClockedStep, PairedStep, CoveredStep DEF PairingPart
  <2>. QED  BY <2>0, <2>1, <2>2, <2>3 DEF PairingPart
<1>3. TypeOK /\ TokenLife /\ PairingPart => PairingInv
  BY DEF PairingPart, PairingInv
<1>. QED  BY <1>1, <1>2, <1>3, TypeCorrect, TokenLifeHolds, PTL DEF Spec

(* A plan result is never handed to another call than the one it answers,   *)
(* whatever is lost, refused, cleared, abandoned or late to be read: what   *)
(* on_reply, clear_pending and drop_and_absorb are for.                     *)
THEOREM NoFalseSuccessHolds == Nominal /\ Spec => []NoFalseSuccess
<1>1. PairingInv => NoFalseSuccess
  BY CartAssumption DEF PairingInv, Paired, TokenLife, Inside, NoFalseSuccess
<1>. QED  BY <1>1, PairingHolds, PTL

(* on_reply never meets a result for which no token and no budget is left.  *)
THEOREM NoDesyncHolds == Nominal /\ Spec => []NoDesync
<1>1. PairingInv => NoDesync
  BY DEF PairingInv
<1>. QED  BY <1>1, PairingHolds, PTL

(* A call that reported CommandRejectedError was refused by the firmware.   *)
THEOREM RejectedNeverRunsHolds == Nominal /\ Spec => []RejectedNeverRuns
<1>1. PairingInv => RejectedNeverRuns
  BY DEF PairingInv, Decided, RejectedNeverRuns
<1>. QED  BY <1>1, PairingHolds, PTL

-----------------------------------------------------------------------------
(* CartPairing implements CartPromise                                      *)

LEMMA OutcomeOf ==
  ASSUME NEW r \in Requests
  PROVE  /\ phase[r] \in Inside => Outcome(r) = "open"
         /\ phase[r] = "idle" => Outcome(r) = "idle"
         /\ phase[r] = "ok" => Outcome(r) = IF reply[r] = r THEN "ok" ELSE "false success"
         /\ phase[r] \in {"rejected", "unsent"} => Outcome(r) = phase[r]
         /\ phase[r] \in {"unknown", "linkdown", "abandoned"} => Outcome(r) = "unknown"
BY DEF Outcome, Inside

LEMMA OutcomeNext ==
  ASSUME NEW r \in Requests
  PROVE  /\ phase'[r] \in Inside => Outcome(r)' = "open"
         /\ phase'[r] = "idle" => Outcome(r)' = "idle"
         /\ phase'[r] = "ok" => Outcome(r)' = IF reply'[r] = r THEN "ok" ELSE "false success"
         /\ phase'[r] \in {"rejected", "unsent"} => Outcome(r)' = phase'[r]
         /\ phase'[r] \in {"unknown", "linkdown", "abandoned"} => Outcome(r)' = "unknown"
BY DEF Outcome, Inside

LEMMA OutcomeSame ==
  ASSUME TypeOK, NEW x \in Requests, phase'[x] = phase[x],
         phase[x] = "ok" => reply'[x] = reply[x]
  PROVE  Outcome(x)' = Outcome(x)
<1>1. phase[x] \in Phases
  BY DEF TypeOK
<1>2. CASE phase[x] \in Inside
  <2>1. Outcome(x) = "open" /\ Outcome(x)' = "open"
    BY <1>2, OutcomeOf, OutcomeNext
  <2>. QED  BY <2>1
<1>3. CASE phase[x] = "idle"
  BY <1>3, OutcomeOf, OutcomeNext
<1>4. CASE phase[x] = "ok"
  BY <1>4, OutcomeOf, OutcomeNext
<1>5. CASE phase[x] \in {"rejected", "unsent"}
  BY <1>5, OutcomeOf, OutcomeNext
<1>6. CASE phase[x] \in {"unknown", "linkdown", "abandoned"}
  BY <1>6, OutcomeOf, OutcomeNext
<1>. QED  BY <1>1, <1>2, <1>3, <1>4, <1>5, <1>6 DEF Phases, Ended

\* What the callers know, as a function.
Known == [r \in Requests |-> Outcome(r)]

LEMMA KnownStays ==
  ASSUME TypeOK,
         \A x \in Requests : \/ phase'[x] = phase[x] /\ (phase[x] = "ok" => reply'[x] = reply[x])
                             \/ phase[x] \in Inside /\ phase'[x] \in Inside
  PROVE  Known' = Known
<1>. SUFFICES ASSUME NEW x \in Requests  PROVE Outcome(x)' = Outcome(x)
  BY DEF Known
<1>1. CASE phase[x] \in Inside /\ phase'[x] \in Inside
  <2>1. Outcome(x) = "open" /\ Outcome(x)' = "open"
    BY <1>1, OutcomeOf, OutcomeNext
  <2>. QED  BY <2>1
<1>2. CASE phase'[x] = phase[x] /\ (phase[x] = "ok" => reply'[x] = reply[x])
  BY <1>2, OutcomeSame
<1>. QED  BY <1>1, <1>2

LEMMA KnownReturns ==
  ASSUME TypeOK, NEW r \in Requests, phase[r] \in Inside, NEW p \in Ended,
         phase' = [phase EXCEPT ![r] = p], reply' = reply, fate' = fate,
         p = "ok" => reply[r] = r /\ fate[r] = "accepted",
         p = "rejected" => fate[r] = "refused",
         p = "unsent" => fate[r] = "none"
  PROVE  Promise!Close(r)
<1>. DEFINE o == IF p \in {"ok", "rejected", "unsent"} THEN p ELSE "unknown"
<1>1. Outcome(r)' = o /\ Outcome(r) = "open"
  <2>1. phase'[r] = p
    BY DEF TypeOK
  <2>. QED  BY <2>1, OutcomeOf, OutcomeNext DEF Ended
<1>2. \A x \in Requests : x # r => Outcome(x)' = Outcome(x)
  <2>. SUFFICES ASSUME NEW x \in Requests, x # r  PROVE Outcome(x)' = Outcome(x)
    OBVIOUS
  <2>1. phase'[x] = phase[x] /\ reply'[x] = reply[x]
    BY DEF TypeOK
  <2>. QED  BY <2>1, OutcomeSame
<1>3. Known' = [Known EXCEPT ![r] = o] /\ Known[r] = "open"
  BY <1>1, <1>2 DEF Known
<1>4. /\ o \in {"ok", "rejected", "unsent", "unknown"}
      /\ o = "ok" => fate[r] = "accepted"
      /\ o = "rejected" => fate[r] = "refused"
      /\ o = "unsent" => fate[r] = "none"
  BY DEF Ended
<1>. QED  BY <1>3, <1>4 DEF Promise!Close, Known

LEMMA CallKeepsPromise ==
  ASSUME PairingInv, NEW r \in Requests, Caller(r)
  PROVE  [Promise!Next]_<<Known, fate>>
<1>. USE DEF callVars, tokenVars, pendVars, clearVars, handVars, ackVars, linkVars
<1>0. TypeOK /\ TokenLife /\ Decided /\ AnswerTaken /\ Paired
  BY DEF PairingInv
<1>1. CASE Write(r)
  <2>1. /\ phase[r] = "registered" /\ phase' = [phase EXCEPT ![r] = "ackwait"]
        /\ fate' = [fate EXCEPT ![r] = "sent"] /\ reply' = reply
    BY <1>1 DEF Write
  <2>2. Known' = Known
    BY <1>0, <2>1, KnownStays DEF TypeOK, Inside
  <2>3. fate[r] = "none" /\ Known[r] = "open"
    BY <1>0, <2>1, OutcomeOf DEF Decided, Known, Inside
  <2>. QED  BY <2>1, <2>2, <2>3 DEF Promise!Next, Promise!Send, Known
<1>2. CASE TakeAck(r) \/ RememberErr(r) \/ WaitReply(r) \/ WaitExpired(r) \/ WaitLinkDown(r)
  <2>1. /\ fate' = fate /\ reply' = reply /\ phase[r] \in Inside
        /\ phase' = phase \/ \E p \in Inside : phase' = [phase EXCEPT ![r] = p]
    BY <1>2 DEF TakeAck, RememberErr, WaitReply, WaitExpired, WaitLinkDown, Inside
  <2>2. Known' = Known
    BY <1>0, <2>1, KnownStays DEF TypeOK
  <2>. QED  BY <2>1, <2>2
<1>3. CASE WriteRefused(r) \/ AbandonAckWait(r) \/ WaitLost(r) \/ GiveUp(r)
  <2>1. /\ fate' = fate /\ reply' = reply /\ phase[r] \in Inside
        /\ \E p \in {"abandoned", "unknown", "linkdown"} : phase' = [phase EXCEPT ![r] = p]
    BY <1>3 DEF WriteRefused, AbandonAckWait, WaitLost, GiveUp, Return, Inside
  <2>2. Promise!Close(r)
    BY <1>0, <2>1, KnownReturns DEF Ended
  <2>. QED  BY <2>2 DEF Promise!Next
<1>4. CASE WriteFails(r)
  <2>1. /\ fate' = fate /\ reply' = reply /\ phase[r] = "registered"
        /\ phase' = [phase EXCEPT ![r] = "unsent"]
    BY <1>4 DEF WriteFails, Return
  <2>2. fate[r] = "none"
    BY <1>0, <2>1 DEF Decided
  <2>3. Promise!Close(r)
    BY <1>0, <2>1, <2>2, KnownReturns DEF Ended, Inside
  <2>. QED  BY <2>3 DEF Promise!Next
<1>5. CASE Rejected(r)
  <2>1. /\ fate' = fate /\ reply' = reply /\ phase[r] = "ackwait"
        /\ phase' = [phase EXCEPT ![r] = "rejected"]
    BY <1>5 DEF Rejected, Return
  <2>2. fate[r] = "refused"
    BY <1>0, <1>5 DEF Rejected, AnswerTaken
  <2>3. Promise!Close(r)
    BY <1>0, <2>1, <2>2, KnownReturns DEF Ended, Inside
  <2>. QED  BY <2>3 DEF Promise!Next
<1>6. CASE Unclaim(r)
  <2>1. /\ fate' = fate /\ reply' = reply /\ phase[r] = "replied"
        /\ phase' = [phase EXCEPT ![r] = "ok"]
    BY <1>6 DEF Unclaim, Return
  <2>2. reply[r] = r /\ fate[r] = "accepted"
    BY <1>0, <2>1 DEF TokenLife, Inside, Paired
  <2>3. Promise!Close(r)
    BY <1>0, <2>1, <2>2, KnownReturns DEF Ended, Inside
  <2>. QED  BY <2>3 DEF Promise!Next
<1>. QED  BY <1>1, <1>2, <1>3, <1>4, <1>5, <1>6 DEF Caller

LEMMA FirmwareKeepsPromise ==
  ASSUME PairingInv, FwAccept \/ FwRefuse
  PROVE  [Promise!Next]_<<Known, fate>>
<1>. USE DEF callVars, tokenVars
<1>. DEFINE h == Head(down)
<1>0. TypeOK /\ Decided
  BY DEF PairingInv
<1>1. /\ h \in Requests /\ h \in Commands /\ UNCHANGED <<phase, reply>>
      /\ \E d \in {"accepted", "refused"} : fate' = [fate EXCEPT ![h] = d]
  BY <1>0, TakenCommand DEF FwAccept, FwRefuse
<1>2. fate[h] = "sent"
  BY <1>0, <1>1 DEF Decided
<1>3. Known' = Known
  BY <1>0, <1>1, KnownStays
<1>. QED  BY <1>1, <1>2, <1>3 DEF Promise!Next, Promise!Decide, Known

LEMMA StepKeepsPromise ==
  ASSUME PairingInv, [Next]_vars
  PROVE  [Promise!Next]_<<Known, fate>>
<1>. USE DEF callVars, tokenVars, pendVars, clearVars, handVars, ackVars, linkVars
<1>0. TypeOK /\ TokenLife /\ Paired
  BY DEF PairingInv
<1>1. ASSUME NEW r \in Requests, Register(r)  PROVE [Promise!Next]_<<Known, fate>>
  <2>1. /\ phase[r] \in {"idle"} \cup Ended /\ phase' = [phase EXCEPT ![r] = "registered"]
        /\ reply' = [reply EXCEPT ![r] = NoRequest] /\ fate' = [fate EXCEPT ![r] = "none"]
    BY <1>1 DEF Register, Fresh
  <2>2. Outcome(r) # "open" /\ Outcome(r)' = "open"
    <3>1. phase'[r] = "registered"
      BY <1>0, <2>1 DEF TypeOK
    <3>. QED  BY <2>1, <3>1, OutcomeOf, OutcomeNext DEF Inside, Ended
  <2>3. \A x \in Requests : x # r => Outcome(x)' = Outcome(x)
    <3>. SUFFICES ASSUME NEW x \in Requests, x # r  PROVE Outcome(x)' = Outcome(x)
      OBVIOUS
    <3>1. phase'[x] = phase[x] /\ reply'[x] = reply[x]
      BY <1>0, <2>1 DEF TypeOK
    <3>. QED  BY <1>0, <3>1, OutcomeSame
  <2>4. Known' = [Known EXCEPT ![r] = "open"] /\ Known[r] # "open"
    BY <2>2, <2>3 DEF Known
  <2>. QED  BY <2>1, <2>4 DEF Promise!Next, Promise!Ask, Known
<1>2. ASSUME NEW r \in Requests, Caller(r)  PROVE [Promise!Next]_<<Known, fate>>
  BY <1>2, CallKeepsPromise
<1>3. ASSUME NEW c \in Clearers, Clearer(c)  PROVE [Promise!Next]_<<Known, fate>>
  <2>1. UNCHANGED <<phase, reply, fate>>
    BY <1>3 DEF Clearer, ClearPending, FailSwept, WriteClear
  <2>. QED  BY <1>0, <2>1, KnownStays
<1>4. CASE Resolve
  <2>1. /\ UNCHANGED <<phase, fate>> /\ handTok \in Requests /\ reply[handTok] = NoRequest
        /\ reply' = [reply EXCEPT ![handTok] = handPlan]
    BY <1>0, <1>4 DEF Resolve, TypeOK, Paired
  <2>2. \A x \in Requests : x # handTok => reply'[x] = reply[x]
    BY <1>0, <2>1 DEF TypeOK
  <2>3. phase[handTok] # "ok"
    BY <1>0, <2>1, CartAssumption DEF Paired
  <2>4. Known' = Known
    BY <1>0, <2>1, <2>2, <2>3, KnownStays
  <2>. QED  BY <2>1, <2>4
<1>5. CASE FwAccept \/ FwRefuse
  BY <1>5, FirmwareKeepsPromise
<1>6. CASE \/ PollCart \/ StrayError \/ ReadAnswer \/ AbsorbReply \/ ExtraReply \/ PairReply
           \/ ReaderDies \/ FwClear \/ FwReply \/ LoseFrame \/ Tick \/ UNCHANGED vars
  <2>1. UNCHANGED <<phase, reply, fate>>
    BY <1>6 DEF PollCart, StrayError, ReadAnswer, AbsorbReply, ExtraReply, PairReply, ReaderDies,
                Arrived, FwClear, FwReply, LoseFrame, Tick, vars
  <2>. QED  BY <1>0, <2>1, KnownStays
<1>. QED  BY <1>1, <1>2, <1>3, <1>4, <1>5, <1>6 DEF Next, Reader, FwRead

(* Under the nominal timing the pairing keeps what CartPromise promises:    *)
(* "ok" only with the request's own result, "rejected" only when it will    *)
(* never run, "unsent" only when the firmware will never see it.            *)
THEOREM Refinement == Nominal /\ Spec => KeepsPromise
<1>1. Init => Promise!Init
  <2>. SUFFICES ASSUME Init  PROVE Promise!Init
    OBVIOUS
  <2>1. \A r \in Requests : Outcome(r) = "idle"
    BY OutcomeOf DEF Init
  <2>. QED  BY <2>1 DEF Init, Promise!Init
<1>2. PairingInv /\ [Next]_vars => [Promise!Next]_<<[r \in Requests |-> Outcome(r)], fate>>
  BY StepKeepsPromise DEF Known
<1>. QED  BY <1>1, <1>2, PairingHolds, PTL DEF Spec, KeepsPromise, Promise!Spec
=============================================================================
