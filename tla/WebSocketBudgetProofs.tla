------------------------- MODULE WebSocketBudgetProofs -------------------------
(***************************************************************************)
(* The safety properties of WebSocketBudget for any set of sockets and any *)
(* limit, and that the budget implements the abstract line with slots.     *)
(***************************************************************************)
EXTENDS WebSocketBudget, FiniteSetTheorems, SequenceTheorems, TLAPS

(***************************************************************************)
(* Lines without repetition.                                               *)
(***************************************************************************)
(* The head of a line leaves it: nobody else does, and nobody moves twice. *)
LEMMA TailOfLine ==
  ASSUME NEW S, NEW q \in Seq(S), q # <<>>, Distinct(q)
  PROVE  /\ Tail(q) \in Seq(S)
         /\ Head(q) \in S
         /\ Head(q) \in ToSet(q)
         /\ ToSet(Tail(q)) = ToSet(q) \ {Head(q)}
         /\ Distinct(Tail(q))
<1>1. /\ Tail(q) \in Seq(S) /\ Head(q) = q[1] /\ Len(q) \in Nat \ {0}
      /\ Len(Tail(q)) = Len(q) - 1
      /\ \A i \in 1 .. Len(Tail(q)) : Tail(q)[i] = q[i + 1]
  BY HeadTailProperties, EmptySeq, LenProperties
<1>2. DOMAIN q = 1 .. Len(q) /\ DOMAIN Tail(q) = 1 .. Len(q) - 1
  BY <1>1, LenProperties
<1>3. ToSet(Tail(q)) \subseteq ToSet(q) \ {Head(q)}
  BY <1>1, <1>2 DEF ToSet, Distinct
<1>4. ASSUME NEW x \in ToSet(q) \ {Head(q)} PROVE x \in ToSet(Tail(q))
  <2>1. PICK i \in 1 .. Len(q) : x = q[i]
    BY <1>2 DEF ToSet
  <2>2. i # 1
    BY <1>1, <2>1
  <2>3. i - 1 \in 1 .. Len(q) - 1 /\ Tail(q)[i - 1] = q[i]
    BY <1>1, <2>1, <2>2
  <2>4. QED
    BY <1>2, <2>1, <2>3 DEF ToSet
<1>5. Distinct(Tail(q))
  BY <1>1, <1>2 DEF Distinct
<1>6. Head(q) \in S /\ Head(q) \in ToSet(q)
  BY <1>1, <1>2, ElementOfSeq DEF ToSet
<1>7. QED
  BY <1>1, <1>3, <1>4, <1>5, <1>6

(* A newcomer takes the last place of the line.                            *)
LEMMA AppendToLine ==
  ASSUME NEW S, NEW q \in Seq(S), NEW s \in S, s \notin ToSet(q), Distinct(q)
  PROVE  /\ Append(q, s) \in Seq(S)
         /\ ToSet(Append(q, s)) = ToSet(q) \cup {s}
         /\ Distinct(Append(q, s))
<1>1. /\ Append(q, s) \in Seq(S) /\ Len(q) \in Nat
      /\ Len(Append(q, s)) = Len(q) + 1
      /\ \A i \in 1 .. Len(q) : Append(q, s)[i] = q[i]
      /\ Append(q, s)[Len(q) + 1] = s
  BY AppendProperties, LenProperties
<1>2. DOMAIN q = 1 .. Len(q) /\ DOMAIN Append(q, s) = 1 .. Len(q) + 1
  BY <1>1, LenProperties
<1>3. ToSet(Append(q, s)) = ToSet(q) \cup {s}
  <2>1. ToSet(Append(q, s)) \subseteq ToSet(q) \cup {s}
    <3>1. ASSUME NEW i \in 1 .. Len(q) + 1 PROVE Append(q, s)[i] \in ToSet(q) \cup {s}
      <4>1. i \in 1 .. Len(q) \/ i = Len(q) + 1
        BY <1>1
      <4>2. QED
        BY <1>1, <1>2, <4>1 DEF ToSet
    <3>2. QED
      BY <1>2, <3>1 DEF ToSet
  <2>2. ToSet(q) \subseteq ToSet(Append(q, s))
    <3>1. \A i \in 1 .. Len(q) : i \in 1 .. Len(q) + 1
      BY <1>1
    <3>2. QED
      BY <1>1, <1>2, <3>1 DEF ToSet
  <2>3. s \in ToSet(Append(q, s))
    <3>1. Len(q) + 1 \in 1 .. Len(q) + 1
      BY <1>1
    <3>2. QED
      BY <1>1, <1>2, <3>1 DEF ToSet
  <2>4. QED
    BY <2>1, <2>2, <2>3
<1>4. Distinct(Append(q, s))
  BY <1>1, <1>2 DEF Distinct, ToSet
<1>5. QED
  BY <1>1, <1>3, <1>4

(* Removing a socket from the line keeps the order of the others: it is    *)
(* the line without one position.                                          *)
LEMMA WithoutFromLine ==
  ASSUME NEW S, NEW q \in Seq(S), NEW s, Distinct(q)
  PROVE  /\ Without(q, s) \in Seq(S)
         /\ ToSet(Without(q, s)) = ToSet(q) \ {s}
         /\ Distinct(Without(q, s))
<1>1. CASE s \notin ToSet(q)
  BY <1>1 DEF Without, ToSet
<1>2. CASE s \in ToSet(q)
  <2> DEFINE n == Len(q)
             p == CHOOSE i \in DOMAIN q : q[i] = s
             a == SubSeq(q, 1, p - 1)
             b == SubSeq(q, p + 1, n)
             r == a \o b
  <2>1. n \in Nat /\ DOMAIN q = 1 .. n
    BY LenProperties
  <2>2. p \in 1 .. n /\ q[p] = s
    BY <1>2, <2>1 DEF ToSet
  <2>3. Without(q, s) = r
    BY <1>2 DEF Without, RemoveAt
  <2> HIDE DEF n, p
  <2>4. a \in Seq(S) /\ Len(a) = p - 1 /\ \A i \in 1 .. p - 1 : a[i] = q[i]
    BY <2>1, <2>2, SubSeqProperties DEF n
  <2>5. b \in Seq(S) /\ Len(b) = n - p /\ \A i \in 1 .. n - p : b[i] = q[p + i]
    <3>1. p + 1 \in 1 .. Len(q) + 1 /\ n \in p .. Len(q)
      BY <2>1, <2>2 DEF n
    <3>2. /\ b \in Seq(S)
          /\ Len(b) = IF p + 1 <= n THEN n - (p + 1) + 1 ELSE 0
          /\ \A i \in 1 .. n - (p + 1) + 1 : b[i] = q[p + 1 + i - 1]
      BY <3>1, SubSeqProperties
    <3>3. n - (p + 1) + 1 = n - p /\ \A i \in 1 .. n - p : p + 1 + i - 1 = p + i
      BY <2>1, <2>2
    <3>4. Len(b) = n - p
      BY <2>1, <2>2, <3>2
    <3>5. QED
      BY <3>2, <3>3, <3>4
  <2> HIDE DEF a, b
  <2>6. /\ r \in Seq(S) /\ Len(r) = n - 1
        /\ \A i \in 1 .. p - 1 : r[i] = q[i]
        /\ \A i \in p .. n - 1 : r[i] = q[i + 1]
    <3>1. /\ r \in Seq(S) /\ Len(r) = Len(a) + Len(b)
          /\ \A i \in 1 .. Len(a) + Len(b) : r[i] = IF i <= Len(a) THEN a[i] ELSE b[i - Len(a)]
      BY <2>4, <2>5, ConcatProperties DEF r
    <3>2. Len(r) = n - 1
      BY <2>1, <2>2, <2>4, <2>5, <3>1
    <3>3. \A i \in 1 .. p - 1 : r[i] = q[i]
      <4>1. ASSUME NEW i \in 1 .. p - 1
            PROVE  i \in 1 .. Len(a) + Len(b) /\ i <= Len(a)
        BY <2>1, <2>2, <2>4, <2>5
      <4>2. QED
        BY <2>4, <3>1, <4>1
    <3>4. ASSUME NEW i \in p .. n - 1 PROVE r[i] = q[i + 1]
      <4>1. i \in 1 .. Len(a) + Len(b) /\ ~(i <= Len(a)) /\ i - Len(a) = i - p + 1
        BY <2>1, <2>2, <2>4, <2>5
      <4>2. i - p + 1 \in 1 .. n - p /\ p + (i - p + 1) = i + 1
        BY <2>1, <2>2
      <4>3. QED
        BY <2>5, <3>1, <4>1, <4>2
    <3>5. QED
      BY <3>1, <3>2, <3>3, <3>4
  <2>7. DOMAIN r = 1 .. n - 1
    BY <2>6, LenProperties
  <2> HIDE DEF r
  <2>8. ASSUME NEW i \in 1 .. n - 1
        PROVE  \E k \in 1 .. n : k # p /\ r[i] = q[k] /\ k = IF i < p THEN i ELSE i + 1
    <3>1. CASE i < p
      BY <2>1, <2>2, <2>6, <3>1
    <3>2. CASE ~(i < p)
      <4>1. i \in p .. n - 1 /\ i + 1 \in 1 .. n /\ i + 1 # p
        BY <2>1, <2>2, <3>2
      <4>2. QED
        BY <2>6, <3>2, <4>1
    <3>3. QED
      BY <3>1, <3>2
  <2>9. ASSUME NEW k \in 1 .. n, k # p
        PROVE  \E i \in 1 .. n - 1 : r[i] = q[k]
    <3>1. CASE k < p
      BY <2>1, <2>2, <2>6, <2>9, <3>1
    <3>2. CASE ~(k < p)
      <4>1. k - 1 \in p .. n - 1 /\ k - 1 \in 1 .. n - 1 /\ (k - 1) + 1 = k
        BY <2>1, <2>2, <2>9, <3>2
      <4>2. QED
        BY <2>6, <4>1
    <3>3. QED
      BY <3>1, <3>2
  <2>10. \A k \in 1 .. n : q[k] = s => k = p
    BY <2>1, <2>2 DEF Distinct
  <2>11. ToSet(r) = ToSet(q) \ {s}
    <3>1. ToSet(r) \subseteq ToSet(q) \ {s}
      BY <2>1, <2>7, <2>8, <2>10 DEF ToSet
    <3>2. ToSet(q) \ {s} \subseteq ToSet(r)
      BY <2>1, <2>2, <2>7, <2>9 DEF ToSet
    <3>3. QED
      BY <3>1, <3>2
  <2>12. Distinct(r)
    <3> SUFFICES ASSUME NEW i \in 1 .. n - 1, NEW j \in 1 .. n - 1, r[i] = r[j]
                 PROVE  i = j
      BY <2>7 DEF Distinct
    <3>1. PICK k \in 1 .. n : r[i] = q[k] /\ k = IF i < p THEN i ELSE i + 1
      BY <2>8
    <3>2. PICK l \in 1 .. n : r[j] = q[l] /\ l = IF j < p THEN j ELSE j + 1
      BY <2>8
    <3>3. k = l
      BY <2>1, <3>1, <3>2 DEF Distinct
    <3>4. QED
      BY <2>1, <2>2, <3>1, <3>2, <3>3
  <2>13. QED
    BY <2>3, <2>6, <2>11, <2>12
<1>3. QED
  BY <1>1, <1>2

(***************************************************************************)
(* The inductive invariant.  The properties of WebSocketBudget say where a *)
(* socket must not be; what makes them inductive is where each one is:     *)
(* the phase of a socket determines the collection that holds it, from the *)
(* moment run() accepts it to the step in which its 'close' listener runs. *)
(***************************************************************************)
Accepted == {"queued", "started", "reentered"}

InPlace(s) ==
  /\ s \in active => phase[s] \in {"started", "reentered"} /\ sock[s] # "gone"
  /\ s \in Waiting => phase[s] = "queued" /\ sock[s] # "gone"
  /\ (~closed /\ sock[s] = "open") =>
        /\ phase[s] = "queued" => s \in Waiting
        /\ phase[s] \in {"started", "reentered"} => s \in active
  /\ (phase[s] = "refused" \/ (closed /\ phase[s] \in Accepted)) => sock[s] # "open"

Slotted ==
  /\ IsFiniteSet(active)
  /\ Cardinality(active) <= Limit

Emptied == closed => active = {} /\ waiting = <<>> /\ ~draining

IInv ==
  /\ TypeOK
  /\ Slotted
  /\ Distinct(waiting)
  /\ \A s \in Sockets : InPlace(s)
  /\ NoIdleSlot
  /\ Emptied

LEMMA InitIInv == Init => IInv
<1> SUFFICES ASSUME Init PROVE IInv
  OBVIOUS
<1>1. Waiting = {} /\ waiting \in Seq(Sockets) /\ Distinct(waiting)
  BY EmptySeq DEF Init, Waiting, ToSet, Distinct
<1>2. TypeOK
  BY <1>1 DEF Init, TypeOK, SockState, PhaseState
<1>3. Slotted
  BY FS_EmptySet, LimitAssumption DEF Init, Slotted
<1>4. \A s \in Sockets : InPlace(s)
  BY <1>1 DEF Init, InPlace, Accepted
<1>5. NoIdleSlot /\ Emptied
  BY DEF Init, NoIdleSlot, Emptied
<1>6. QED
  BY <1>1, <1>2, <1>3, <1>4, <1>5 DEF IInv

(* destroy() changes open sockets only, and only into destroyed ones.      *)
LEMMA DestroyFacts ==
  ASSUME TypeOK, NEW S
  PROVE  /\ Destroy(S) \in [Sockets -> SockState]
         /\ \A s \in Sockets : /\ Destroy(S)[s] = "gone" <=> sock[s] = "gone"
                              /\ Destroy(S)[s] = "open" <=> (sock[s] = "open" /\ s \notin S)
<1>1. ASSUME NEW s \in Sockets
      PROVE  /\ Destroy(S)[s] = IF s \in S /\ sock[s] = "open" THEN "destroyed" ELSE sock[s]
             /\ sock[s] \in SockState
  BY DEF TypeOK, Destroy
<1>2. QED
  BY <1>1 DEF Destroy, SockState

LEMMA RunIInv ==
  ASSUME IInv, NEW s \in Sockets, Run(s)
  PROVE  IInv'
<1> USE DEF IInv
<1>1. CASE RunRefused(s)
  <2>1. TypeOK'
    BY <1>1, DestroyFacts DEF RunRefused, TypeOK, PhaseState
  <2>2. UNCHANGED <<active, waiting, closed, draining>>
    BY <1>1 DEF RunRefused
  <2>3. ASSUME NEW t \in Sockets PROVE InPlace(t)'
    <3>1. Waiting' = Waiting
      BY <2>2 DEF Waiting
    <3>2. /\ sock'[t] = "gone" <=> sock[t] = "gone"
          /\ sock'[t] = "open" <=> (sock[t] = "open" /\ t # s)
      <4>1. sock' = Destroy({s})
        BY <1>1 DEF RunRefused
      <4>2. QED
        BY <4>1 DEF TypeOK, Destroy, SockState
    <3>3. CASE t = s
      <4>1. phase[s] = "new" \/ phase[s] = "started"
        BY <1>1 DEF RunRefused, MayRun
      <4>2. CASE phase[s] = "new"
        <5>1. phase'[s] = "refused"
          BY <1>1, <4>2 DEF RunRefused, TypeOK
        <5>2. s \notin active /\ s \notin Waiting
          BY <4>2 DEF InPlace
        <5>3. QED
          BY <2>2, <3>1, <3>2, <3>3, <5>1, <5>2 DEF InPlace
      <4>3. CASE phase[s] = "started"
        <5>1. phase'[s] = "reentered"
          BY <1>1, <4>3 DEF RunRefused, TypeOK
        <5>2. InPlace(s)
          OBVIOUS
        <5>3. QED
          BY <2>2, <3>1, <3>2, <3>3, <4>3, <5>1, <5>2 DEF InPlace, Accepted
      <4>4. QED
        BY <4>1, <4>2, <4>3
    <3>4. CASE t # s
      <4>1. phase'[t] = phase[t]
        BY <1>1, <3>4 DEF RunRefused, TypeOK
      <4>2. QED
        BY <2>2, <3>1, <3>2, <3>4, <4>1 DEF InPlace
    <3>5. QED
      BY <3>3, <3>4
  <2>4. QED
    BY <2>1, <2>2, <2>3 DEF Slotted, NoIdleSlot, HasRoom, Emptied
<1>2. CASE RunReentrant(s)
  <2>1. TypeOK'
    BY <1>2 DEF RunReentrant, TypeOK, PhaseState
  <2>2. UNCHANGED <<active, waiting, closed, draining, sock>>
    BY <1>2 DEF RunReentrant
  <2>3. ASSUME NEW t \in Sockets PROVE InPlace(t)'
    BY <1>2, <2>2 DEF RunReentrant, MayRun, InPlace, TypeOK, Waiting, Accepted
  <2>4. QED
    BY <2>1, <2>2, <2>3 DEF Slotted, NoIdleSlot, HasRoom, Emptied
<1>3. CASE RunQueued(s)
  <2>1. s \notin Waiting /\ phase[s] = "new"
    BY <1>3 DEF RunQueued, MayRun, InPlace, Accepted
  <2>2. waiting' = Append(waiting, s)
    BY <1>3, <2>1 DEF RunQueued
  <2>3. waiting' \in Seq(Sockets) /\ Waiting' = Waiting \cup {s} /\ Distinct(waiting')
    BY <2>1, <2>2, AppendToLine DEF Waiting, TypeOK
  <2>4. TypeOK'
    BY <1>3, <2>3 DEF RunQueued, TypeOK, PhaseState
  <2>5. ASSUME NEW t \in Sockets PROVE InPlace(t)'
    BY <1>3, <2>1, <2>3 DEF RunQueued, InPlace, TypeOK, Accepted
  <2>6. QED
    BY <1>3, <2>3, <2>4, <2>5 DEF RunQueued, Slotted, NoIdleSlot, Emptied
<1>4. QED
  BY <1>1, <1>2, <1>3 DEF Run

LEMMA DrainIInv ==
  ASSUME IInv, Drain
  PROVE  IInv'
<1> USE DEF IInv
<1> DEFINE h == Head(waiting)
<1>0. ASSUME waiting # <<>>
      PROVE  /\ Tail(waiting) \in Seq(Sockets) /\ h \in Sockets /\ h \in Waiting
             /\ ToSet(Tail(waiting)) = Waiting \ {h} /\ Distinct(Tail(waiting))
  BY <1>0, TailOfLine DEF Waiting, TypeOK
<1> HIDE DEF h
<1>1. CASE DrainSkip
  <2>1. waiting' = Tail(waiting) /\ waiting # <<>> /\ UNCHANGED <<active, closed, draining, sock, phase>>
    BY <1>1 DEF DrainSkip
  <2>2. TypeOK' /\ Distinct(waiting')
    BY <1>0, <2>1 DEF TypeOK
  <2>3. Waiting' = Waiting \ {h} /\ sock[h] # "open"
    BY <1>0, <1>1, <2>1 DEF Waiting, DrainSkip, h
  <2>4. ASSUME NEW t \in Sockets PROVE InPlace(t)'
    BY <2>1, <2>3 DEF InPlace
  <2>5. NoIdleSlot' /\ Emptied'
    BY <1>1, <2>1 DEF DrainSkip, NoIdleSlot, Emptied
  <2>6. QED
    BY <2>1, <2>2, <2>4, <2>5 DEF Slotted
<1>2. CASE DrainStart
  <2>1. /\ waiting' = Tail(waiting) /\ waiting # <<>> /\ draining
        /\ active' = active \cup {h} /\ UNCHANGED <<closed, draining>>
        /\ phase' = [phase EXCEPT ![h] = "started"]
        /\ sock' \in {sock, Destroy({h})} /\ HasRoom
    BY <1>2 DEF DrainStart, h
  <2>2. h \in Sockets /\ h \in Waiting
    BY <1>0, <2>1
  <2>3. sock' \in [Sockets -> SockState]
    BY <2>1 DEF TypeOK, Destroy, SockState
  <2>4. TypeOK' /\ Distinct(waiting')
    BY <1>0, <2>1, <2>2, <2>3 DEF TypeOK, PhaseState
  <2>5. Waiting' = Waiting \ {h}
    BY <1>0, <2>1 DEF Waiting
  <2>6. h \notin active
    BY <2>2 DEF InPlace
  <2>7. Slotted'
    <3>1. IsFiniteSet(active') /\ Cardinality(active') = Cardinality(active) + 1
      BY <2>1, <2>6, FS_AddElement DEF Slotted
    <3>2. Cardinality(active) \in Nat /\ Cardinality(active) < Limit
      BY <2>1, FS_CardinalityType DEF Slotted, HasRoom
    <3>3. QED
      BY <3>1, <3>2, LimitAssumption DEF Slotted
  <2>8. ASSUME NEW t \in Sockets
        PROVE  /\ sock'[t] = "gone" <=> sock[t] = "gone"
               /\ sock'[t] = "open" => sock[t] = "open"
    <3>1. CASE sock' = sock
      BY <3>1
    <3>2. CASE sock' = Destroy({h})
      BY <3>2 DEF TypeOK, Destroy, SockState
    <3>3. QED
      BY <2>1, <3>1, <3>2
  <2>9. ~closed
    BY <2>1 DEF Emptied
  <2>10. ASSUME NEW t \in Sockets PROVE InPlace(t)'
    <3>1. CASE t = h
      <4>1. phase'[t] = "started" /\ t \in active' /\ t \notin Waiting'
        BY <2>1, <2>2, <2>5, <3>1 DEF TypeOK
      <4>2. sock[t] # "gone"
        BY <2>2, <3>1 DEF InPlace
      <4>3. QED
        BY <2>1, <2>8, <2>9, <4>1, <4>2 DEF InPlace
    <3>2. CASE t # h
      <4>1. /\ phase'[t] = phase[t]
            /\ (t \in active') = (t \in active)
            /\ (t \in Waiting') = (t \in Waiting)
        BY <2>1, <2>2, <2>5, <3>2 DEF TypeOK
      <4>2. InPlace(t)
        OBVIOUS
      <4>3. QED
        BY <2>1, <2>8, <2>9, <4>1, <4>2 DEF InPlace
    <3>3. QED
      BY <3>1, <3>2
  <2>11. NoIdleSlot' /\ Emptied'
    BY <2>1, <2>9 DEF NoIdleSlot, Emptied
  <2>12. QED
    BY <2>4, <2>7, <2>10, <2>11
<1>3. CASE DrainStop
  <2>1. UNCHANGED <<active, waiting, closed, sock, phase>> /\ draining' = FALSE
    BY <1>3 DEF DrainStop
  <2>2. NoIdleSlot'
    BY <1>3, <2>1 DEF DrainStop, NoIdleSlot, HasRoom
  <2>3. ASSUME NEW t \in Sockets PROVE InPlace(t)'
    BY <2>1 DEF InPlace, Waiting
  <2>4. QED
    BY <2>1, <2>2, <2>3 DEF TypeOK, Slotted, Emptied
<1>4. QED
  BY <1>1, <1>2, <1>3 DEF Drain

LEMMA SocketDestroyedIInv ==
  ASSUME IInv, NEW s \in Sockets, SocketDestroyed(s)
  PROVE  IInv'
<1> USE DEF IInv
<1>1. UNCHANGED <<active, waiting, closed, draining, phase>> /\ sock' = Destroy({s})
  BY DEF SocketDestroyed
<1>2. TypeOK'
  BY <1>1, DestroyFacts DEF TypeOK
<1>3. ASSUME NEW t \in Sockets PROVE InPlace(t)'
  <2>1. Waiting' = Waiting
    BY <1>1 DEF Waiting
  <2>2. (sock'[t] = "gone" <=> sock[t] = "gone") /\ (sock'[t] = "open" => sock[t] = "open")
    BY <1>1 DEF TypeOK, Destroy, SockState
  <2>3. QED
    BY <1>1, <2>1, <2>2 DEF InPlace
<1>4. QED
  BY <1>1, <1>2, <1>3 DEF Slotted, NoIdleSlot, HasRoom, Emptied

LEMMA SocketCloseIInv ==
  ASSUME IInv, NEW s \in Sockets, SocketClose(s)
  PROVE  IInv'
<1> USE DEF IInv
<1>1. sock' = [sock EXCEPT ![s] = "gone"] /\ UNCHANGED <<closed, phase>> /\ ~draining
  BY DEF SocketClose
<1>2. CASE phase[s] \in Accepted
  <2>1. active' = active \ {s} /\ waiting' = Without(waiting, s) /\ draining' = ~closed
    BY <1>2 DEF SocketClose, Accepted
  <2>2. waiting' \in Seq(Sockets) /\ Waiting' = Waiting \ {s} /\ Distinct(waiting')
    BY <2>1, WithoutFromLine DEF Waiting, TypeOK
  <2>3. TypeOK'
    BY <1>1, <2>1, <2>2 DEF TypeOK, SockState
  <2>4. Slotted'
    <3>1. CASE s \in active
      <4>1. IsFiniteSet(active') /\ Cardinality(active') = Cardinality(active) - 1
        BY <2>1, <3>1, FS_RemoveElement DEF Slotted
      <4>2. Cardinality(active) \in Nat
        BY FS_CardinalityType DEF Slotted
      <4>3. QED
        BY <4>1, <4>2, LimitAssumption DEF Slotted
    <3>2. CASE s \notin active
      <4>1. active' = active
        BY <2>1, <3>2
      <4>2. QED
        BY <4>1 DEF Slotted
    <3>3. QED
      BY <3>1, <3>2
  <2>5. ASSUME NEW t \in Sockets PROVE InPlace(t)'
    BY <1>1, <2>1, <2>2 DEF InPlace, TypeOK, Accepted
  <2>6. CASE closed
    <3>1. active = {} /\ waiting = <<>>
      BY <2>6 DEF Emptied
    <3>2. waiting' = <<>>
      BY <2>1, <3>1, EmptySeq DEF Without, ToSet
    <3>3. active' = {} /\ ~draining'
      BY <2>1, <2>6, <3>1
    <3>4. QED
      BY <2>2, <2>3, <2>4, <2>5, <3>2, <3>3 DEF NoIdleSlot, Emptied
  <2>7. CASE ~closed
    BY <1>1, <2>1, <2>2, <2>3, <2>4, <2>5, <2>7 DEF NoIdleSlot, Emptied
  <2>8. QED
    BY <2>6, <2>7
<1>3. CASE phase[s] \notin Accepted
  <2>1. UNCHANGED <<active, waiting, draining>>
    BY <1>3 DEF SocketClose, Accepted
  <2>2. TypeOK'
    BY <1>1, <2>1 DEF TypeOK, SockState
  <2>3. ASSUME NEW t \in Sockets PROVE InPlace(t)'
    BY <1>1, <1>3, <2>1 DEF InPlace, Waiting, TypeOK, Accepted
  <2>4. QED
    BY <1>1, <2>1, <2>2, <2>3 DEF Slotted, NoIdleSlot, HasRoom, Emptied
<1>4. QED
  BY <1>2, <1>3

LEMMA CloseIInv ==
  ASSUME IInv, Close
  PROVE  IInv'
<1> USE DEF IInv
<1>1. /\ ~draining /\ closed' = TRUE /\ sock' = Destroy(active \cup Waiting)
      /\ active' = {} /\ waiting' = <<>> /\ UNCHANGED <<draining, phase>> /\ ~closed
  BY DEF Close
<1>2. waiting' \in Seq(Sockets) /\ Waiting' = {} /\ Distinct(waiting')
  BY <1>1, EmptySeq DEF Waiting, ToSet, Distinct
<1>3. TypeOK'
  BY <1>1, <1>2, DestroyFacts DEF TypeOK
<1>4. Slotted'
  BY <1>1, FS_EmptySet, LimitAssumption DEF Slotted
<1>5. ASSUME NEW t \in Sockets PROVE InPlace(t)'
  <2>1. sock'[t] = "open" => sock[t] = "open" /\ t \notin active /\ t \notin Waiting
    BY <1>1 DEF TypeOK, Destroy, SockState
  <2>2. InPlace(t) /\ ~closed
    BY <1>1
  <2>3. QED
    BY <1>1, <1>2, <2>1, <2>2 DEF InPlace, Accepted
<1>6. QED
  BY <1>1, <1>2, <1>3, <1>4, <1>5 DEF NoIdleSlot, Emptied

LEMMA NextIInv == IInv /\ [Next]_vars => IInv'
<1> SUFFICES ASSUME IInv, [Next]_vars PROVE IInv'
  OBVIOUS
<1>1. ASSUME NEW s \in Sockets, Run(s) PROVE IInv'
  BY <1>1, RunIInv
<1>2. ASSUME NEW s \in Sockets, SocketDestroyed(s) PROVE IInv'
  BY <1>2, SocketDestroyedIInv
<1>3. ASSUME NEW s \in Sockets, SocketClose(s) PROVE IInv'
  BY <1>3, SocketCloseIInv
<1>4. CASE Drain
  BY <1>4, DrainIInv
<1>5. CASE Close
  BY <1>5, CloseIInv
<1>6. CASE UNCHANGED vars
  <2>1. Waiting' = Waiting
    BY <1>6 DEF vars, Waiting
  <2>2. ASSUME NEW t \in Sockets PROVE InPlace(t)'
    BY <1>6, <2>1 DEF IInv, vars, InPlace
  <2>3. QED
    BY <1>6, <2>2 DEF IInv, vars, TypeOK, Slotted, NoIdleSlot, HasRoom, Emptied
<1>7. QED
  BY <1>1, <1>2, <1>3, <1>4, <1>5, <1>6 DEF Next

THEOREM Inductive == Spec => []IInv
BY InitIInv, NextIInv, PTL DEF Spec

(***************************************************************************)
(* The properties of WebSocketBudget.                                      *)
(***************************************************************************)
(* Every variable of the budget keeps its type.                            *)
THEOREM TypeCorrect == Spec => []TypeOK
<1>1. IInv => TypeOK
  BY DEF IInv
<1>2. QED
  BY <1>1, Inductive, PTL

(* maxUpstreamSockets is never exceeded by the sockets that hold a slot.   *)
THEOREM Bounded == Spec => []BoundHolds
<1>1. IInv => BoundHolds
  BY DEF IInv, Slotted, BoundHolds
<1>2. QED
  BY <1>1, Inductive, PTL

(* No slot and no place in the line outlives its socket, and no socket is  *)
(* in two places.                                                          *)
THEOREM SlotsAreHeldByLiveSockets == Spec => [](NoLeakedSlot /\ OnePlace)
<1>1. IInv => NoLeakedSlot /\ OnePlace
  <2>1. TypeOK => active \subseteq Sockets /\ Waiting \subseteq Sockets
    BY ElementOfSeq, LenProperties DEF TypeOK, Waiting, ToSet
  <2>2. QED
    BY <2>1 DEF IInv, InPlace, NoLeakedSlot, OnePlace
<1>2. QED
  BY <1>1, Inductive, PTL

(* A started socket keeps its slot while it lives, so that a reentrant     *)
(* run() never queues behind itself.                                       *)
THEOREM StartedKeepsSlot == Spec => []StartedHoldsSlot
<1>1. IInv => StartedHoldsSlot
  BY DEF IInv, InPlace, StartedHoldsSlot
<1>2. QED
  BY <1>1, Inductive, PTL

(* No socket waits while a slot is free.                                   *)
THEOREM WorkConserving == Spec => []NoIdleSlot
<1>1. IInv => NoIdleSlot
  BY DEF IInv
<1>2. QED
  BY <1>1, Inductive, PTL

(* close() leaves no admitted socket open and lets none in later.          *)
THEOREM CloseIsFinal == Spec => []ClosedMeansDestroyed
<1>1. IInv => ClosedMeansDestroyed
  BY DEF IInv, TypeOK, PhaseState, InPlace, Accepted, Emptied, ClosedMeansDestroyed
<1>2. QED
  BY <1>1, Inductive, PTL

(***************************************************************************)
(* The budget implements BoundedSlots.                                     *)
(***************************************************************************)
LEMMA RemoveHead ==
  ASSUME NEW S, NEW q \in Seq(S), q # <<>>
  PROVE  RemoveAt(q, 1) = Tail(q) /\ 1 \in DOMAIN q
<1>1. Len(q) \in Nat \ {0} /\ DOMAIN q = 1 .. Len(q)
  BY EmptySeq, LenProperties
<1>2. SubSeq(q, 1, 1 - 1) = <<>>
  BY SubSeqEmpty
<1>3. SubSeq(q, 1 + 1, Len(q)) = Tail(q) /\ Tail(q) \in Seq(S)
  BY TailIsSubSeq, HeadTailProperties
<1>4. <<>> \o Tail(q) = Tail(q)
  BY <1>3, ConcatEmptySeq
<1>5. QED
  BY <1>1, <1>2, <1>3, <1>4 DEF RemoveAt

LEMMA StepImplementsSlots ==
  ASSUME IInv, [Next]_vars
  PROVE  [Slots!Next]_(Slots!vars)
<1> USE DEF IInv
<1> DEFINE joined == {s \in Sockets : phase[s] \in {"queued", "started", "reentered"}}
<1>1. ASSUME NEW s \in Sockets, RunRefused(s) PROVE UNCHANGED Slots!vars
  <2>1. joined' = joined
    <3>1. phase[s] \in {"new", "started"} /\ phase' = [phase EXCEPT ![s] = IF @ = "new" THEN "refused" ELSE "reentered"]
      BY <1>1 DEF RunRefused, MayRun
    <3>2. QED
      BY <3>1 DEF TypeOK
  <2>2. QED
    BY <1>1, <2>1 DEF RunRefused, Slots!vars
<1>2. ASSUME NEW s \in Sockets, RunReentrant(s) PROVE UNCHANGED Slots!vars
  <2>1. joined' = joined
    BY <1>2 DEF RunReentrant, MayRun, InPlace, TypeOK
  <2>2. QED
    BY <1>2, <2>1 DEF RunReentrant, Slots!vars
<1>3. ASSUME NEW s \in Sockets, RunQueued(s) PROVE Slots!Join(s)
  <2>1. phase[s] = "new" /\ s \notin Waiting
    BY <1>3 DEF RunQueued, MayRun, InPlace
  <2>2. waiting' = Append(waiting, s) /\ UNCHANGED <<active, closed>> /\ ~closed
    BY <1>3, <2>1 DEF RunQueued
  <2>3. s \notin joined /\ joined' = joined \cup {s}
    BY <1>3, <2>1 DEF RunQueued, TypeOK
  <2>4. QED
    BY <2>2, <2>3 DEF Slots!Join
<1>4. CASE DrainSkip
  <2>1. waiting' = RemoveAt(waiting, 1) /\ 1 \in DOMAIN waiting
    BY <1>4, RemoveHead DEF DrainSkip, TypeOK
  <2>2. UNCHANGED <<active, closed, phase>>
    BY <1>4 DEF DrainSkip
  <2>3. QED
    BY <2>1, <2>2 DEF RemoveAt, Slots!RemoveAt, Slots!Next, Slots!LeaveLine
<1>5. CASE DrainStart
  <2>1. Head(waiting) \in Sockets /\ phase[Head(waiting)] = "queued"
    BY <1>5, TailOfLine DEF DrainStart, TypeOK, InPlace, Waiting
  <2>2. joined' = joined
    BY <1>5, <2>1 DEF DrainStart, TypeOK
  <2>3. Slots!Cardinality(active) = Cardinality(active)
    BY DEF Cardinality, Slots!Cardinality
  <2>4. QED
    BY <1>5, <2>2, <2>3 DEF DrainStart, HasRoom, Slots!Next, Slots!Admit
<1>6. CASE DrainStop
  BY <1>6 DEF DrainStop, Slots!vars
<1>7. ASSUME NEW s \in Sockets, SocketDestroyed(s) PROVE UNCHANGED Slots!vars
  BY <1>7 DEF SocketDestroyed, Slots!vars
<1>8. ASSUME NEW s \in Sockets, SocketClose(s) PROVE [Slots!Next]_(Slots!vars)
  <2>1. UNCHANGED <<closed, phase>>
    BY <1>8 DEF SocketClose
  <2>2. CASE UNCHANGED <<active, waiting>>
    BY <2>1, <2>2 DEF Slots!vars
  <2>3. CASE active' = active \ {s} /\ waiting' = Without(waiting, s)
    <3>1. CASE s \in active
      <4>1. s \notin ToSet(waiting)
        BY <3>1 DEF InPlace, Waiting
      <4>2. waiting' = waiting
        BY <2>3, <4>1 DEF Without
      <4>3. QED
        BY <2>1, <2>3, <3>1, <4>2 DEF Slots!Next, Slots!LeaveSlot
    <3>2. CASE s \in ToSet(waiting)
      <4>1. s \notin active
        BY <3>2 DEF InPlace, Waiting
      <4>2. PICK i \in DOMAIN waiting : waiting' = RemoveAt(waiting, i)
        BY <2>3, <3>2 DEF Without, ToSet
      <4>3. QED
        BY <2>1, <2>3, <4>1, <4>2 DEF RemoveAt, Slots!RemoveAt, Slots!Next, Slots!LeaveLine
    <3>3. CASE s \notin active /\ s \notin ToSet(waiting)
      BY <2>1, <2>3, <3>3 DEF Without, Slots!vars
    <3>4. QED
      BY <3>1, <3>2, <3>3
  <2>4. QED
    BY <1>8, <2>2, <2>3 DEF SocketClose
<1>9. CASE Close
  BY <1>9 DEF Close, Slots!Next, Slots!Shutdown
<1>10. CASE UNCHANGED vars
  BY <1>10 DEF vars, Slots!vars
<1>11. QED
  BY <1>1, <1>2, <1>3, <1>4, <1>5, <1>6, <1>7, <1>8, <1>9, <1>10
    DEF Next, Run, Drain, Slots!Next

(* The budget is a bounded house with one line: the longest waiting live   *)
(* socket is served next, nobody is served twice, and close() is final.    *)
THEOREM Implements == Spec => ImplementsSlots
<1>1. Init => Slots!Init
  BY DEF Init, Slots!Init
<1>2. QED
  BY <1>1, StepImplementsSlots, Inductive, PTL DEF Spec, ImplementsSlots, Slots!Spec

=================================================================================
