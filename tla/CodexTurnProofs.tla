----------------------------- MODULE CodexTurnProofs -----------------------------
(***************************************************************************)
(* The safety properties of a turn answered by Codex, for any number of    *)
(* items, deltas and blocks, for a reasoning cache of any size and for     *)
(* reasoning of any weight.                                                *)
(*                                                                         *)
(* The first half is about one stream.  The frames written so far are run  *)
(* through aggregateFrames(), and the message they make is tied to what    *)
(* the upstream has sent of each block; that every frame is a step of that *)
(* fold is what each action of the translator has to show.  The second     *)
(* half is about the cache as a value and the request built from it: what  *)
(* put(), get() and evict() keep, then what one block, one message and     *)
(* one conversation add to the input.  Both meet in the handler.           *)
(***************************************************************************)
EXTENDS CodexHandler, FiniteSetTheorems, FunctionTheorems, SequenceTheorems, WellFoundedInduction, TLAPS

(***************************************************************************)
(* Recursive functions over the positions of a sequence.  What holds for   *)
(* all numbers is shown by looking at the least one it would fail for.     *)
(***************************************************************************)
LEMMA LeastNumber ==
  ASSUME NEW T \in SUBSET Nat, T # {}
  PROVE  \E n \in T : \A m \in T : n <= m
<1>1. IsWellFoundedOn(OpToRel(<, Nat), Nat)
  BY NatLessThanWellFounded
<1>2. PICK n \in T : \A m \in T : ~(<<m, n>> \in OpToRel(<, Nat))
  BY <1>1, WFMin
<1>3. \A m \in T : ~(m < n)
  BY <1>2 DEF OpToRel
<1>4. T \subseteq Nat
  OBVIOUS
<1>5. \A m \in T : n <= m
  BY <1>3, <1>4
<1>6. QED
  BY <1>5

(* A set of numbers that holds 0 and with each number the next one, up to N.*)
LEMMA UpTo ==
  ASSUME NEW N \in Nat, NEW T, 0 \in T, \A n \in 0 .. N - 1 : n \in T => n + 1 \in T
  PROVE  \A n \in 0 .. N : n \in T
<1> DEFINE bad == {n \in 0 .. N : n \notin T}
<1>1. SUFFICES ASSUME bad # {} PROVE FALSE
  OBVIOUS
<1>2. bad \in SUBSET Nat
  OBVIOUS
<1>3. PICK n \in bad : \A m \in bad : n <= m
  BY <1>1, <1>2, LeastNumber
<1>4. n \in 0 .. N /\ n # 0 /\ n - 1 \in 0 .. N - 1 /\ (n - 1) + 1 = n
  BY <1>3
<1>5. n - 1 \in T
  BY <1>3, <1>4
<1>6. n \in T
  BY <1>4, <1>5
<1>7. QED
  BY <1>3, <1>6

(* The message after each frame.                                            *)
LEMMA AbsorbingFacts ==
  ASSUME NEW fs, Len(fs) \in Nat
  PROVE  /\ Absorbing(fs)[0] = Nothing
         /\ \A n \in 1 .. Len(fs) : Absorbing(fs)[n] = Absorb(Absorbing(fs)[n - 1], fs[n])
<1> DEFINE N == Len(fs)
           Chain(f, n) == f = [k \in 0 .. n |-> IF k = 0 THEN Nothing ELSE Absorb(f[k - 1], fs[k])]
           T == {n \in Nat : \E f : Chain(f, n)}
<1>1. 0 \in T
  <2>1. Chain([k \in 0 .. 0 |-> Nothing], 0)
    OBVIOUS
  <2>2. QED
    BY <2>1
<1>2. ASSUME NEW n \in Nat, n \in T PROVE n + 1 \in T
  <2>1. PICK f : Chain(f, n)
    BY <1>2
  <2> DEFINE g == [k \in 0 .. n + 1 |-> IF k = n + 1 THEN Absorb(f[n], fs[n + 1]) ELSE f[k]]
  <2>2. ASSUME NEW k \in 0 .. n + 1 PROVE g[k] = IF k = 0 THEN Nothing ELSE Absorb(g[k - 1], fs[k])
    <3>1. CASE k = n + 1
      <4>1. k # 0 /\ k - 1 = n /\ n \in 0 .. n + 1 /\ n # n + 1
        BY <3>1
      <4>2. g[k - 1] = f[n] /\ g[k] = Absorb(f[n], fs[n + 1])
        BY <3>1, <4>1
      <4>3. QED
        BY <3>1, <4>1, <4>2
    <3>2. CASE k # n + 1
      <4>1. k \in 0 .. n /\ g[k] = f[k]
        BY <3>2
      <4>2. f[k] = IF k = 0 THEN Nothing ELSE Absorb(f[k - 1], fs[k])
        BY <2>1, <4>1
      <4>3. CASE k = 0
        BY <4>1, <4>2, <4>3
      <4>4. CASE k # 0
        <5>1. k - 1 \in 0 .. n + 1 /\ k - 1 # n + 1
          BY <4>1, <4>4
        <5>2. g[k - 1] = f[k - 1]
          BY <5>1
        <5>3. QED
          BY <4>1, <4>2, <4>4, <5>2
      <4>5. QED
        BY <4>3, <4>4
    <3>3. QED
      BY <3>1, <3>2
  <2>3. g = [k \in 0 .. n + 1 |-> g[k]]
    OBVIOUS
  <2> HIDE DEF g
  <2>4. Chain(g, n + 1)
    BY <2>2, <2>3
  <2>5. QED
    BY <2>4
<1> HIDE DEF T
<1>3. \A n \in 0 .. N : n \in T
  BY <1>1, <1>2, UpTo
<1>4. PICK f : Chain(f, N)
  BY <1>3 DEF T
<1>5. PICK g : g = Absorbing(fs) /\ Chain(g, N)
  BY <1>4 DEF Absorbing
<1>6. \A n \in 0 .. N : g[n] = IF n = 0 THEN Nothing ELSE Absorb(g[n - 1], fs[n])
  BY <1>5
<1>7. 0 \in 0 .. N /\ \A n \in 1 .. N : n \in 0 .. N /\ n # 0
  OBVIOUS
<1>8. QED
  BY <1>5, <1>6, <1>7

(***************************************************************************)
(* A set of numbers in its order.                                          *)
(***************************************************************************)
LEMMA Counted ==
  ASSUME NEW n \in Nat, NEW S, NEW f \in [1 .. n -> S], \A x \in S : \E i \in 1 .. n : f[i] = x,
         \A i, j \in 1 .. n : f[i] = f[j] => i = j
  PROVE  IsFiniteSet(S) /\ Cardinality(S) = n
<1>1. f \in Bijection(1 .. n, S)
  BY Fun_IsBij
<1>2. ExistsBijection(1 .. n, S)
  BY <1>1 DEF ExistsBijection
<1>3. QED
  BY <1>2, FS_CountingElements, FS_NatBijection

LEMMA EnumerationExists ==
  ASSUME NEW N \in Nat, NEW S \in SUBSET (1 .. N)
  PROVE  \E n \in Nat : \E s \in [1 .. n -> S] : ToSet(s) = S /\ Ordered(s)
<1> DEFINE Low(k) == {i \in S : i <= k}
           T == {k \in 0 .. N : \E n \in Nat : \E s \in [1 .. n -> Low(k)] : ToSet(s) = Low(k) /\ Ordered(s)}
<1>0. \A i \in S : i \in Int /\ 1 <= i /\ i <= N
  OBVIOUS
<1>1. 0 \in T
  <2>1. \A i \in S : ~(i <= 0)
    BY <1>0
  <2>2. Low(0) = {}
    BY <2>1
  <2>3. 1 .. 0 = {}
    OBVIOUS
  <2>4. PICK s : s = [i \in 1 .. 0 |-> 0]
    OBVIOUS
  <2>5. DOMAIN s = {} /\ s \in [1 .. 0 -> Low(0)]
    BY <2>2, <2>3, <2>4
  <2>6. ToSet(s) = Low(0) /\ Ordered(s)
    BY <2>2, <2>5 DEF ToSet, Ordered
  <2>7. 0 \in Nat /\ 0 \in 0 .. N
    OBVIOUS
  <2>8. QED
    BY <2>5, <2>6, <2>7
<1>2. ASSUME NEW k \in 0 .. N - 1, k \in T PROVE k + 1 \in T
  <2>1. PICK n \in Nat : \E s \in [1 .. n -> Low(k)] : ToSet(s) = Low(k) /\ Ordered(s)
    BY <1>2
  <2>2. PICK s \in [1 .. n -> Low(k)] : ToSet(s) = Low(k) /\ Ordered(s)
    BY <2>1
  <2>3. k + 1 \in 0 .. N /\ k \in Nat
    OBVIOUS
  <2>4. CASE k + 1 \notin S
    <3>1. Low(k + 1) = Low(k)
      <4>1. \A i \in S : i <= k + 1 <=> i <= k
        BY <1>0, <2>3, <2>4
      <4>2. QED
        BY <4>1
    <3>2. QED
      BY <2>2, <2>3, <3>1
  <2>5. CASE k + 1 \in S
    <3>1. Low(k + 1) = Low(k) \cup {k + 1} /\ \A i \in Low(k) : i < k + 1
      <4>1. \A i \in S : (i <= k + 1) <=> (i <= k \/ i = k + 1)
        BY <1>0, <2>3
      <4>2. \A i \in S : i <= k => i < k + 1
        BY <1>0, <2>3
      <4>3. k + 1 <= k + 1
        BY <2>3
      <4>4. QED
        BY <2>5, <4>1, <4>2, <4>3
    <3>2. PICK t : t = [i \in 1 .. n + 1 |-> IF i = n + 1 THEN k + 1 ELSE s[i]]
      OBVIOUS
    <3>3. \A i \in 1 .. n + 1 : i \in 1 .. n \/ i = n + 1
      OBVIOUS
    <3> HIDE DEF Low
    <3>4. /\ DOMAIN t = 1 .. n + 1 /\ t[n + 1] = k + 1
          /\ \A i \in 1 .. n : t[i] = s[i] /\ s[i] \in Low(k) /\ i # n + 1 /\ i \in 1 .. n + 1
      BY <3>2
    <3>5. t \in [1 .. n + 1 -> Low(k + 1)]
      BY <3>1, <3>2, <3>3, <3>4
    <3>6. ToSet(t) = Low(k + 1)
      <4>1. \A x \in Low(k) : \E i \in 1 .. n : s[i] = x
        BY <2>2 DEF ToSet
      <4>2. \A x \in Low(k + 1) : x \in ToSet(t)
        BY <3>1, <3>4, <4>1 DEF ToSet
      <4>3. \A x \in ToSet(t) : x \in Low(k + 1)
        BY <3>5 DEF ToSet
      <4>4. QED
        BY <4>2, <4>3
    <3>7. Ordered(t)
      <4> SUFFICES ASSUME NEW a \in 1 .. n + 1, NEW b \in 1 .. n + 1, a < b PROVE t[a] < t[b]
        BY <3>4 DEF Ordered
      <4>1. a \in 1 .. n
        OBVIOUS
      <4>2. CASE b = n + 1
        BY <3>1, <3>4, <4>1, <4>2
      <4>3. CASE b \in 1 .. n
        BY <2>2, <3>4, <4>1, <4>3 DEF Ordered
      <4>4. QED
        BY <3>3, <4>2, <4>3
    <3>8. QED
      BY <2>3, <3>5, <3>6, <3>7
  <2>6. QED
    BY <2>4, <2>5
<1>3. N \in T
  <2> HIDE DEF T
  <2>1. QED
    BY <1>1, <1>2, UpTo
<1>4. Low(N) = S
  BY <1>0
<1>5. QED
  BY <1>3, <1>4

LEMMA InOrderFacts ==
  ASSUME NEW N \in Nat, NEW S \in SUBSET (1 .. N)
  PROVE  /\ Cardinality(S) \in Nat /\ InOrder(S) \in [1 .. Cardinality(S) -> S]
         /\ ToSet(InOrder(S)) = S /\ Ordered(InOrder(S))
<1>0. \A i \in S : i \in Int
  OBVIOUS
<1>1. PICK n \in Nat : \E s \in [1 .. n -> S] : ToSet(s) = S /\ Ordered(s)
  BY EnumerationExists
<1>2. PICK s \in [1 .. n -> S] : ToSet(s) = S /\ Ordered(s)
  BY <1>1
<1>3. \A x \in S : \E i \in 1 .. n : s[i] = x
  BY <1>2 DEF ToSet
<1>4. \A i, j \in 1 .. n : s[i] = s[j] => i = j
  <2> SUFFICES ASSUME NEW i \in 1 .. n, NEW j \in 1 .. n, s[i] = s[j] PROVE i = j
    OBVIOUS
  <2>1. s[i] \in Int /\ s[j] \in Int
    BY <1>0
  <2>2. ~(i < j) /\ ~(j < i)
    BY <1>2, <2>1 DEF Ordered
  <2>3. QED
    BY <2>2
<1>5. Cardinality(S) = n
  BY <1>3, <1>4, Counted
<1>6. \E r \in [1 .. Cardinality(S) -> S] : ToSet(r) = S /\ Ordered(r)
  BY <1>2, <1>5
<1>7. QED
  BY <1>5, <1>6 DEF InOrder

(***************************************************************************)
(* Frames.                                                                 *)
(***************************************************************************)
FrameTypes == {"message_start", "content_block_start", "content_block_delta", "content_block_stop",
               "message_delta", "message_stop", "error"}
Frames == [type : FrameTypes, index : Nat, part : Nat \cup Items]

NoEnd(fs) == \A k \in 1 .. Len(fs) : ~IsTerminal(fs[k])
EndsLast(fs) == \A k \in 1 .. Len(fs) : IsTerminal(fs[k]) => k = Len(fs)
Ends(fs) == \E k \in 1 .. Len(fs) : IsTerminal(fs[k])
HasFrame(fs, type) == \E k \in 1 .. Len(fs) : fs[k].type = type

LEMMA FrameFields ==
  ASSUME NEW type, NEW index, NEW part
  PROVE  /\ Frame(type, index, part).type = type /\ Frame(type, index, part).index = index
         /\ Frame(type, index, part).part = part
         /\ type \in FrameTypes /\ index \in Nat /\ part \in Nat \cup Items => Frame(type, index, part) \in Frames
BY DEF Frame, Frames

LEMMA OneMoreFrame ==
  ASSUME NEW fs \in Seq(Frames), NEW f \in Frames
  PROVE  /\ Append(fs, f) \in Seq(Frames) /\ Append(fs, f) # <<>>
         /\ fs \o <<f>> = Append(fs, f)
         /\ NoEnd(fs) /\ ~IsTerminal(f) => NoEnd(Append(fs, f))
         /\ NoEnd(fs) => EndsLast(Append(fs, f))
         /\ IsTerminal(f) => Ends(Append(fs, f))
         /\ \A type : HasFrame(Append(fs, f), type) <=> HasFrame(fs, type) \/ f.type = type
<1> DEFINE gs == Append(fs, f)
<1>1. /\ gs \in Seq(Frames) /\ Len(fs) \in Nat /\ Len(gs) = Len(fs) + 1
      /\ \A k \in 1 .. Len(fs) : gs[k] = fs[k]
      /\ gs[Len(fs) + 1] = f
  BY AppendProperties
<1>2. fs \o <<f>> = gs
  BY AppendIsConcat
<1> HIDE DEF gs
<1>3. \A k : k \in 1 .. Len(gs) <=> k \in 1 .. Len(fs) \/ k = Len(fs) + 1
  BY <1>1
<1>4. gs # <<>>
  BY <1>1
<1>5. NoEnd(fs) /\ ~IsTerminal(f) => NoEnd(gs)
  BY <1>1, <1>3 DEF NoEnd
<1>6. NoEnd(fs) => EndsLast(gs)
  BY <1>1, <1>3 DEF NoEnd, EndsLast
<1>7. IsTerminal(f) => Ends(gs)
  BY <1>1, <1>3 DEF Ends
<1>8. \A type : HasFrame(gs, type) <=> HasFrame(fs, type) \/ f.type = type
  BY <1>1, <1>3 DEF HasFrame
<1>9. QED
  BY <1>1, <1>2, <1>4, <1>5, <1>6, <1>7, <1>8 DEF gs

(* What two sequences of frames have in common makes the same message.      *)
LEMMA AbsorbedPrefix ==
  ASSUME NEW fs \in Seq(Frames), NEW gs \in Seq(Frames), NEW N \in Nat, N <= Len(fs), N <= Len(gs),
         \A k \in 1 .. N : fs[k] = gs[k]
  PROVE  Absorbing(fs)[N] = Absorbing(gs)[N]
<1> DEFINE T == {n \in 0 .. N : Absorbing(fs)[n] = Absorbing(gs)[n]}
<1>1. /\ Absorbing(fs)[0] = Nothing /\ \A n \in 1 .. Len(fs) : Absorbing(fs)[n] = Absorb(Absorbing(fs)[n - 1], fs[n])
      /\ Absorbing(gs)[0] = Nothing /\ \A n \in 1 .. Len(gs) : Absorbing(gs)[n] = Absorb(Absorbing(gs)[n - 1], gs[n])
      /\ Len(fs) \in Nat /\ Len(gs) \in Nat
  BY AbsorbingFacts
<1>2. 0 \in T
  BY <1>1
<1>3. ASSUME NEW n \in 0 .. N - 1, n \in T PROVE n + 1 \in T
  <2>1. /\ n + 1 \in 1 .. Len(fs) /\ n + 1 \in 1 .. Len(gs) /\ n + 1 \in 1 .. N /\ n + 1 \in 0 .. N
        /\ (n + 1) - 1 = n
    BY <1>1
  <2>2. /\ Absorbing(fs)[n + 1] = Absorb(Absorbing(fs)[n], fs[n + 1])
        /\ Absorbing(gs)[n + 1] = Absorb(Absorbing(gs)[n], gs[n + 1])
        /\ fs[n + 1] = gs[n + 1]
    BY <1>1, <2>1
  <2>3. QED
    BY <1>3, <2>1, <2>2
<1> HIDE DEF T
<1>4. \A n \in 0 .. N : n \in T
  BY <1>2, <1>3, UpTo
<1>5. N \in T
  BY <1>4
<1>6. QED
  BY <1>5 DEF T

LEMMA AbsorbedEmpty == Absorbed(<<>>) = Nothing
<1>1. PICK fs : fs = <<>>
  OBVIOUS
<1>2. Len(fs) = 0 /\ Len(fs) \in Nat
  BY <1>1
<1>3. Absorbing(fs)[0] = Nothing
  BY <1>2, AbsorbingFacts
<1>4. QED
  BY <1>1, <1>2, <1>3 DEF Absorbed

LEMMA AbsorbedAppend ==
  ASSUME NEW fs \in Seq(Frames), NEW f \in Frames
  PROVE  Absorbed(Append(fs, f)) = Absorb(Absorbed(fs), f)
<1>1. PICK gs : gs = Append(fs, f)
  OBVIOUS
<1>2. /\ gs \in Seq(Frames) /\ Len(fs) \in Nat /\ Len(gs) = Len(fs) + 1
      /\ \A k \in 1 .. Len(fs) : fs[k] = gs[k]
      /\ gs[Len(fs) + 1] = f
  BY <1>1, AppendProperties
<1>3. PICK n \in Nat : n = Len(fs)
  BY <1>2
<1>4. Absorbing(fs)[n] = Absorbing(gs)[n]
  BY <1>2, <1>3, AbsorbedPrefix
<1>5. n + 1 \in 1 .. Len(gs) /\ (n + 1) - 1 = n
  BY <1>2, <1>3
<1>6. Absorbing(gs)[n + 1] = Absorb(Absorbing(gs)[n], gs[n + 1])
  BY <1>2, <1>5, AbsorbingFacts
<1>7. QED
  BY <1>1, <1>2, <1>3, <1>4, <1>6 DEF Absorbed

(***************************************************************************)
(* One frame more makes of a message.                                      *)
(***************************************************************************)
PendingBlocks == [item : Items, text : Seq(Nat)]
Draft(kind, live, content) == [kind |-> kind, live |-> live, content |-> content]

LEMMA AbsorbStart ==
  ASSUME NEW live, NEW content, NEW kind \in {"none", "message"}
  PROVE  Absorb(Draft(kind, live, content), Frame("message_start", 0, 0)) = Draft("message", live, content)
BY DEF Absorb, Draft, Frame

Blank(i) == [item |-> i, text |-> <<>>]

Begun(after, live, k, i) == after = [j \in DOMAIN live \cup {k} |-> IF j = k THEN Blank(i) ELSE live[j]]

LEMMA AbsorbBegin ==
  ASSUME NEW live, NEW content, NEW k, NEW i, NEW after, Begun(after, live, k, i)
  PROVE  Absorb(Draft("message", live, content), Frame("content_block_start", k, i)) = Draft("message", after, content)
BY DEF Absorb, Draft, Frame, Begin, Blank, Begun

LEMMA AbsorbDelta ==
  ASSUME NEW D, NEW live \in [D -> PendingBlocks], NEW content, NEW k \in D, NEW part
  PROVE  Absorb(Draft("message", live, content), Frame("content_block_delta", k, part)) =
           Draft("message",
                 [j \in D |-> IF j = k THEN [item |-> live[k].item, text |-> Append(live[k].text, part)] ELSE live[j]],
                 content)
<1> DEFINE m == Draft("message", live, content)
<1>1. m.kind = "message" /\ m.live = live /\ m = [kind |-> "message", live |-> live, content |-> content]
  BY DEF Draft
<1>2. Frame("content_block_delta", k, part).type = "content_block_delta"
      /\ Frame("content_block_delta", k, part).index = k /\ Frame("content_block_delta", k, part).part = part
  BY FrameFields
<1>3. Absorb(m, Frame("content_block_delta", k, part)) = [m EXCEPT !.live[k].text = Append(@, part)]
  BY <1>1, <1>2 DEF Absorb
<1>4. PICK block : block = [item |-> live[k].item, text |-> Append(live[k].text, part)]
  OBVIOUS
<1>5. [live[k] EXCEPT !.text = Append(@, part)] = block
  <2>1. PICK b \in PendingBlocks : b = live[k]
    OBVIOUS
  <2>2. PICK new : new = Append(b.text, part)
    OBVIOUS
  <2>3. [b EXCEPT !.text = new] = [item |-> b.item, text |-> new]
    BY DEF PendingBlocks
  <2>4. [b EXCEPT !.text = Append(@, part)] = [b EXCEPT !.text = new]
    BY <2>2
  <2>5. QED
    BY <1>4, <2>1, <2>2, <2>3, <2>4
<1>6. [live EXCEPT ![k].text = Append(@, part)] = [live EXCEPT ![k] = block]
  BY <1>5
<1>7. [live EXCEPT ![k] = block] = [j \in D |-> IF j = k THEN block ELSE live[j]]
  OBVIOUS
<1>8. [m EXCEPT !.live[k].text = Append(@, part)] = [m EXCEPT !.live = [live EXCEPT ![k].text = Append(@, part)]]
  BY <1>1
<1>9. PICK after : after = [live EXCEPT ![k].text = Append(@, part)]
  OBVIOUS
<1>10. [m EXCEPT !.live = after] = Draft("message", after, content)
  BY <1>1 DEF Draft
<1>11. QED
  BY <1>3, <1>4, <1>6, <1>7, <1>8, <1>9, <1>10

Spoilt(block) == block.item \in Calls /\ block.text # <<>> /\ ~Whole(block.text)

LEMMA AbsorbStop ==
  ASSUME NEW live, NEW content, NEW k
  PROVE  Absorb(Draft("message", live, content), Frame("content_block_stop", k, 0)) =
           IF k \notin DOMAIN live THEN Draft("message", live, content)
           ELSE IF Spoilt(live[k]) THEN Draft("unparseable", live, content)
           ELSE Draft("message", [j \in DOMAIN live \ {k} |-> live[j]], Append(content, live[k]))
<1> DEFINE m == Draft("message", live, content)
           f == Frame("content_block_stop", k, 0)
<1>1. m = [kind |-> "message", live |-> live, content |-> content] /\ f.type = "content_block_stop" /\ f.index = k
  BY FrameFields DEF Draft
<1>2. m.kind = "message" /\ m.live = live /\ m.content = content
  BY <1>1
<1>3. Absorb(m, f) = IF k \in DOMAIN live THEN Settle(m, k) ELSE m
  BY <1>1, <1>2 DEF Absorb
<1>4. Settle(m, k) = IF Spoilt(live[k]) THEN [m EXCEPT !.kind = "unparseable"]
                     ELSE [m EXCEPT !.live = [j \in DOMAIN live \ {k} |-> live[j]], !.content = Append(@, live[k])]
  BY <1>2 DEF Settle, Spoilt
<1>5. [m EXCEPT !.kind = "unparseable"] = Draft("unparseable", live, content)
  BY <1>1 DEF Draft
<1>6. PICK left, more : left = [j \in DOMAIN live \ {k} |-> live[j]] /\ more = live[k]
  OBVIOUS
<1>7. [m EXCEPT !.live = left, !.content = Append(@, more)] = Draft("message", left, Append(content, more))
  <2>1. PICK new : new = Append(content, more)
    OBVIOUS
  <2>2. [m EXCEPT !.live = left, !.content = new] = Draft("message", left, new)
    <3>1. PICK n : n = [m EXCEPT !.live = left]
      OBVIOUS
    <3>2. n = [kind |-> "message", live |-> left, content |-> content]
      BY <1>1, <3>1
    <3>3. [n EXCEPT !.content = new] = [kind |-> "message", live |-> left, content |-> new]
      BY <3>2
    <3>4. [m EXCEPT !.live = left, !.content = new] = [[m EXCEPT !.live = left] EXCEPT !.content = new]
      OBVIOUS
    <3>5. QED
      BY <3>1, <3>3, <3>4 DEF Draft
  <2>3. [m EXCEPT !.live = left, !.content = Append(@, more)] = [m EXCEPT !.live = left, !.content = Append(m.content, more)]
    BY <1>1
  <2>4. QED
    BY <1>2, <2>1, <2>2, <2>3
<1> HIDE DEF m, f
<1>8. QED
  BY <1>3, <1>4, <1>5, <1>6, <1>7 DEF m, f

LEMMA AbsorbSpoiltStop ==
  ASSUME NEW live, NEW content, NEW k \in DOMAIN live, Spoilt(live[k])
  PROVE  Absorb(Draft("message", live, content), Frame("content_block_stop", k, 0)) = Draft("unparseable", live, content)
BY AbsorbStop

LEMMA AbsorbError ==
  ASSUME NEW live, NEW content, NEW kind \in {"none", "message"}
  PROVE  Absorb(Draft(kind, live, content), Frame("error", 0, 0)) = Draft("error", live, content)
BY DEF Absorb, Draft, Frame

LEMMA AbsorbRest ==
  ASSUME NEW live, NEW content, NEW kind, NEW type \in {"message_delta", "message_stop"}
  PROVE  Absorb(Draft(kind, live, content), Frame(type, 0, 0)) = Draft(kind, live, content)
BY DEF Absorb, Draft, Frame

LEMMA AbsorbSpoilt ==
  ASSUME NEW live, NEW content, NEW f
  PROVE  Absorb(Draft("unparseable", live, content), f) = Draft("unparseable", live, content)
BY DEF Absorb, Draft

LEMMA DraftFields ==
  ASSUME NEW live, NEW content, NEW kind
  PROVE  /\ Draft(kind, live, content).kind = kind /\ Draft(kind, live, content).live = live
         /\ Draft(kind, live, content).content = content
BY DEF Draft

(***************************************************************************)
(* The frames of a turn that goes on make the message of what was sent: the *)
(* open blocks are pending, the others are its content.  bl: the blocks,    *)
(* op: the open ones, se: the deltas of every item.                         *)
(***************************************************************************)
Pending(bl, se, k) == [item |-> bl[k], text |-> [n \in 1 .. se[bl[k]] |-> n]]

Stopped(content, bl, op, se) ==
  /\ content \in Seq(PendingBlocks)
  /\ \A n \in 1 .. Len(content) : \E k \in (1 .. Len(bl)) \ op : content[n] = Pending(bl, se, k)
  /\ \A k \in (1 .. Len(bl)) \ op : \E n \in 1 .. Len(content) : content[n] = Pending(bl, se, k)

Makes(fs, kind, bl, op, se, content) ==
  Absorbed(fs) = Draft(kind, [k \in op |-> Pending(bl, se, k)], content)

Mirrors(fs, bl, op, se) ==
  \E content : /\ Makes(fs, IF fs = <<>> THEN "none" ELSE "message", bl, op, se, content)
               /\ Stopped(content, bl, op, se)

Shape(bl, op, se) ==
  /\ bl \in Seq(Items) /\ op \in SUBSET (1 .. Len(bl)) /\ se \in [Items -> Nat]
  /\ \A j, k \in 1 .. Len(bl) : bl[j] = bl[k] => j = k

LEMMA CountTo ==
  ASSUME NEW N \in Nat
  PROVE  /\ [n \in 1 .. N |-> n] \in Seq(Nat) /\ Len([n \in 1 .. N |-> n]) = N
         /\ [n \in 1 .. N |-> n] = <<>> <=> N = 0
         /\ Append([n \in 1 .. N |-> n], N + 1) = [n \in 1 .. N + 1 |-> n]
<1>1. PICK s : s = [n \in 1 .. N |-> n]
  OBVIOUS
<1>2. s \in Seq(Nat) /\ Len(s) = N /\ \A n \in 1 .. N : s[n] = n
  BY <1>1
<1>3. s = <<>> <=> N = 0
  BY <1>2
<1>4. PICK t : t = Append(s, N + 1)
  OBVIOUS
<1>5. /\ t \in Seq(Nat) /\ Len(t) = N + 1 /\ t[N + 1] = N + 1
      /\ \A n \in 1 .. N : t[n] = s[n]
  BY <1>2, <1>4, AppendProperties
<1>6. t = [n \in 1 .. N + 1 |-> t[n]]
  BY <1>5
<1>7. \A n \in 1 .. N + 1 : t[n] = n
  <2>1. \A n \in 1 .. N + 1 : n \in 1 .. N \/ n = N + 1
    OBVIOUS
  <2>2. QED
    BY <1>2, <1>5, <2>1
<1>8. t = [n \in 1 .. N + 1 |-> n]
  BY <1>6, <1>7
<1>9. QED
  BY <1>1, <1>2, <1>3, <1>4, <1>8

LEMMA PendingText ==
  ASSUME NEW bl \in Seq(Items), NEW se \in [Items -> Nat], NEW k \in 1 .. Len(bl)
  PROVE  /\ Pending(bl, se, k) \in PendingBlocks /\ Pending(bl, se, k).item = bl[k] /\ bl[k] \in Items
         /\ se[bl[k]] \in Nat
         /\ Pending(bl, se, k).text = <<>> <=> se[bl[k]] = 0
<1>1. bl[k] \in Items
  OBVIOUS
<1>2. se[bl[k]] \in Nat
  BY <1>1
<1>3. PICK text : text = [n \in 1 .. se[bl[k]] |-> n]
  OBVIOUS
<1>4. text \in Seq(Nat) /\ (text = <<>> <=> se[bl[k]] = 0)
  BY <1>2, <1>3, CountTo
<1>5. Pending(bl, se, k) = [item |-> bl[k], text |-> text]
  BY <1>3 DEF Pending
<1>6. QED
  BY <1>1, <1>2, <1>4, <1>5 DEF PendingBlocks

LEMMA MirrorsNothing ==
  ASSUME NEW se
  PROVE  Mirrors(<<>>, <<>>, {}, se)
<1>1. Absorbed(<<>>) = Draft("none", <<>>, <<>>)
  BY AbsorbedEmpty DEF Nothing, Draft
<1>2. <<>> = [k \in {} |-> Pending(<<>>, se, k)]
  OBVIOUS
<1>3. Makes(<<>>, "none", <<>>, {}, se, <<>>)
  BY <1>1, <1>2 DEF Makes
<1>4. Stopped(<<>>, <<>>, {}, se)
  BY DEF Stopped
<1>5. QED
  BY <1>3, <1>4 DEF Mirrors

Opening(st) == IF st THEN <<>> ELSE <<Frame("message_start", 0, 0)>>

LEMMA MirrorsStart ==
  ASSUME NEW fs \in Seq(Frames), NEW bl, NEW op, NEW se, Mirrors(fs, bl, op, se), NoEnd(fs),
         NEW st \in BOOLEAN, st <=> fs # <<>>
  PROVE  LET gs == fs \o Opening(st) IN
         /\ gs \in Seq(Frames) /\ gs # <<>> /\ Mirrors(gs, bl, op, se) /\ NoEnd(gs)
         /\ HasFrame(fs, "content_block_delta") => HasFrame(gs, "content_block_delta")
<1>1. CASE st
  <2>1. fs \o Opening(st) = fs
    BY <1>1, ConcatEmptySeq DEF Opening
  <2>2. QED
    BY <1>1, <2>1
<1>2. CASE ~st
  <2> DEFINE f == Frame("message_start", 0, 0)
             gs == Append(fs, f)
  <2>1. f \in Frames /\ ~IsTerminal(f) /\ f.type = "message_start"
    BY FrameFields DEF FrameTypes, IsTerminal
  <2> HIDE DEF f
  <2>2. /\ gs \in Seq(Frames) /\ gs # <<>> /\ NoEnd(gs) /\ fs \o <<f>> = gs
        /\ HasFrame(fs, "content_block_delta") => HasFrame(gs, "content_block_delta")
    BY <2>1, OneMoreFrame
  <2>3. fs \o Opening(st) = gs
    BY <1>2, <2>2 DEF Opening, f
  <2>4. PICK content : Makes(fs, "none", bl, op, se, content) /\ Stopped(content, bl, op, se)
    BY <1>2 DEF Mirrors
  <2>5. Absorbed(gs) = Absorb(Absorbed(fs), f)
    BY <2>1, AbsorbedAppend
  <2>6. Makes(gs, "message", bl, op, se, content)
    BY <2>4, <2>5, AbsorbStart DEF Makes, f
  <2>7. Mirrors(gs, bl, op, se)
    BY <2>2, <2>4, <2>6 DEF Mirrors
  <2>8. QED
    BY <2>2, <2>3, <2>7
<1>3. QED
  BY <1>1, <1>2

LEMMA MirrorsBegin ==
  ASSUME NEW fs \in Seq(Frames), fs # <<>>, NEW bl, NEW op, NEW se, Shape(bl, op, se), Mirrors(fs, bl, op, se),
         NEW i \in Items, se[i] = 0, \A k \in 1 .. Len(bl) : bl[k] # i
  PROVE  LET f == Frame("content_block_start", Len(bl) + 1, i) IN
         /\ f \in Frames /\ ~IsTerminal(f) /\ f.type = "content_block_start"
         /\ Shape(Append(bl, i), op \cup {Len(bl) + 1}, se)
         /\ Mirrors(Append(fs, f), Append(bl, i), op \cup {Len(bl) + 1}, se)
<1> DEFINE n == Len(bl) + 1
           f == Frame("content_block_start", n, i)
           cl == Append(bl, i)
           oq == op \cup {n}
<1>1. /\ bl \in Seq(Items) /\ op \in SUBSET (1 .. Len(bl)) /\ se \in [Items -> Nat] /\ Len(bl) \in Nat
      /\ \A j, k \in 1 .. Len(bl) : bl[j] = bl[k] => j = k
  BY DEF Shape
<1>2. /\ cl \in Seq(Items) /\ Len(cl) = n /\ cl[n] = i
      /\ \A k \in 1 .. Len(bl) : cl[k] = bl[k]
  BY <1>1, AppendProperties
<1>3. f \in Frames /\ f.type = "content_block_start" /\ ~IsTerminal(f)
  BY <1>1, FrameFields DEF FrameTypes, IsTerminal
<1>0. /\ \A k : k \in 1 .. Len(cl) <=> k \in 1 .. Len(bl) \/ k = n
      /\ n \notin 1 .. Len(bl) /\ \A k \in op : k \in 1 .. Len(bl)
  BY <1>1, <1>2
<1> HIDE DEF cl, n
<1>4. Shape(cl, oq, se)
  <2>1. oq \in SUBSET (1 .. Len(cl))
    BY <1>0
  <2>2. \A j, k \in 1 .. Len(cl) : cl[j] = cl[k] => j = k
    <3> SUFFICES ASSUME NEW j \in 1 .. Len(cl), NEW k \in 1 .. Len(cl), cl[j] = cl[k] PROVE j = k
      OBVIOUS
    <3>1. CASE j = n \/ k = n
      <4>1. \A l \in 1 .. Len(bl) : cl[l] # i
        BY <1>2
      <4>2. QED
        BY <1>0, <1>2, <3>1, <4>1
    <3>2. CASE j # n /\ k # n
      <4>1. j \in 1 .. Len(bl) /\ k \in 1 .. Len(bl)
        BY <1>0, <3>2
      <4>2. bl[j] = bl[k]
        BY <1>2, <4>1
      <4>3. QED
        BY <1>1, <4>1, <4>2
    <3>3. QED
      BY <3>1, <3>2
  <2>3. QED
    BY <1>1, <1>2, <2>1, <2>2 DEF Shape
<1>5. \A k \in 1 .. Len(bl) : Pending(cl, se, k) = Pending(bl, se, k)
  BY <1>2 DEF Pending
<1>6. Pending(cl, se, n) = Blank(i)
  <2>1. [m \in 1 .. 0 |-> m] = <<>>
    BY CountTo
  <2>2. QED
    BY <1>2, <2>1 DEF Pending, Blank
<1>7. PICK content : Makes(fs, "message", bl, op, se, content) /\ Stopped(content, bl, op, se)
  BY DEF Mirrors
<1> DEFINE live == [k \in op |-> Pending(bl, se, k)]
<1>8. Absorbed(Append(fs, f)) = Absorb(Absorbed(fs), f)
  BY <1>3, AbsorbedAppend
<1>10. [j \in DOMAIN live \cup {n} |-> IF j = n THEN Blank(i) ELSE live[j]] =
         [j \in oq |-> Pending(cl, se, j)]
  <2>1. DOMAIN live \cup {n} = oq
    OBVIOUS
  <2>2. ASSUME NEW j \in oq
        PROVE  (IF j = n THEN Blank(i) ELSE live[j]) = Pending(cl, se, j)
    <3>1. CASE j = n
      BY <1>6, <3>1
    <3>2. CASE j # n
      <4>1. j \in op /\ j \in 1 .. Len(bl)
        BY <1>0, <3>2
      <4>2. live[j] = Pending(bl, se, j)
        BY <4>1
      <4>3. QED
        BY <1>5, <3>2, <4>1, <4>2
    <3>3. QED
      BY <3>1, <3>2
  <2> HIDE DEF live
  <2>3. QED
    BY <2>1, <2>2
<1>16. Absorbed(fs) = Draft("message", live, content)
  BY <1>7 DEF Makes
<1>9. Absorbed(Append(fs, f)) = Draft("message", [j \in oq |-> Pending(cl, se, j)], content)
  <2>1. PICK after : after = [j \in oq |-> Pending(cl, se, j)]
    OBVIOUS
  <2>2. Begun(after, live, n, i)
    BY <1>10, <2>1 DEF Begun
  <2> HIDE DEF live
  <2>3. Absorb(Draft("message", live, content), Frame("content_block_start", n, i)) = Draft("message", after, content)
    BY <2>2, AbsorbBegin
  <2>4. QED
    BY <1>8, <1>16, <2>1, <2>3
<1>11. Stopped(content, cl, oq, se)
  <2>1. (1 .. Len(cl)) \ oq = (1 .. Len(bl)) \ op
    BY <1>0
  <2>2. QED
    BY <1>5, <1>7, <2>1 DEF Stopped
<1>12. Makes(Append(fs, f), "message", cl, oq, se, content)
  BY <1>9 DEF Makes
<1>13. Append(fs, f) # <<>>
  BY <1>3, OneMoreFrame
<1>14. Mirrors(Append(fs, f), cl, oq, se)
  BY <1>11, <1>12, <1>13 DEF Mirrors
<1>15. QED
  BY <1>3, <1>4, <1>14 DEF cl, n

LEMMA MirrorsUnheard ==
  ASSUME NEW fs, NEW bl, NEW op, NEW se, Shape(bl, op, se), Mirrors(fs, bl, op, se),
         NEW i \in Items, \A k \in 1 .. Len(bl) : bl[k] # i
  PROVE  Mirrors(fs, bl, op, [se EXCEPT ![i] = @ + 1])
<1> DEFINE te == [se EXCEPT ![i] = @ + 1]
<1>1. bl \in Seq(Items) /\ op \in SUBSET (1 .. Len(bl)) /\ se \in [Items -> Nat]
  BY DEF Shape
<1>2. \A k \in 1 .. Len(bl) : bl[k] \in Items /\ te[bl[k]] = se[bl[k]]
  BY <1>1
<1> HIDE DEF te
<1>3. \A k \in 1 .. Len(bl) : Pending(bl, te, k) = Pending(bl, se, k)
  BY <1>2 DEF Pending
<1>4. [k \in op |-> Pending(bl, se, k)] = [k \in op |-> Pending(bl, te, k)]
  <2>1. \A k \in op : k \in 1 .. Len(bl)
    BY <1>1
  <2>2. QED
    BY <1>3, <2>1
<1>5. ASSUME NEW content, Stopped(content, bl, op, se) PROVE Stopped(content, bl, op, te)
  BY <1>3, <1>5 DEF Stopped
<1>6. \A kind, content : Makes(fs, kind, bl, op, se, content) => Makes(fs, kind, bl, op, te, content)
  BY <1>4 DEF Makes
<1>7. QED
  BY <1>5, <1>6 DEF Mirrors, te

OneMore(se, i) == [se EXCEPT ![i] = @ + 1]

LEMMA MirrorsDelta ==
  ASSUME NEW fs \in Seq(Frames), fs # <<>>, NEW bl, NEW op, NEW se, Shape(bl, op, se), Mirrors(fs, bl, op, se),
         NEW k \in op
  PROVE  LET i == bl[k]
             f == Frame("content_block_delta", k, se[i] + 1) IN
         /\ f \in Frames /\ ~IsTerminal(f) /\ f.type = "content_block_delta"
         /\ Mirrors(Append(fs, f), bl, op, OneMore(se, i))
<1> DEFINE i == bl[k]
           te == [se EXCEPT ![i] = @ + 1]
           f == Frame("content_block_delta", k, se[i] + 1)
           live == [j \in op |-> Pending(bl, se, j)]
<1>1. /\ bl \in Seq(Items) /\ op \in SUBSET (1 .. Len(bl)) /\ se \in [Items -> Nat] /\ Len(bl) \in Nat
      /\ \A j, l \in 1 .. Len(bl) : bl[j] = bl[l] => j = l
      /\ \A j \in op : j \in 1 .. Len(bl) /\ j \in Nat
  <2>1. bl \in Seq(Items) /\ op \in SUBSET (1 .. Len(bl))
    BY DEF Shape
  <2>2. \A j \in 1 .. Len(bl) : j \in Nat
    BY <2>1
  <2>3. QED
    BY <2>1, <2>2 DEF Shape
<1>2. i \in Items /\ se[i] \in Nat /\ te \in [Items -> Nat] /\ te[i] = se[i] + 1
      /\ \A j \in 1 .. Len(bl) : j # k => te[bl[j]] = se[bl[j]]
  BY <1>1
<1>3. f \in Frames /\ f.type = "content_block_delta" /\ ~IsTerminal(f)
  BY <1>1, <1>2, FrameFields DEF FrameTypes, IsTerminal
<1>4. PICK content : Makes(fs, "message", bl, op, se, content) /\ Stopped(content, bl, op, se)
  BY DEF Mirrors
<1>5. live \in [op -> PendingBlocks]
  BY <1>1, PendingText
<1>6. Absorbed(Append(fs, f)) = Absorb(Absorbed(fs), f)
  BY <1>3, AbsorbedAppend
<1>7. Absorbed(fs) = Draft("message", live, content)
  BY <1>4 DEF Makes
<1> HIDE DEF live, te
<1>8. Absorbed(Append(fs, f)) =
        Draft("message",
              [j \in op |-> IF j = k THEN [item |-> live[k].item, text |-> Append(live[k].text, se[i] + 1)] ELSE live[j]],
              content)
  BY <1>5, <1>6, <1>7, AbsorbDelta
<1>9. [item |-> live[k].item, text |-> Append(live[k].text, se[i] + 1)] = Pending(bl, te, k)
  <2>1. live[k] = Pending(bl, se, k) /\ k \in 1 .. Len(bl)
    BY <1>1 DEF live
  <2>2. live[k].item = i /\ live[k].text = [n \in 1 .. se[i] |-> n]
    <3>1. Pending(bl, se, k).item = i /\ Pending(bl, se, k).text = [n \in 1 .. se[i] |-> n]
      BY DEF Pending
    <3>2. QED
      BY <2>1, <3>1
  <2>3. Append(live[k].text, se[i] + 1) = [n \in 1 .. se[i] + 1 |-> n]
    BY <1>2, <2>2, CountTo
  <2>4. Pending(bl, te, k) = [item |-> i, text |-> [n \in 1 .. se[i] + 1 |-> n]]
    BY <1>2 DEF Pending
  <2>5. QED
    BY <2>2, <2>3, <2>4
<1>10. \A j \in 1 .. Len(bl) : j # k => Pending(bl, te, j) = Pending(bl, se, j)
  BY <1>2 DEF Pending
<1>11. [j \in op |-> IF j = k THEN [item |-> live[k].item, text |-> Append(live[k].text, se[i] + 1)] ELSE live[j]]
         = [j \in op |-> Pending(bl, te, j)]
  <2>1. \A j \in op : live[j] = Pending(bl, se, j)
    BY DEF live
  <2>2. \A j \in op : (IF j = k THEN [item |-> live[k].item, text |-> Append(live[k].text, se[i] + 1)] ELSE live[j])
                        = Pending(bl, te, j)
    BY <1>1, <1>9, <1>10, <2>1
  <2>3. QED
    BY <2>2
<1>12. Makes(Append(fs, f), "message", bl, op, te, content)
  BY <1>8, <1>11 DEF Makes
<1>13. Stopped(content, bl, op, te)
  <2>1. \A j \in (1 .. Len(bl)) \ op : Pending(bl, te, j) = Pending(bl, se, j)
    BY <1>10
  <2>2. QED
    BY <1>4, <2>1 DEF Stopped
<1>14. Append(fs, f) # <<>>
  BY <1>3, OneMoreFrame
<1>15. Mirrors(Append(fs, f), bl, op, te)
  BY <1>12, <1>13, <1>14 DEF Mirrors
<1>16. QED
  BY <1>3, <1>15 DEF te, OneMore

(* The end of a block whose arguments are whole.                            *)
LEMMA StopOne ==
  ASSUME NEW bl, NEW op, NEW se, Shape(bl, op, se), NEW content, Stopped(content, bl, op, se),
         NEW k \in 1 .. Len(bl), ~Spoilt(Pending(bl, se, k))
  PROVE  \E more : /\ Absorb(Draft("message", [j \in op |-> Pending(bl, se, j)], content), Frame("content_block_stop", k, 0))
                       = Draft("message", [j \in op \ {k} |-> Pending(bl, se, j)], more)
                   /\ Stopped(more, bl, op \ {k}, se)
<1> DEFINE f == Frame("content_block_stop", k, 0)
           live == [j \in op |-> Pending(bl, se, j)]
<1>1. bl \in Seq(Items) /\ op \in SUBSET (1 .. Len(bl)) /\ se \in [Items -> Nat] /\ Len(bl) \in Nat
  BY DEF Shape
<1>2. CASE k \notin op
  <2>1. Absorb(Draft("message", live, content), f) = Draft("message", live, content)
    <3>1. k \notin DOMAIN live
      BY <1>2
    <3> HIDE DEF live
    <3>2. QED
      BY <3>1, AbsorbStop
  <2>2. op \ {k} = op
    BY <1>2
  <2>3. QED
    BY <2>1, <2>2
<1>3. CASE k \in op
  <2>1. live[k] = Pending(bl, se, k) /\ DOMAIN live = op
    BY <1>3
  <2>2. Absorb(Draft("message", live, content), f) =
          Draft("message", [j \in DOMAIN live \ {k} |-> live[j]], Append(content, live[k]))
    <3> HIDE DEF live
    <3>1. QED
      BY <1>3, <2>1, AbsorbStop
  <2>3. [j \in DOMAIN live \ {k} |-> live[j]] = [j \in op \ {k} |-> Pending(bl, se, j)]
    <3>1. \A j \in op \ {k} : live[j] = Pending(bl, se, j)
      OBVIOUS
    <3> HIDE DEF live
    <3>2. QED
      BY <2>1, <3>1
  <2>5. PICK b, d : b = Pending(bl, se, k) /\ d = Append(content, b)
    OBVIOUS
  <2>6. b \in PendingBlocks /\ content \in Seq(PendingBlocks)
    BY <1>1, <2>5, PendingText DEF Stopped
  <2>7. /\ d \in Seq(PendingBlocks) /\ Len(content) \in Nat /\ Len(d) = Len(content) + 1 /\ d[Len(content) + 1] = b
        /\ \A n \in 1 .. Len(content) : d[n] = content[n]
    BY <2>5, <2>6, AppendProperties
  <2>8. \A n : n \in 1 .. Len(d) <=> n \in 1 .. Len(content) \/ n = Len(content) + 1
    BY <2>7
  <2>9. /\ \A j \in (1 .. Len(bl)) \ op : j \in (1 .. Len(bl)) \ (op \ {k})
        /\ k \in (1 .. Len(bl)) \ (op \ {k})
        /\ \A j \in (1 .. Len(bl)) \ (op \ {k}) : j \in (1 .. Len(bl)) \ op \/ j = k
    BY <1>3
  <2>10. \A n \in 1 .. Len(d) : \E j \in (1 .. Len(bl)) \ (op \ {k}) : d[n] = Pending(bl, se, j)
    BY <2>5, <2>7, <2>8, <2>9 DEF Stopped
  <2>11. \A j \in (1 .. Len(bl)) \ (op \ {k}) : \E n \in 1 .. Len(d) : d[n] = Pending(bl, se, j)
    BY <2>5, <2>7, <2>8, <2>9 DEF Stopped
  <2>12. Stopped(d, bl, op \ {k}, se)
    BY <2>7, <2>10, <2>11 DEF Stopped
  <2>13. QED
    BY <2>1, <2>2, <2>3, <2>5, <2>12
<1>4. QED
  BY <1>2, <1>3

LEMMA MirrorsStop ==
  ASSUME NEW fs \in Seq(Frames), fs # <<>>, NEW bl, NEW op, NEW se, Shape(bl, op, se), Mirrors(fs, bl, op, se),
         NEW k \in 1 .. Len(bl), ~Spoilt(Pending(bl, se, k))
  PROVE  LET f == Frame("content_block_stop", k, 0) IN
         /\ f \in Frames /\ ~IsTerminal(f) /\ f.type = "content_block_stop"
         /\ Mirrors(Append(fs, f), bl, op \ {k}, se)
<1> DEFINE f == Frame("content_block_stop", k, 0)
<1>1. k \in Nat
  BY DEF Shape
<1>2. f \in Frames /\ f.type = "content_block_stop" /\ ~IsTerminal(f)
  BY <1>1, FrameFields DEF FrameTypes, IsTerminal
<1>3. PICK content : Makes(fs, "message", bl, op, se, content) /\ Stopped(content, bl, op, se)
  BY DEF Mirrors
<1>4. Absorbed(Append(fs, f)) = Absorb(Absorbed(fs), f)
  BY <1>2, AbsorbedAppend
<1>5. Append(fs, f) # <<>>
  BY <1>2, OneMoreFrame
<1>6. PICK more : /\ Absorb(Draft("message", [j \in op |-> Pending(bl, se, j)], content), f)
                     = Draft("message", [j \in op \ {k} |-> Pending(bl, se, j)], more)
                  /\ Stopped(more, bl, op \ {k}, se)
  BY <1>3, StopOne
<1>7. Makes(Append(fs, f), "message", bl, op \ {k}, se, more)
  BY <1>3, <1>4, <1>6 DEF Makes
<1>8. QED
  BY <1>2, <1>5, <1>6, <1>7 DEF Mirrors

(***************************************************************************)
(* The end of a turn.  st: a message was started, en: the ends of each item.*)
(***************************************************************************)
Something(se) == \E i \in Items : se[i] > 0

(* A message that leaves nothing out and makes nothing up.                  *)
Delivers(content, se, en) ==
  /\ content \in Seq(PendingBlocks)
  /\ Something(se) => \E n \in 1 .. Len(content) : content[n].text # <<>>
  /\ \A n \in 1 .. Len(content) : content[n].item \in Calls =>
       \/ Whole(content[n].text)
       \/ content[n].text = <<>> /\ en[content[n].item] > 0 /\ se[content[n].item] = 0

Outcomes == {"none", "message", "unparseable", "error"}
IsDraft(m) == \E kind \in Outcomes : \E live, content : m = Draft(kind, live, content)

Concluded(fs, st, se, en) ==
  /\ IsDraft(Absorbed(fs))
  /\ EndsLast(fs) /\ (st => Ends(fs))
  /\ Something(se) /\ HasFrame(fs, "message_stop") => HasFrame(fs, "content_block_delta")
  /\ Absorbed(fs).kind = "message" => Delivers(Absorbed(fs).content, se, en)

LEMMA ErrorConcludes ==
  ASSUME NEW fs \in Seq(Frames), NoEnd(fs), NEW bl, NEW op, NEW se, Mirrors(fs, bl, op, se), NEW st, NEW te, NEW en
  PROVE  LET f == Frame("error", 0, 0) IN
         f \in Frames /\ Append(fs, f) \in Seq(Frames) /\ Concluded(Append(fs, f), st, te, en)
<1> DEFINE f == Frame("error", 0, 0)
           gs == Append(fs, f)
<1>1. f \in Frames /\ f.type = "error" /\ IsTerminal(f)
  BY FrameFields DEF FrameTypes, IsTerminal
<1>2. gs \in Seq(Frames) /\ EndsLast(gs) /\ Ends(gs) /\ (HasFrame(gs, "message_stop") => HasFrame(fs, "message_stop"))
  BY <1>1, OneMoreFrame
<1>3. ~HasFrame(fs, "message_stop")
  BY DEF NoEnd, HasFrame, IsTerminal
<1>4. \E kind \in {"none", "message"} : \E live, content : Absorbed(fs) = Draft(kind, live, content)
  <2>1. PICK content : Makes(fs, IF fs = <<>> THEN "none" ELSE "message", bl, op, se, content)
    BY DEF Mirrors
  <2>2. PICK kind \in {"none", "message"} : Makes(fs, kind, bl, op, se, content)
    BY <2>1
  <2>3. PICK live : live = [k \in op |-> Pending(bl, se, k)]
    OBVIOUS
  <2>4. Absorbed(fs) = Draft(kind, live, content)
    BY <2>2, <2>3 DEF Makes
  <2>5. QED
    BY <2>4
<1>9. PICK kind \in {"none", "message"} : \E live, content : Absorbed(fs) = Draft(kind, live, content)
  BY <1>4
<1>10. PICK live, content : Absorbed(fs) = Draft(kind, live, content)
  BY <1>9
<1>5. Absorbed(gs) = Draft("error", live, content)
  BY <1>1, <1>10, AbsorbedAppend, AbsorbError
<1>6. Absorbed(gs).kind # "message" /\ IsDraft(Absorbed(gs))
  BY <1>5, DraftFields DEF IsDraft, Outcomes
<1> HIDE DEF gs
<1>7. Concluded(gs, st, te, en)
  BY <1>2, <1>3, <1>6 DEF Concluded
<1>8. QED
  BY <1>1, <1>2, <1>7 DEF gs

(* What has sent something must have found a block, is in the message, and  *)
(* what a closed block has not sent was not said by the upstream.           *)
Ready(fs, bl, op, se, en) ==
  /\ fs \in Seq(Frames) /\ fs # <<>> /\ NoEnd(fs) /\ Shape(bl, op, se) /\ Mirrors(fs, bl, op, se)
  /\ \A k \in (1 .. Len(bl)) \ op : en[bl[k]] > 0 /\ ~Spoilt(Pending(bl, se, k))
  /\ (\E k \in 1 .. Len(bl) : se[bl[k]] > 0) => HasFrame(fs, "content_block_delta")

(* Stops of blocks that are open, and the messages they make, one from the  *)
(* other.                                                                   *)
Places(order, N, op) ==
  (\A n \in 1 .. N : order[n] \in op) /\ (\A i, j \in 1 .. N : order[i] = order[j] => i = j)

Stopping(m, order, N) == \A n \in 1 .. N : m[n] = Absorb(m[n - 1], Frame("content_block_stop", order[n], 0))

(* The stops of the blocks that have content, one after the other.          *)
Written(m, bl, op, se, content) == m = Draft("message", [j \in op |-> Pending(bl, se, j)], content)
Broken(m) == \E live, more : m = Draft("unparseable", live, more)

AllStopped(m, bl, op, se, order, N) ==
  /\ \A n \in 1 .. N : ~Spoilt(Pending(bl, se, order[n]))
  /\ \E more : LET rest == op \ {order[n] : n \in 1 .. N} IN Written(m, bl, rest, se, more) /\ Stopped(more, bl, rest, se)

LEMMA StopAll ==
  ASSUME NEW bl, NEW op, NEW se, Shape(bl, op, se), NEW N \in Nat, NEW order, Places(order, N, op),
         NEW m, NEW content, Written(m[0], bl, op, se, content), Stopped(content, bl, op, se), Stopping(m, order, N)
  PROVE  Broken(m[N]) \/ AllStopped(m[N], bl, op, se, order, N)
<1> DEFINE Left(n) == op \ {order[i] : i \in 1 .. n}
           Lost(n) == Broken(m[n])
           Fine(n) == /\ \A i \in 1 .. n : ~Spoilt(Pending(bl, se, order[i]))
                      /\ \E more : Written(m[n], bl, Left(n), se, more) /\ Stopped(more, bl, Left(n), se)
           T == {n \in 0 .. N : Lost(n) \/ Fine(n)}
<1>1. 0 \in T
  <2>1. Left(0) = op
    OBVIOUS
  <2> HIDE DEF Left
  <2>2. Fine(0)
    BY <2>1
  <2>3. QED
    BY <2>2
<1>2. ASSUME NEW n \in 0 .. N - 1, n \in T PROVE n + 1 \in T
  <2>1. /\ n + 1 \in 1 .. N /\ n + 1 \in 0 .. N /\ (n + 1) - 1 = n
        /\ \A i : i \in 1 .. n + 1 <=> i \in 1 .. n \/ i = n + 1
    OBVIOUS
  <2> DEFINE k == order[n + 1]
  <2>2. m[n + 1] = Absorb(m[n], Frame("content_block_stop", k, 0)) /\ k \in 1 .. Len(bl) /\ k \in Left(n)
    <3>1. k \in op
      BY <2>1 DEF Places
    <3>2. \A i \in 1 .. n : i \in 1 .. N /\ i # n + 1
      OBVIOUS
    <3>3. \A i \in 1 .. n : order[i] # k
      BY <2>1, <3>2 DEF Places
    <3>4. k \in 1 .. Len(bl)
      BY <3>1 DEF Shape
    <3>5. QED
      BY <2>1, <3>1, <3>3, <3>4 DEF Stopping
  <2>3. Left(n + 1) = Left(n) \ {k} /\ Left(n) \in SUBSET op
    BY <2>1
  <2>4. Shape(bl, Left(n), se)
    BY <2>3 DEF Shape
  <2> HIDE DEF Left, k
  <2>5. CASE Lost(n)
    <3>1. PICK live, more : m[n] = Draft("unparseable", live, more)
      BY <2>5 DEF Broken
    <3>2. m[n + 1] = Draft("unparseable", live, more)
      BY <2>2, <3>1, AbsorbSpoilt
    <3>3. QED
      BY <2>1, <3>2 DEF Broken
  <2>6. CASE Fine(n)
    <3>1. PICK more : m[n] = Draft("message", [j \in Left(n) |-> Pending(bl, se, j)], more) /\ Stopped(more, bl, Left(n), se)
      BY <2>6 DEF Written
    <3>2. CASE ~Spoilt(Pending(bl, se, k))
      <4>1. PICK again : /\ Absorb(Draft("message", [j \in Left(n) |-> Pending(bl, se, j)], more),
                                   Frame("content_block_stop", k, 0))
                            = Draft("message", [j \in Left(n) \ {k} |-> Pending(bl, se, j)], again)
                         /\ Stopped(again, bl, Left(n) \ {k}, se)
        BY <2>2, <2>4, <3>1, <3>2, StopOne
      <4>2. m[n + 1] = Draft("message", [j \in Left(n + 1) |-> Pending(bl, se, j)], again)
            /\ Stopped(again, bl, Left(n + 1), se)
        BY <2>2, <2>3, <3>1, <4>1
      <4>3. \A i \in 1 .. n + 1 : ~Spoilt(Pending(bl, se, order[i]))
        BY <2>1, <2>6, <3>2 DEF k
      <4>4. Fine(n + 1)
        BY <4>2, <4>3 DEF Written
      <4>5. QED
        BY <2>1, <4>4
    <3>3. CASE Spoilt(Pending(bl, se, k))
      <4> DEFINE live == [j \in Left(n) |-> Pending(bl, se, j)]
      <4>1. k \in DOMAIN live /\ live[k] = Pending(bl, se, k)
        BY <2>2
      <4> HIDE DEF live
      <4>2. Absorb(Draft("message", live, more), Frame("content_block_stop", k, 0)) = Draft("unparseable", live, more)
        <5>1. k \in DOMAIN live /\ Spoilt(live[k])
          BY <3>3, <4>1
        <5>2. QED
          BY <5>1, AbsorbSpoiltStop
      <4>3. Lost(n + 1)
        BY <2>2, <3>1, <4>2 DEF live, Broken
      <4>4. QED
        BY <2>1, <4>3
    <3>4. QED
      BY <3>2, <3>3
  <2>7. QED
    BY <1>2, <2>5, <2>6
<1>3. \A n \in 0 .. N : n \in T
  <2> HIDE DEF T
  <2>1. QED
    BY <1>1, <1>2, UpTo
<1>4. Lost(N) \/ Fine(N)
  <2> HIDE DEF Lost, Fine
  <2>3. N \in 0 .. N
    OBVIOUS
  <2>1. N \in T
    BY <1>3, <2>3
  <2>2. QED
    BY <2>1
<1>5. QED
  BY <1>4 DEF AllStopped

LEMMA TwoMore ==
  ASSUME NEW fs \in Seq(Frames), NEW s \in Seq(Frames), NEW a \in Frames, NEW b \in Frames
  PROVE  LET gs == fs \o (s \o <<a, b>>)
             L == Len(fs)
             N == Len(s) IN
         /\ gs \in Seq(Frames) /\ L \in Nat /\ N \in Nat /\ Len(gs) = (L + N) + 2
         /\ \A i \in 1 .. L : gs[i] = fs[i]
         /\ \A i \in 1 .. N : gs[L + i] = s[i]
         /\ gs[(L + N) + 1] = a /\ gs[(L + N) + 2] = b
<1> DEFINE t == <<a, b>>
           u == s \o t
           gs == fs \o u
           L == Len(fs)
           N == Len(s)
<1>1. t \in Seq(Frames) /\ Len(t) = 2 /\ t[1] = a /\ t[2] = b
  OBVIOUS
<1> HIDE DEF t
<1>2. L \in Nat /\ N \in Nat
  OBVIOUS
<1>3. /\ u \in Seq(Frames) /\ Len(u) = N + 2
      /\ \A i \in 1 .. N + 2 : u[i] = IF i <= N THEN s[i] ELSE t[i - N]
  <2>1. /\ s \o t \in Seq(Frames) /\ Len(s \o t) = Len(s) + Len(t)
        /\ \A i \in 1 .. Len(s) + Len(t) : (s \o t)[i] = IF i <= Len(s) THEN s[i] ELSE t[i - Len(s)]
    BY <1>1, ConcatProperties
  <2>2. QED
    BY <1>1, <2>1
<1> HIDE DEF u
<1>4. /\ gs \in Seq(Frames) /\ Len(gs) = L + Len(u)
      /\ \A i \in 1 .. L + Len(u) : gs[i] = IF i <= L THEN fs[i] ELSE u[i - L]
  <2>1. /\ fs \o u \in Seq(Frames) /\ Len(fs \o u) = Len(fs) + Len(u)
        /\ \A i \in 1 .. Len(fs) + Len(u) : (fs \o u)[i] = IF i <= Len(fs) THEN fs[i] ELSE u[i - Len(fs)]
    <3>1. u \in Seq(Frames)
      BY <1>3
    <3>2. QED
      BY <3>1, ConcatProperties
  <2>2. QED
    BY <2>1
<1> HIDE DEF gs, L, N
<1>5. Len(gs) = (L + N) + 2 /\ L + Len(u) = (L + N) + 2
  BY <1>2, <1>3, <1>4
<1>6. \A i \in 1 .. L : gs[i] = fs[i]
  BY <1>2, <1>4, <1>5
<1>7. \A i \in 1 .. N : gs[L + i] = s[i]
  <2> SUFFICES ASSUME NEW i \in 1 .. N PROVE gs[L + i] = s[i]
    OBVIOUS
  <2>1. L + i \in 1 .. (L + N) + 2 /\ ~(L + i <= L) /\ (L + i) - L = i /\ i \in 1 .. N + 2 /\ i <= N
    BY <1>2
  <2>2. gs[L + i] = u[i]
    BY <1>4, <1>5, <2>1
  <2>3. u[i] = s[i]
    BY <1>3, <2>1
  <2>4. QED
    BY <2>2, <2>3
<1>8. gs[(L + N) + 1] = a
  <2>1. /\ (L + N) + 1 \in 1 .. (L + N) + 2 /\ ~((L + N) + 1 <= L) /\ ((L + N) + 1) - L = N + 1
        /\ N + 1 \in 1 .. N + 2 /\ ~(N + 1 <= N) /\ (N + 1) - N = 1
    BY <1>2
  <2>2. gs[(L + N) + 1] = u[N + 1]
    BY <1>4, <1>5, <2>1
  <2>3. u[N + 1] = t[1]
    BY <1>3, <2>1
  <2>4. QED
    BY <1>1, <2>2, <2>3
<1>9. gs[(L + N) + 2] = b
  <2>1. /\ (L + N) + 2 \in 1 .. (L + N) + 2 /\ ~((L + N) + 2 <= L) /\ ((L + N) + 2) - L = N + 2
        /\ N + 2 \in 1 .. N + 2 /\ ~(N + 2 <= N) /\ (N + 2) - N = 2
    BY <1>2
  <2>2. gs[(L + N) + 2] = u[N + 2]
    BY <1>4, <1>5, <2>1
  <2>3. u[N + 2] = t[2]
    BY <1>3, <2>1
  <2>4. QED
    BY <1>1, <2>2, <2>3
<1>10. QED
  BY <1>2, <1>4, <1>5, <1>6, <1>7, <1>8, <1>9 DEF gs, u, t, L, N

(* The blocks that are left open with content are stopped, and the message  *)
(* comes to its end.                                                        *)
LastOf(R) ==
  LET order == InOrder(R) IN
  [k \in DOMAIN order |-> Frame("content_block_stop", order[k], 0)]
    \o <<Frame("message_delta", 0, 0), Frame("message_stop", 0, 0)>>

LEMMA LastConcludes ==
  ASSUME NEW fs, NEW bl, NEW op, NEW se, NEW en, NEW st, Ready(fs, bl, op, se, en),
         Something(se) => \E k \in 1 .. Len(bl) : se[bl[k]] > 0,
         NEW R, R = {k \in op : se[bl[k]] > 0}
  PROVE  fs \o LastOf(R) \in Seq(Frames) /\ Concluded(fs \o LastOf(R), st, se, en)
<1> DEFINE order == InOrder(R)
           s == [k \in DOMAIN order |-> Frame("content_block_stop", order[k], 0)]
           a == Frame("message_delta", 0, 0)
           b == Frame("message_stop", 0, 0)
           gs == fs \o (s \o <<a, b>>)
           L == Len(fs)
           N == Cardinality(R)
<1>1. /\ fs \in Seq(Frames) /\ fs # <<>> /\ NoEnd(fs) /\ Shape(bl, op, se) /\ Mirrors(fs, bl, op, se)
      /\ \A k \in (1 .. Len(bl)) \ op : en[bl[k]] > 0 /\ ~Spoilt(Pending(bl, se, k))
      /\ (\E k \in 1 .. Len(bl) : se[bl[k]] > 0) => HasFrame(fs, "content_block_delta")
  BY DEF Ready
<1>2. /\ bl \in Seq(Items) /\ op \in SUBSET (1 .. Len(bl)) /\ se \in [Items -> Nat] /\ Len(bl) \in Nat
      /\ \A k \in op : k \in 1 .. Len(bl) /\ k \in Nat
  <2>1. bl \in Seq(Items) /\ op \in SUBSET (1 .. Len(bl)) /\ se \in [Items -> Nat]
    BY <1>1 DEF Shape
  <2>2. \A k \in 1 .. Len(bl) : k \in Nat
    OBVIOUS
  <2>3. QED
    BY <2>1, <2>2
<1>3. /\ N \in Nat /\ order \in [1 .. N -> R] /\ \A k \in R : \E i \in 1 .. N : order[i] = k
      /\ \A i, j \in 1 .. N : order[i] = order[j] => i = j
  <2>1. R \in SUBSET (1 .. Len(bl))
    BY <1>2
  <2>2. /\ Cardinality(R) \in Nat /\ InOrder(R) \in [1 .. Cardinality(R) -> R]
        /\ ToSet(InOrder(R)) = R /\ Ordered(InOrder(R))
    BY <1>2, <2>1, InOrderFacts
  <2>3. DOMAIN order = 1 .. N
    BY <2>2
  <2>4. \A k \in R : \E i \in 1 .. N : order[i] = k
    BY <2>2, <2>3 DEF ToSet
  <2>5. \A i \in 1 .. N : order[i] \in Int
    <3>1. \A k \in R : k \in Int
      BY <1>2
    <3>2. QED
      BY <2>2, <3>1
  <2>6. \A i, j \in 1 .. N : i < j => order[i] < order[j]
    BY <2>2, <2>3 DEF Ordered
  <2> HIDE DEF order, N
  <2>7. \A i, j \in 1 .. N : order[i] = order[j] => i = j
    <3> SUFFICES ASSUME NEW i \in 1 .. N, NEW j \in 1 .. N, order[i] = order[j] PROVE i = j
      OBVIOUS
    <3>1. ~(i < j) /\ ~(j < i)
      BY <2>5, <2>6
    <3>2. i \in Int /\ j \in Int
      OBVIOUS
    <3>3. QED
      BY <3>1, <3>2
  <2>8. QED
    BY <2>2, <2>4, <2>7 DEF order, N
<1> HIDE DEF order, N
<1>4. \A n \in 1 .. N : order[n] \in R /\ order[n] \in op /\ order[n] \in Nat
  BY <1>2, <1>3
<1>5. /\ a \in Frames /\ a.type = "message_delta" /\ ~IsTerminal(a)
      /\ b \in Frames /\ b.type = "message_stop" /\ IsTerminal(b)
  BY FrameFields DEF FrameTypes, IsTerminal
<1>6. s \in Seq(Frames) /\ Len(s) = N /\ \A n \in 1 .. N : s[n] = Frame("content_block_stop", order[n], 0) /\ ~IsTerminal(s[n])
  <2>1. DOMAIN order = 1 .. N
    BY <1>3
  <2>2. \A n \in 1 .. N : /\ Frame("content_block_stop", order[n], 0) \in Frames
                          /\ ~IsTerminal(Frame("content_block_stop", order[n], 0))
    BY <1>4, FrameFields DEF FrameTypes, IsTerminal
  <2>3. s = [n \in 1 .. N |-> Frame("content_block_stop", order[n], 0)]
    BY <2>1
  <2>4. QED
    BY <1>3, <2>2, <2>3
<1> HIDE DEF s, a, b
<1>7. /\ gs \in Seq(Frames) /\ L \in Nat /\ Len(gs) = (L + N) + 2
      /\ \A i \in 1 .. L : gs[i] = fs[i]
      /\ \A i \in 1 .. N : gs[L + i] = s[i]
      /\ gs[(L + N) + 1] = a /\ gs[(L + N) + 2] = b
  <2>1. /\ gs \in Seq(Frames) /\ Len(fs) \in Nat /\ Len(s) \in Nat /\ Len(gs) = (Len(fs) + Len(s)) + 2
        /\ \A i \in 1 .. Len(fs) : gs[i] = fs[i]
        /\ \A i \in 1 .. Len(s) : gs[Len(fs) + i] = s[i]
        /\ gs[(Len(fs) + Len(s)) + 1] = a /\ gs[(Len(fs) + Len(s)) + 2] = b
    <3>1. fs \in Seq(Frames) /\ s \in Seq(Frames) /\ a \in Frames /\ b \in Frames
      BY <1>1, <1>5, <1>6
    <3>2. QED
      BY <3>1, TwoMore
  <2> HIDE DEF gs
  <2>2. QED
    BY <1>6, <2>1
<1> HIDE DEF gs, L
<1>8. \A i \in 1 .. Len(gs) : i \in 1 .. L \/ (\E n \in 1 .. N : i = L + n) \/ i = (L + N) + 1 \/ i = (L + N) + 2
  <2> SUFFICES ASSUME NEW i \in 1 .. (L + N) + 2, ~(i \in 1 .. L), i # (L + N) + 1, i # (L + N) + 2
               PROVE  \E n \in 1 .. N : i = L + n
    BY <1>7
  <2>1. i - L \in 1 .. N /\ i = L + (i - L)
    BY <1>3, <1>7
  <2>2. QED
    BY <2>1
<1>9. EndsLast(gs) /\ Ends(gs)
  <2>1. (L + N) + 2 \in 1 .. Len(gs) /\ IsTerminal(gs[(L + N) + 2])
    BY <1>3, <1>5, <1>7
  <2>2. \A i \in 1 .. L : ~IsTerminal(gs[i])
    BY <1>1, <1>7 DEF NoEnd, L
  <2>3. \A i \in 1 .. N : ~IsTerminal(gs[L + i])
    BY <1>6, <1>7
  <2>4. ~IsTerminal(gs[(L + N) + 1])
    BY <1>5, <1>7
  <2>5. \A i \in 1 .. Len(gs) : IsTerminal(gs[i]) => i = (L + N) + 2
    BY <1>8, <2>2, <2>3, <2>4
  <2>6. QED
    BY <1>7, <2>1, <2>5 DEF EndsLast, Ends
<1>10. HasFrame(fs, "content_block_delta") => HasFrame(gs, "content_block_delta")
  <2>1. \A i \in 1 .. L : i \in 1 .. Len(gs) /\ gs[i] = fs[i]
    BY <1>3, <1>7
  <2>2. QED
    BY <2>1 DEF HasFrame, L
<1>11. PICK content : Makes(fs, "message", bl, op, se, content) /\ Stopped(content, bl, op, se)
  BY <1>1 DEF Mirrors
<1> DEFINE m == [n \in 0 .. N |-> Absorbing(gs)[L + n]]
<1>12. /\ \A n \in 1 .. Len(gs) : Absorbing(gs)[n] = Absorb(Absorbing(gs)[n - 1], gs[n])
  <2>1. Len(gs) \in Nat
    BY <1>3, <1>7
  <2>2. QED
    BY <2>1, AbsorbingFacts
<1>13. m[0] = Draft("message", [j \in op |-> Pending(bl, se, j)], content)
  <2>1. L <= Len(gs) /\ L <= Len(fs) /\ L + 0 = L /\ 0 \in 0 .. N
    BY <1>3, <1>7 DEF L
  <2>2. Absorbing(fs)[L] = Absorbing(gs)[L]
    BY <1>1, <1>7, <2>1, AbsorbedPrefix
  <2>3. Absorbed(fs) = Absorbing(fs)[L]
    BY DEF Absorbed, L
  <2>4. QED
    BY <1>11, <2>1, <2>2, <2>3 DEF Makes
<1>14. ASSUME NEW n \in 1 .. N PROVE m[n] = Absorb(m[n - 1], Frame("content_block_stop", order[n], 0))
  <2>1. n \in 0 .. N /\ n - 1 \in 0 .. N /\ L + n \in 1 .. Len(gs) /\ (L + n) - 1 = L + (n - 1)
    BY <1>3, <1>7
  <2>2. Absorbing(gs)[L + n] = Absorb(Absorbing(gs)[L + (n - 1)], gs[L + n])
    BY <1>12, <2>1
  <2>3. gs[L + n] = Frame("content_block_stop", order[n], 0)
    BY <1>6, <1>7
  <2>4. QED
    BY <2>1, <2>2, <2>3
<1>15. ASSUME NEW kind, NEW live, NEW more, m[N] = Draft(kind, live, more)
       PROVE  /\ Absorbed(gs).kind = kind /\ Absorbed(gs).content = more
              /\ kind \in Outcomes => IsDraft(Absorbed(gs))
  <2>1. /\ N \in 0 .. N /\ (L + N) + 1 \in 1 .. Len(gs) /\ (L + N) + 2 \in 1 .. Len(gs)
        /\ ((L + N) + 1) - 1 = L + N /\ ((L + N) + 2) - 1 = (L + N) + 1
    BY <1>3, <1>7
  <2>2. Absorbing(gs)[L + N] = Draft(kind, live, more)
    BY <1>15, <2>1
  <2>3. Absorbing(gs)[(L + N) + 1] = Absorb(Draft(kind, live, more), a)
    BY <1>7, <1>12, <2>1, <2>2
  <2>4. Absorbing(gs)[(L + N) + 1] = Draft(kind, live, more)
    BY <2>3, AbsorbRest DEF a
  <2>5. Absorbing(gs)[(L + N) + 2] = Absorb(Draft(kind, live, more), b)
    BY <1>7, <1>12, <2>1, <2>4
  <2>6. Absorbing(gs)[(L + N) + 2] = Draft(kind, live, more)
    BY <2>5, AbsorbRest DEF b
  <2>7. Absorbed(gs) = Draft(kind, live, more)
    BY <1>7, <2>6 DEF Absorbed
  <2>8. QED
    BY <2>7, DraftFields DEF IsDraft
<1> HIDE DEF m
<1>16. Broken(m[N]) \/ AllStopped(m[N], bl, op, se, order, N)
  <2>1. Places(order, N, op)
    BY <1>3, <1>4 DEF Places
  <2>2. Stopping(m, order, N)
    BY <1>14 DEF Stopping
  <2>3. Shape(bl, op, se) /\ N \in Nat /\ Stopped(content, bl, op, se)
    BY <1>1, <1>3, <1>11
  <2>4. Written(m[0], bl, op, se, content)
    BY <1>13 DEF Written
  <2>5. QED
    BY <2>1, <2>2, <2>3, <2>4, StopAll
<1>17. IsDraft(Absorbed(gs)) /\ (Absorbed(gs).kind = "message" => Delivers(Absorbed(gs).content, se, en))
  <2>1. CASE Broken(m[N])
    <3>1. PICK live, more : m[N] = Draft("unparseable", live, more)
      BY <2>1 DEF Broken
    <3>2. Absorbed(gs).kind = "unparseable" /\ IsDraft(Absorbed(gs))
      BY <1>15, <3>1 DEF Outcomes
    <3>3. QED
      BY <3>2
  <2>2. CASE AllStopped(m[N], bl, op, se, order, N)
    <3> DEFINE rest == op \ R
    <3>1. op \ {order[n] : n \in 1 .. N} = rest
      BY <1>3
    <3>2. PICK more : m[N] = Draft("message", [j \in rest |-> Pending(bl, se, j)], more) /\ Stopped(more, bl, rest, se)
      BY <2>2, <3>1 DEF AllStopped, Written
    <3>3. Absorbed(gs).content = more /\ IsDraft(Absorbed(gs))
      BY <1>15, <3>2 DEF Outcomes
    <3>4. \A k \in R : ~Spoilt(Pending(bl, se, k))
      BY <1>3, <2>2 DEF AllStopped
    <3>5. /\ more \in Seq(PendingBlocks)
          /\ \A n \in 1 .. Len(more) : \E k \in (1 .. Len(bl)) \ rest : more[n] = Pending(bl, se, k)
          /\ \A k \in (1 .. Len(bl)) \ rest : \E n \in 1 .. Len(more) : more[n] = Pending(bl, se, k)
      BY <3>2 DEF Stopped
    <3>6. \A k \in (1 .. Len(bl)) \ rest : k \in R \/ k \in (1 .. Len(bl)) \ op
      OBVIOUS
    <3>7. Something(se) => \E n \in 1 .. Len(more) : more[n].text # <<>>
      <4> SUFFICES ASSUME Something(se) PROVE \E n \in 1 .. Len(more) : more[n].text # <<>>
        OBVIOUS
      <4>1. PICK k \in 1 .. Len(bl) : se[bl[k]] > 0
        OBVIOUS
      <4>2. k \in (1 .. Len(bl)) \ rest
        BY <4>1
      <4>3. PICK n \in 1 .. Len(more) : more[n] = Pending(bl, se, k)
        BY <3>5, <4>2
      <4>4. Pending(bl, se, k).text # <<>>
        BY <1>2, <4>1, PendingText
      <4>5. QED
        BY <4>3, <4>4
    <3>8. ASSUME NEW n \in 1 .. Len(more), more[n].item \in Calls
          PROVE  \/ Whole(more[n].text)
                 \/ more[n].text = <<>> /\ en[more[n].item] > 0 /\ se[more[n].item] = 0
      <4>1. PICK k \in (1 .. Len(bl)) \ rest : more[n] = Pending(bl, se, k)
        BY <3>5
      <4>2. /\ Pending(bl, se, k).item = bl[k] /\ se[bl[k]] \in Nat
            /\ Pending(bl, se, k).text = <<>> <=> se[bl[k]] = 0
        BY <1>2, PendingText
      <4>3. ~Spoilt(Pending(bl, se, k))
        BY <1>1, <3>4, <3>6
      <4>4. more[n].text # <<>> => Whole(more[n].text)
        BY <3>8, <4>1, <4>3 DEF Spoilt
      <4>5. more[n].text = <<>> => k \in (1 .. Len(bl)) \ op
        BY <3>6, <4>1, <4>2
      <4>6. QED
        BY <1>1, <4>1, <4>2, <4>4, <4>5
    <3>9. Delivers(more, se, en)
      BY <3>5, <3>7, <3>8 DEF Delivers
    <3>10. QED
      BY <3>3, <3>9
  <2>3. QED
    BY <1>16, <2>1, <2>2
<1>18. Something(se) => HasFrame(gs, "content_block_delta")
  BY <1>1, <1>10
<1>19. Concluded(gs, st, se, en)
  BY <1>9, <1>17, <1>18 DEF Concluded
<1>20. QED
  BY <1>7, <1>19 DEF gs, s, a, b, order, LastOf

(***************************************************************************)
(* The translator.  A turn that goes on, and one that has come to its end.  *)
(***************************************************************************)
Reasonings == DOMAIN Weight

StreamTypes ==
  /\ announced \in [Items -> Nat] /\ sent \in [Items -> Nat] /\ ended \in [Items -> Nat]
  /\ started \in BOOLEAN /\ finished \in BOOLEAN
  /\ blocks \in Seq(Items) /\ frames \in Seq(Frames) /\ reasoningItems \in Seq(Reasonings)

Ongoing ==
  /\ Shape(blocks, openBlocks, sent)
  /\ \A i \in Items : announced[i] > 0 <=> \E k \in 1 .. Len(blocks) : blocks[k] = i
  /\ openBlocks = {k \in 1 .. Len(blocks) : ended[blocks[k]] = 0}
  /\ blocksWithContent = {k \in 1 .. Len(blocks) : sent[blocks[k]] > 0}
  /\ \A i \in Items : sent[i] > 0 /\ announced[i] = 0 => sawUnmatchedDelta
  /\ \A i \in Calls : ended[i] > 0 /\ sent[i] > 0 => sent[i] = Parts
  /\ started <=> frames # <<>>
  /\ started \/ blocks = <<>>
  /\ NoEnd(frames)
  /\ (\E k \in 1 .. Len(blocks) : sent[blocks[k]] > 0) => HasFrame(frames, "content_block_delta")
  /\ Mirrors(frames, blocks, openBlocks, sent)

Final == Concluded(frames, started, sent, ended)

GoesOnOrEnds == StreamTypes' /\ (~finished' => Ongoing') /\ (finished' => Final')

LEMMA KnownFacts ==
  ASSUME blocks \in Seq(Items), NEW i
  PROVE  /\ Known(i) <=> \E k \in 1 .. Len(blocks) : blocks[k] = i
         /\ Known(i) => Index(i) \in 1 .. Len(blocks) /\ blocks[Index(i)] = i
<1>1. DOMAIN blocks = 1 .. Len(blocks)
  OBVIOUS
<1>2. Known(i) <=> \E k \in 1 .. Len(blocks) : blocks[k] = i
  BY <1>1 DEF Known, ToSet
<1>3. Known(i) => Index(i) \in 1 .. Len(blocks) /\ blocks[Index(i)] = i
  BY <1>1, <1>2 DEF Index
<1>4. QED
  BY <1>2, <1>3

LEMMA CreatedStep ==
  ASSUME StreamTypes, Ongoing, Created PROVE GoesOnOrEnds
<1>1. PICK fs : fs = frames \o Opening(started)
  OBVIOUS
<1>2. /\ started' = TRUE /\ frames' = fs \o <<>> /\ ~finished
      /\ UNCHANGED <<announced, sent, ended, finished, sawUnmatchedDelta, blocks, openBlocks, blocksWithContent, reasoningItems>>
  BY <1>1 DEF Created, PushStarted, Opening, upstream
<1>3. /\ fs \in Seq(Frames) /\ fs # <<>> /\ Mirrors(fs, blocks, openBlocks, sent) /\ NoEnd(fs)
      /\ HasFrame(frames, "content_block_delta") => HasFrame(fs, "content_block_delta")
  BY <1>1, MirrorsStart DEF StreamTypes, Ongoing
<1>4. frames' = fs
  BY <1>2, <1>3, ConcatEmptySeq
<1>5. StreamTypes'
  BY <1>2, <1>3, <1>4 DEF StreamTypes
<1>6. Ongoing'
  BY <1>2, <1>3, <1>4 DEF Ongoing
<1>7. QED
  BY <1>2, <1>5, <1>6 DEF GoesOnOrEnds

LEMMA ReasonedStep ==
  ASSUME StreamTypes, Ongoing, Reasoned PROVE GoesOnOrEnds
<1>1. /\ ~finished /\ Len(reasoningItems) < Len(Thoughts)
      /\ reasoningItems' = Append(reasoningItems, Thoughts[Len(reasoningItems) + 1])
      /\ UNCHANGED <<announced, sent, ended, started, finished, sawUnmatchedDelta, blocks, openBlocks, blocksWithContent, frames>>
  BY DEF Reasoned, upstream
<1>2. reasoningItems' \in Seq(Reasonings)
  <2>1. Len(reasoningItems) \in Nat /\ Thoughts \in Seq(Reasonings)
    BY StreamAssumption DEF StreamTypes, Reasonings
  <2>2. PICK n \in Nat : n = Len(reasoningItems)
    BY <2>1
  <2>3. n + 1 \in 1 .. Len(Thoughts)
    BY <1>1, <2>1, <2>2
  <2>4. Thoughts[n + 1] \in Reasonings
    BY <2>1, <2>3
  <2>5. QED
    BY <1>1, <2>2, <2>4, AppendProperties DEF StreamTypes
<1>3. StreamTypes'
  BY <1>1, <1>2 DEF StreamTypes
<1>4. Ongoing'
  BY <1>1 DEF Ongoing
<1>5. QED
  BY <1>1, <1>3, <1>4 DEF GoesOnOrEnds

LEMMA ErrorStep ==
  ASSUME StreamTypes, Ongoing, started' = TRUE, finished' = TRUE,
         frames' = frames \o Opening(started) \o <<Frame("error", 0, 0)>>
  PROVE  frames' \in Seq(Frames) /\ Final'
<1>1. PICK fs : fs = frames \o Opening(started)
  OBVIOUS
<1>2. fs \in Seq(Frames) /\ fs # <<>> /\ Mirrors(fs, blocks, openBlocks, sent) /\ NoEnd(fs)
  BY <1>1, MirrorsStart DEF StreamTypes, Ongoing
<1>3. PICK f : f = Frame("error", 0, 0)
  OBVIOUS
<1>4. /\ f \in Frames /\ Append(fs, f) \in Seq(Frames) /\ Concluded(Append(fs, f), started', sent', ended')
  <2>1. PICK st, te, en : st = started' /\ te = sent' /\ en = ended'
    OBVIOUS
  <2>2. f \in Frames /\ Append(fs, f) \in Seq(Frames) /\ Concluded(Append(fs, f), st, te, en)
    BY <1>2, <1>3, ErrorConcludes
  <2>3. QED
    BY <2>1, <2>2
<1>5. frames' = Append(fs, f)
  BY <1>1, <1>2, <1>3, <1>4, OneMoreFrame
<1>6. QED
  BY <1>4, <1>5 DEF Final

LEMMA AddedStep ==
  ASSUME StreamTypes, Ongoing, NEW i \in Items, Added(i) PROVE GoesOnOrEnds
<1>1. PICK fs : fs = frames \o Opening(started)
  OBVIOUS
<1>2. /\ fs \in Seq(Frames) /\ fs # <<>> /\ Mirrors(fs, blocks, openBlocks, sent) /\ NoEnd(fs)
      /\ HasFrame(frames, "content_block_delta") => HasFrame(fs, "content_block_delta")
  BY <1>1, MirrorsStart DEF StreamTypes, Ongoing
<1>3. /\ ~finished /\ (announced[i] = 0 => sent[i] = 0 /\ ended[i] = 0)
      /\ announced' = [announced EXCEPT ![i] = @ + 1]
      /\ UNCHANGED <<sent, ended, sawUnmatchedDelta, blocksWithContent, reasoningItems>>
  BY DEF Added
<1>4. /\ blocks \in Seq(Items) /\ Len(blocks) \in Nat /\ announced \in [Items -> Nat] /\ announced' \in [Items -> Nat]
      /\ announced'[i] > 0 /\ \A j \in Items : j # i => announced'[j] = announced[j]
  BY <1>3 DEF StreamTypes
<1>5. CASE Known(i)
  <2>1. /\ started' = TRUE /\ frames' = fs \o <<>>
        /\ UNCHANGED <<finished, blocks, openBlocks>>
    BY <1>1, <1>5 DEF Added, PushStarted, Opening
  <2>2. frames' = fs
    BY <1>2, <2>1, ConcatEmptySeq
  <2>3. \A j \in Items : announced'[j] > 0 <=> \E k \in 1 .. Len(blocks) : blocks[k] = j
    <3>1. \E k \in 1 .. Len(blocks) : blocks[k] = i
      BY <1>4, <1>5, KnownFacts
    <3>2. QED
      BY <1>4, <3>1 DEF Ongoing
  <2>4. \A j \in Items : sent[j] > 0 /\ announced'[j] = 0 => sawUnmatchedDelta
    BY <1>4 DEF Ongoing
  <2>5. StreamTypes'
    BY <1>2, <1>3, <1>4, <2>1, <2>2 DEF StreamTypes
  <2>6. Ongoing'
    BY <1>2, <1>3, <2>1, <2>2, <2>3, <2>4 DEF Ongoing
  <2>7. QED
    BY <1>3, <2>1, <2>5, <2>6 DEF GoesOnOrEnds
<1>6. CASE ~Known(i) /\ Len(blocks) >= MaxBlocks
  <2>1. /\ started' = TRUE /\ finished' = TRUE
        /\ frames' = frames \o Opening(started) \o <<Frame("error", 0, 0)>>
        /\ UNCHANGED <<blocks, openBlocks>>
    BY <1>6 DEF Added, PushStarted, Opening
  <2>2. frames' \in Seq(Frames) /\ Final'
    BY <2>1, ErrorStep
  <2>3. StreamTypes'
    BY <1>3, <1>4, <2>1, <2>2 DEF StreamTypes
  <2>4. QED
    BY <2>1, <2>2, <2>3 DEF GoesOnOrEnds
<1>7. CASE ~Known(i) /\ ~(Len(blocks) >= MaxBlocks)
  <2>1. /\ started' = TRUE /\ frames' = fs \o <<Frame("content_block_start", Len(blocks) + 1, i)>>
        /\ blocks' = Append(blocks, i) /\ openBlocks' = openBlocks \cup {Len(blocks) + 1}
        /\ UNCHANGED finished
    BY <1>1, <1>7 DEF Added, PushStarted, Opening
  <2>2. \A k \in 1 .. Len(blocks) : blocks[k] # i
    BY <1>4, <1>7, KnownFacts
  <2>3. announced[i] = 0 /\ sent[i] = 0 /\ ended[i] = 0
    <3>1. ~(announced[i] > 0)
      BY <2>2 DEF Ongoing
    <3>2. QED
      BY <1>3, <1>4, <3>1
  <2>4. PICK f : f = Frame("content_block_start", Len(blocks) + 1, i)
    OBVIOUS
  <2>5. /\ f \in Frames /\ ~IsTerminal(f)
        /\ Shape(blocks', openBlocks', sent) /\ Mirrors(Append(fs, f), blocks', openBlocks', sent)
    <3>1. Shape(blocks, openBlocks, sent)
      BY DEF Ongoing
    <3>2. QED
      BY <1>2, <2>1, <2>2, <2>3, <2>4, <3>1, MirrorsBegin
  <2>6. /\ frames' = Append(fs, f) /\ Append(fs, f) \in Seq(Frames) /\ Append(fs, f) # <<>> /\ NoEnd(Append(fs, f))
        /\ HasFrame(fs, "content_block_delta") => HasFrame(Append(fs, f), "content_block_delta")
    BY <1>2, <2>1, <2>4, <2>5, OneMoreFrame
  <2>7. /\ blocks' \in Seq(Items) /\ Len(blocks') = Len(blocks) + 1 /\ blocks'[Len(blocks) + 1] = i
        /\ \A k \in 1 .. Len(blocks) : blocks'[k] = blocks[k]
    BY <1>4, <2>1, AppendProperties
  <2>8. /\ \A k : k \in 1 .. Len(blocks') <=> k \in 1 .. Len(blocks) \/ k = Len(blocks) + 1
        /\ Len(blocks) + 1 \notin 1 .. Len(blocks)
    BY <1>4, <2>7
  <2>9. StreamTypes'
    BY <1>3, <1>4, <2>1, <2>6, <2>7 DEF StreamTypes
  <2>10. \A j \in Items : announced'[j] > 0 <=> \E k \in 1 .. Len(blocks') : blocks'[k] = j
    <3> SUFFICES ASSUME NEW j \in Items PROVE announced'[j] > 0 <=> \E k \in 1 .. Len(blocks') : blocks'[k] = j
      OBVIOUS
    <3>1. CASE j = i
      BY <1>4, <2>7, <2>8, <3>1
    <3>2. CASE j # i
      <4>1. announced[j] > 0 <=> \E k \in 1 .. Len(blocks) : blocks[k] = j
        BY DEF Ongoing
      <4>2. (\E k \in 1 .. Len(blocks') : blocks'[k] = j) <=> \E k \in 1 .. Len(blocks) : blocks[k] = j
        BY <2>7, <2>8, <3>2
      <4>3. QED
        BY <1>4, <3>2, <4>1, <4>2
    <3>3. QED
      BY <3>1, <3>2
  <2>11. openBlocks' = {k \in 1 .. Len(blocks') : ended'[blocks'[k]] = 0}
    <3>1. openBlocks = {k \in 1 .. Len(blocks) : ended[blocks[k]] = 0}
      BY DEF Ongoing
    <3>2. \A k : k \in openBlocks' <=> k \in 1 .. Len(blocks') /\ ended[blocks'[k]] = 0
      BY <2>1, <2>3, <2>7, <2>8, <3>1
    <3>3. QED
      BY <1>3, <3>2
  <2>12. blocksWithContent' = {k \in 1 .. Len(blocks') : sent'[blocks'[k]] > 0}
    <3>1. blocksWithContent = {k \in 1 .. Len(blocks) : sent[blocks[k]] > 0}
      BY DEF Ongoing
    <3>2. ~(sent[i] > 0)
      BY <2>3
    <3>3. \A k : k \in blocksWithContent <=> k \in 1 .. Len(blocks') /\ sent[blocks'[k]] > 0
      BY <2>7, <2>8, <3>1, <3>2
    <3>4. QED
      BY <1>3, <3>3
  <2>13. \A j \in Items : sent'[j] > 0 /\ announced'[j] = 0 => sawUnmatchedDelta'
    BY <1>3, <1>4 DEF Ongoing
  <2>14. (\E k \in 1 .. Len(blocks') : sent'[blocks'[k]] > 0) => HasFrame(frames', "content_block_delta")
    <3>1. ~(sent[i] > 0)
      BY <2>3
    <3>2. (\E k \in 1 .. Len(blocks') : sent[blocks'[k]] > 0) => \E k \in 1 .. Len(blocks) : sent[blocks[k]] > 0
      BY <2>7, <2>8, <3>1
    <3>3. QED
      BY <1>2, <1>3, <2>6, <3>2 DEF Ongoing
  <2>15. Ongoing'
    BY <1>3, <2>1, <2>5, <2>6, <2>10, <2>11, <2>12, <2>13, <2>14 DEF Ongoing
  <2>16. QED
    BY <1>3, <2>1, <2>9, <2>15 DEF GoesOnOrEnds
<1>8. QED
  BY <1>5, <1>6, <1>7

LEMMA ShapeFacts ==
  ASSUME StreamTypes, Ongoing
  PROVE  /\ Shape(blocks, openBlocks, sent) /\ blocks \in Seq(Items) /\ Len(blocks) \in Nat
         /\ \A j, k \in 1 .. Len(blocks) : blocks[j] = blocks[k] => j = k
         /\ \A k \in 1 .. Len(blocks) : blocks[k] \in Items /\ sent[blocks[k]] \in Nat
         /\ \A k : k \in openBlocks <=> k \in 1 .. Len(blocks) /\ ended[blocks[k]] = 0
         /\ \A k : k \in blocksWithContent <=> k \in 1 .. Len(blocks) /\ sent[blocks[k]] > 0
<1>1. Shape(blocks, openBlocks, sent)
  BY DEF Ongoing
<1>2. openBlocks = {k \in 1 .. Len(blocks) : ended[blocks[k]] = 0}
  BY DEF Ongoing
<1>3. blocksWithContent = {k \in 1 .. Len(blocks) : sent[blocks[k]] > 0}
  BY DEF Ongoing
<1>4. blocks \in Seq(Items) /\ Len(blocks) \in Nat /\ \A k \in 1 .. Len(blocks) : blocks[k] \in Items
  BY DEF StreamTypes
<1>5. \A k \in 1 .. Len(blocks) : sent[blocks[k]] \in Nat
  BY <1>4 DEF StreamTypes
<1>6. \A j, k \in 1 .. Len(blocks) : blocks[j] = blocks[k] => j = k
  BY <1>1 DEF Shape
<1>7. QED
  BY <1>1, <1>2, <1>3, <1>4, <1>5, <1>6

LEMMA DeltaStep ==
  ASSUME StreamTypes, Ongoing, NEW i \in Items, Delta(i) PROVE GoesOnOrEnds
<1>1. /\ ~finished /\ ended[i] = 0 /\ sent' = [sent EXCEPT ![i] = @ + 1]
      /\ UNCHANGED <<announced, ended, started, finished, blocks, openBlocks, reasoningItems>>
  BY DEF Delta
<1>2. /\ blocks \in Seq(Items) /\ Len(blocks) \in Nat /\ Shape(blocks, openBlocks, sent)
      /\ \A j, k \in 1 .. Len(blocks) : blocks[j] = blocks[k] => j = k
      /\ \A k \in 1 .. Len(blocks) : blocks[k] \in Items /\ sent[blocks[k]] \in Nat
      /\ \A k : k \in openBlocks <=> k \in 1 .. Len(blocks) /\ ended[blocks[k]] = 0
      /\ \A k : k \in blocksWithContent <=> k \in 1 .. Len(blocks) /\ sent[blocks[k]] > 0
  BY ShapeFacts
<1>3. /\ sent \in [Items -> Nat] /\ sent' \in [Items -> Nat] /\ sent'[i] = sent[i] + 1 /\ sent'[i] > 0
      /\ \A j \in Items : j # i => sent'[j] = sent[j]
  BY <1>1 DEF StreamTypes
<1>4. Shape(blocks, openBlocks, sent')
  BY <1>2, <1>3 DEF Shape
<1>5. \A j \in Calls : ended'[j] > 0 /\ sent'[j] > 0 => sent'[j] = Parts
  <2> SUFFICES ASSUME NEW j \in Calls, ended'[j] > 0, sent'[j] > 0 PROVE sent'[j] = Parts
    OBVIOUS
  <2>1. j # i /\ j \in Items
    BY <1>1 DEF Items
  <2>2. sent'[j] = sent[j]
    BY <1>3, <2>1
  <2>3. QED
    BY <1>1, <2>2 DEF Ongoing
<1>6. CASE Known(i)
  <2>1. PICK k : k = Index(i)
    OBVIOUS
  <2>2. k \in 1 .. Len(blocks) /\ blocks[k] = i
    BY <1>2, <1>6, <2>1, KnownFacts
  <2>3. k \in openBlocks
    BY <1>1, <1>2, <2>2
  <2>4. PICK f : f = Frame("content_block_delta", k, sent[i] + 1)
    OBVIOUS
  <2>5. /\ frames' = Append(frames, f) /\ blocksWithContent' = blocksWithContent \cup {k} /\ UNCHANGED sawUnmatchedDelta
    BY <1>3, <1>6, <2>1, <2>4 DEF Delta
  <2>6. frames \in Seq(Frames) /\ frames # <<>> /\ Mirrors(frames, blocks, openBlocks, sent) /\ NoEnd(frames)
    BY <1>2, <2>2 DEF StreamTypes, Ongoing
  <2>7. /\ f \in Frames /\ ~IsTerminal(f) /\ f.type = "content_block_delta"
        /\ Mirrors(Append(frames, f), blocks, openBlocks, sent')
    <3>1. f = Frame("content_block_delta", k, sent[blocks[k]] + 1) /\ sent' = [sent EXCEPT ![blocks[k]] = @ + 1]
      BY <1>1, <2>2, <2>4
    <3>2. PICK te : te = OneMore(sent, blocks[k])
      OBVIOUS
    <3>3. /\ f \in Frames /\ ~IsTerminal(f) /\ f.type = "content_block_delta"
          /\ Mirrors(Append(frames, f), blocks, openBlocks, te)
      BY <1>2, <2>3, <2>6, <3>1, <3>2, MirrorsDelta
    <3>4. QED
      BY <3>1, <3>2, <3>3 DEF OneMore
  <2>8. /\ Append(frames, f) \in Seq(Frames) /\ Append(frames, f) # <<>> /\ NoEnd(Append(frames, f))
        /\ HasFrame(Append(frames, f), "content_block_delta")
    BY <2>6, <2>7, OneMoreFrame
  <2>9. StreamTypes'
    BY <1>1, <1>3, <2>5, <2>8 DEF StreamTypes
  <2>10. blocksWithContent' = {j \in 1 .. Len(blocks') : sent'[blocks'[j]] > 0}
    <3>1. \A j : j \in 1 .. Len(blocks) /\ j # k => sent'[blocks[j]] = sent[blocks[j]]
      BY <1>2, <1>3, <2>2
    <3>2. \A j : j \in blocksWithContent' <=> j \in 1 .. Len(blocks) /\ sent'[blocks[j]] > 0
      BY <1>2, <1>3, <2>2, <2>5, <3>1
    <3>3. QED
      BY <1>1, <3>2
  <2>11. \A j \in Items : sent'[j] > 0 /\ announced'[j] = 0 => sawUnmatchedDelta'
    <3>1. announced[i] > 0
      BY <2>2 DEF Ongoing
    <3>2. ~(announced[i] = 0)
      BY <3>1
    <3>3. QED
      BY <1>1, <1>3, <2>5, <3>2 DEF Ongoing
  <2>12. Ongoing'
    BY <1>1, <1>4, <1>5, <2>5, <2>6, <2>7, <2>8, <2>10, <2>11 DEF Ongoing
  <2>13. QED
    BY <1>1, <2>9, <2>12 DEF GoesOnOrEnds
<1>7. CASE ~Known(i)
  <2>1. sawUnmatchedDelta' = TRUE /\ UNCHANGED <<frames, blocksWithContent>>
    BY <1>7 DEF Delta
  <2>2. \A k \in 1 .. Len(blocks) : blocks[k] # i
    BY <1>2, <1>7, KnownFacts
  <2>3. Mirrors(frames, blocks, openBlocks, sent')
    <3>1. Mirrors(frames, blocks, openBlocks, sent)
      BY DEF Ongoing
    <3>2. QED
      BY <1>1, <1>2, <2>2, <3>1, MirrorsUnheard
  <2>4. \A k \in 1 .. Len(blocks) : sent'[blocks[k]] = sent[blocks[k]]
    BY <1>2, <1>3, <2>2
  <2>5. blocksWithContent' = {j \in 1 .. Len(blocks') : sent'[blocks'[j]] > 0}
    BY <1>1, <1>2, <2>1, <2>4
  <2>6. (\E k \in 1 .. Len(blocks') : sent'[blocks'[k]] > 0) => HasFrame(frames', "content_block_delta")
    BY <1>1, <2>1, <2>4 DEF Ongoing
  <2>7. StreamTypes'
    BY <1>1, <1>3, <2>1 DEF StreamTypes
  <2>8. Ongoing'
    BY <1>1, <1>4, <1>5, <2>1, <2>3, <2>5, <2>6 DEF Ongoing
  <2>9. QED
    BY <1>1, <2>7, <2>8 DEF GoesOnOrEnds
<1>8. QED
  BY <1>6, <1>7

(* What a call was given is whole, so its end does not spoil the message.   *)
LEMMA WholeNotSpoilt ==
  ASSUME NEW bl \in Seq(Items), NEW se \in [Items -> Nat], NEW k \in 1 .. Len(bl),
         bl[k] \in Calls /\ se[bl[k]] > 0 => se[bl[k]] = Parts
  PROVE  ~Spoilt(Pending(bl, se, k))
<1>1. /\ Pending(bl, se, k).item = bl[k] /\ se[bl[k]] \in Nat
      /\ Pending(bl, se, k).text = <<>> <=> se[bl[k]] = 0
  BY PendingText
<1>2. Pending(bl, se, k).text = [n \in 1 .. se[bl[k]] |-> n]
  BY DEF Pending
<1>3. CASE bl[k] \in Calls /\ se[bl[k]] > 0
  BY <1>2, <1>3 DEF Spoilt, Whole
<1>4. CASE ~(bl[k] \in Calls /\ se[bl[k]] > 0)
  BY <1>1, <1>4 DEF Spoilt
<1>5. QED
  BY <1>3, <1>4

LEMMA DoneStep ==
  ASSUME StreamTypes, Ongoing, NEW i \in Items, Done(i) PROVE GoesOnOrEnds
<1>1. /\ ~finished /\ ended' = [ended EXCEPT ![i] = @ + 1] /\ (i \in Calls /\ sent[i] > 0 => sent[i] = Parts)
      /\ UNCHANGED <<announced, sent, started, finished, sawUnmatchedDelta, blocks, blocksWithContent, reasoningItems>>
  BY DEF Done
<1>2. /\ blocks \in Seq(Items) /\ Len(blocks) \in Nat /\ Shape(blocks, openBlocks, sent)
      /\ \A j, k \in 1 .. Len(blocks) : blocks[j] = blocks[k] => j = k
      /\ \A k \in 1 .. Len(blocks) : blocks[k] \in Items /\ sent[blocks[k]] \in Nat
      /\ \A k : k \in openBlocks <=> k \in 1 .. Len(blocks) /\ ended[blocks[k]] = 0
      /\ \A k : k \in blocksWithContent <=> k \in 1 .. Len(blocks) /\ sent[blocks[k]] > 0
  BY ShapeFacts
<1>3. /\ ended \in [Items -> Nat] /\ ended' \in [Items -> Nat] /\ ended'[i] > 0
      /\ \A j \in Items : j # i => ended'[j] = ended[j]
  BY <1>1 DEF StreamTypes
<1>4. \A j \in Calls : ended'[j] > 0 /\ sent'[j] > 0 => sent'[j] = Parts
  <2> SUFFICES ASSUME NEW j \in Calls, ended'[j] > 0, sent'[j] > 0 PROVE sent'[j] = Parts
    OBVIOUS
  <2>1. CASE j = i
    BY <1>1, <2>1
  <2>2. CASE j # i
    <3>1. j \in Items
      BY DEF Items
    <3>2. ended[j] > 0
      BY <1>3, <2>2, <3>1
    <3>3. QED
      BY <1>1, <3>2 DEF Ongoing
  <2>3. QED
    BY <2>1, <2>2
<1>5. CASE Known(i)
  <2>1. PICK k : k = Index(i)
    OBVIOUS
  <2>2. k \in 1 .. Len(blocks) /\ blocks[k] = i
    BY <1>2, <1>5, <2>1, KnownFacts
  <2>3. PICK f : f = Frame("content_block_stop", k, 0)
    OBVIOUS
  <2>4. frames' = Append(frames, f) /\ openBlocks' = openBlocks \ {k}
    BY <1>5, <2>1, <2>3 DEF Done
  <2>5. frames \in Seq(Frames) /\ frames # <<>> /\ Mirrors(frames, blocks, openBlocks, sent) /\ NoEnd(frames)
    BY <1>2, <2>2 DEF StreamTypes, Ongoing
  <2>6. ~Spoilt(Pending(blocks, sent, k))
    BY <1>1, <1>2, <2>2, WholeNotSpoilt DEF StreamTypes
  <2>7. /\ f \in Frames /\ ~IsTerminal(f) /\ f.type = "content_block_stop"
        /\ Mirrors(Append(frames, f), blocks, openBlocks \ {k}, sent)
    BY <1>2, <2>2, <2>3, <2>5, <2>6, MirrorsStop
  <2>8. /\ Append(frames, f) \in Seq(Frames) /\ Append(frames, f) # <<>> /\ NoEnd(Append(frames, f))
        /\ HasFrame(frames, "content_block_delta") => HasFrame(Append(frames, f), "content_block_delta")
    BY <2>5, <2>7, OneMoreFrame
  <2>9. Shape(blocks, openBlocks \ {k}, sent)
    BY <1>2 DEF Shape
  <2>10. openBlocks' = {j \in 1 .. Len(blocks') : ended'[blocks'[j]] = 0}
    <3>1. \A j : j \in 1 .. Len(blocks) /\ j # k => ended'[blocks[j]] = ended[blocks[j]]
      BY <1>2, <1>3, <2>2
    <3>2. ~(ended'[blocks[k]] = 0)
      BY <1>3, <2>2
    <3>3. \A j : j \in openBlocks' <=> j \in 1 .. Len(blocks) /\ ended'[blocks[j]] = 0
      BY <1>2, <2>2, <2>4, <3>1, <3>2
    <3>4. QED
      BY <1>1, <3>3
  <2>11. StreamTypes'
    BY <1>1, <1>3, <2>4, <2>8 DEF StreamTypes
  <2>12. Ongoing'
    BY <1>1, <1>4, <2>4, <2>5, <2>7, <2>8, <2>9, <2>10 DEF Ongoing
  <2>13. QED
    BY <1>1, <2>11, <2>12 DEF GoesOnOrEnds
<1>6. CASE ~Known(i)
  <2>1. UNCHANGED <<frames, openBlocks>>
    BY <1>6 DEF Done
  <2>2. \A k \in 1 .. Len(blocks) : blocks[k] # i
    BY <1>2, <1>6, KnownFacts
  <2>3. \A k \in 1 .. Len(blocks) : ended'[blocks[k]] = ended[blocks[k]]
    BY <1>2, <1>3, <2>2
  <2>4. openBlocks' = {j \in 1 .. Len(blocks') : ended'[blocks'[j]] = 0}
    BY <1>1, <1>2, <2>1, <2>3
  <2>5. StreamTypes'
    BY <1>1, <1>3, <2>1 DEF StreamTypes
  <2>6. Ongoing'
    BY <1>1, <1>4, <2>1, <2>4 DEF Ongoing
  <2>7. QED
    BY <1>1, <2>5, <2>6 DEF GoesOnOrEnds
<1>7. QED
  BY <1>5, <1>6

LEMMA FailedStep ==
  ASSUME StreamTypes, Ongoing, Failed PROVE GoesOnOrEnds
<1>1. /\ started' = TRUE /\ finished' = TRUE /\ frames' = frames \o Opening(started) \o <<Frame("error", 0, 0)>>
      /\ UNCHANGED <<announced, sent, ended, blocks, reasoningItems>>
  BY DEF Failed, PushStarted, Opening, upstream
<1>2. frames' \in Seq(Frames) /\ Final'
  BY <1>1, ErrorStep
<1>3. StreamTypes'
  BY <1>1, <1>2 DEF StreamTypes
<1>4. QED
  BY <1>1, <1>2, <1>3 DEF GoesOnOrEnds

(* Nothing is lost, or the blocks with content were all seen.               *)
LEMMA ReadyToEnd ==
  ASSUME StreamTypes, Ongoing, NEW fs \in Seq(Frames), fs # <<>>, NoEnd(fs), Mirrors(fs, blocks, openBlocks, sent),
         HasFrame(frames, "content_block_delta") => HasFrame(fs, "content_block_delta"), ~AllLost
  PROVE  /\ Ready(fs, blocks, openBlocks, sent, ended)
         /\ Something(sent) => \E k \in 1 .. Len(blocks) : sent[blocks[k]] > 0
         /\ Reconciled = {k \in openBlocks : sent[blocks[k]] > 0}
<1>1. /\ blocks \in Seq(Items) /\ Len(blocks) \in Nat /\ Shape(blocks, openBlocks, sent)
      /\ \A k \in 1 .. Len(blocks) : blocks[k] \in Items /\ sent[blocks[k]] \in Nat
      /\ \A k : k \in openBlocks <=> k \in 1 .. Len(blocks) /\ ended[blocks[k]] = 0
      /\ \A k : k \in blocksWithContent <=> k \in 1 .. Len(blocks) /\ sent[blocks[k]] > 0
  BY ShapeFacts
<1>2. ASSUME NEW k \in (1 .. Len(blocks)) \ openBlocks PROVE ended[blocks[k]] > 0 /\ ~Spoilt(Pending(blocks, sent, k))
  <2>1. ended[blocks[k]] > 0
    <3>1. ended[blocks[k]] # 0
      BY <1>1
    <3>2. ended[blocks[k]] \in Nat
      BY <1>1 DEF StreamTypes
    <3>3. QED
      BY <3>1, <3>2
  <2>2. blocks[k] \in Calls /\ sent[blocks[k]] > 0 => sent[blocks[k]] = Parts
    BY <2>1 DEF Ongoing
  <2>3. QED
    BY <1>1, <2>1, <2>2, WholeNotSpoilt DEF StreamTypes
<1>3. Ready(fs, blocks, openBlocks, sent, ended)
  <2>1. (\E k \in 1 .. Len(blocks) : sent[blocks[k]] > 0) => HasFrame(fs, "content_block_delta")
    BY DEF Ongoing
  <2>2. QED
    BY <1>1, <1>2, <2>1 DEF Ready
<1>4. ASSUME Something(sent) PROVE \E k \in 1 .. Len(blocks) : sent[blocks[k]] > 0
  <2>1. PICK i \in Items : sent[i] > 0
    BY <1>4 DEF Something
  <2>2. CASE announced[i] > 0
    <3>1. PICK k \in 1 .. Len(blocks) : blocks[k] = i
      BY <2>2 DEF Ongoing
    <3>2. QED
      BY <2>1, <3>1
  <2>3. CASE ~(announced[i] > 0)
    <3>1. announced[i] = 0
      BY <2>3 DEF StreamTypes
    <3>2. sawUnmatchedDelta
      BY <2>1, <3>1 DEF Ongoing
    <3>3. blocksWithContent # {}
      BY <3>2 DEF AllLost
    <3>4. QED
      BY <1>1, <3>3
  <2>4. QED
    BY <2>2, <2>3
<1>5. Reconciled = {k \in openBlocks : sent[blocks[k]] > 0}
  BY <1>1 DEF Reconciled
<1>6. QED
  BY <1>3, <1>4, <1>5

(* The last frames, behind a message that has begun.                        *)
LEMMA LastStep ==
  ASSUME StreamTypes, Ongoing, ~AllLost, NEW fs \in Seq(Frames), fs # <<>>, NoEnd(fs), Mirrors(fs, blocks, openBlocks, sent),
         HasFrame(frames, "content_block_delta") => HasFrame(fs, "content_block_delta"), NEW st
  PROVE  fs \o LastFrames \in Seq(Frames) /\ Concluded(fs \o LastFrames, st, sent, ended)
<1>1. PICK R : R = Reconciled
  OBVIOUS
<1>2. /\ Ready(fs, blocks, openBlocks, sent, ended)
      /\ Something(sent) => \E k \in 1 .. Len(blocks) : sent[blocks[k]] > 0
      /\ R = {k \in openBlocks : sent[blocks[k]] > 0}
  BY <1>1, ReadyToEnd
<1>3. fs \o LastOf(R) \in Seq(Frames) /\ Concluded(fs \o LastOf(R), st, sent, ended)
  <2>1. PICK se, en, bl, op : se = sent /\ en = ended /\ bl = blocks /\ op = openBlocks
    OBVIOUS
  <2>2. fs \o LastOf(R) \in Seq(Frames) /\ Concluded(fs \o LastOf(R), st, se, en)
    BY <1>2, <2>1, LastConcludes
  <2>3. QED
    BY <2>1, <2>2
<1>4. LastFrames = LastOf(R)
  BY <1>1 DEF LastFrames, LastOf
<1>5. QED
  BY <1>3, <1>4

LEMMA CompletedStep ==
  ASSUME StreamTypes, Ongoing, Completed PROVE GoesOnOrEnds
<1>1. /\ started' = TRUE /\ finished' = TRUE /\ frames' = frames \o Opening(started) \o LastFrames
      /\ UNCHANGED <<announced, sent, ended, blocks, reasoningItems>>
  BY DEF Completed, PushStarted, Opening, upstream
<1>2. frames' \in Seq(Frames) /\ Final'
  <2>1. CASE AllLost
    <3>1. LastFrames = <<Frame("error", 0, 0)>>
      BY <2>1 DEF LastFrames
    <3>2. QED
      BY <1>1, <3>1, ErrorStep
  <2>2. CASE ~AllLost
    <3>1. PICK fs : fs = frames \o Opening(started)
      OBVIOUS
    <3>2. /\ fs \in Seq(Frames) /\ fs # <<>> /\ Mirrors(fs, blocks, openBlocks, sent) /\ NoEnd(fs)
          /\ HasFrame(frames, "content_block_delta") => HasFrame(fs, "content_block_delta")
      BY <3>1, MirrorsStart DEF StreamTypes, Ongoing
    <3>3. fs \o LastFrames \in Seq(Frames) /\ Concluded(fs \o LastFrames, TRUE, sent, ended)
      BY <2>2, <3>2, LastStep
    <3>4. QED
      BY <1>1, <3>1, <3>3 DEF Final
  <2>3. QED
    BY <2>1, <2>2
<1>3. StreamTypes'
  BY <1>1, <1>2 DEF StreamTypes
<1>4. QED
  BY <1>1, <1>2, <1>3 DEF GoesOnOrEnds

LEMMA TranslateStep ==
  ASSUME StreamTypes, Ongoing, Translate PROVE GoesOnOrEnds
<1>1. ASSUME NEW i \in Items, Added(i) PROVE GoesOnOrEnds
  BY <1>1, AddedStep
<1>2. ASSUME NEW i \in Items, Delta(i) PROVE GoesOnOrEnds
  BY <1>2, DeltaStep
<1>3. ASSUME NEW i \in Items, Done(i) PROVE GoesOnOrEnds
  BY <1>3, DoneStep
<1>4. QED
  BY <1>1, <1>2, <1>3, CreatedStep, ReasonedStep, CompletedStep, FailedStep DEF Translate

(* flush() ends what was begun, and leaves a turn that is over as it is.     *)
LEMMA FlushStep ==
  ASSUME StreamTypes, ~finished => Ongoing, finished => Final, Flush PROVE StreamTypes' /\ Final'
<1>1. UNCHANGED <<announced, sent, ended, started, finished, blocks, reasoningItems>>
  BY DEF Flush, upstream
<1>2. frames \in Seq(Frames)
  BY DEF StreamTypes
<1>3. frames' \in Seq(Frames) /\ Final'
  <2>1. CASE finished
    <3>1. frames' = frames
      BY <1>2, <2>1, ConcatEmptySeq DEF Flush, Truncated
    <3>2. QED
      BY <1>1, <1>2, <2>1, <3>1 DEF Final
  <2>2. CASE ~finished /\ blocksWithContent # {}
    <3>1. Ongoing /\ ~AllLost
      BY <2>2 DEF AllLost
    <3>2. blocks # <<>>
      <4>1. PICK k : k \in blocksWithContent
        BY <2>2
      <4>2. k \in 1 .. Len(blocks)
        BY <3>1, <4>1, ShapeFacts
      <4>3. QED
        BY <4>2
    <3>3. frames # <<>> /\ NoEnd(frames) /\ Mirrors(frames, blocks, openBlocks, sent)
      BY <3>1, <3>2 DEF Ongoing
    <3>4. PICK st : st = started
      OBVIOUS
    <3>5. frames \o LastFrames \in Seq(Frames) /\ Concluded(frames \o LastFrames, st, sent, ended)
      BY <1>2, <3>1, <3>3, LastStep
    <3>6. frames' = frames \o LastFrames
      BY <2>2 DEF Flush, Truncated
    <3>7. QED
      BY <1>1, <3>4, <3>5, <3>6 DEF Final
  <2>3. CASE ~finished /\ blocksWithContent = {} /\ started
    <3>1. Mirrors(frames, blocks, openBlocks, sent) /\ NoEnd(frames)
      BY <2>3 DEF Ongoing
    <3>2. frames' = frames \o <<Frame("error", 0, 0)>>
      BY <2>3 DEF Flush, Truncated
    <3>3. PICK f, st, se, en : f = Frame("error", 0, 0) /\ st = started /\ se = sent /\ en = ended
      OBVIOUS
    <3>4. f \in Frames /\ Append(frames, f) \in Seq(Frames) /\ Concluded(Append(frames, f), st, se, en)
      BY <1>2, <3>1, <3>3, ErrorConcludes
    <3>5. frames \o <<f>> = Append(frames, f)
      BY <1>2, <3>4, OneMoreFrame
    <3>6. QED
      BY <1>1, <3>2, <3>3, <3>4, <3>5 DEF Final
  <2>4. CASE ~finished /\ blocksWithContent = {} /\ ~started
    <3>1. frames' = <<>> /\ started' = FALSE
      BY <1>1, <1>2, <2>4, ConcatEmptySeq DEF Flush, Truncated, Ongoing
    <3>2. IsDraft(Absorbed(<<>>)) /\ Absorbed(<<>>).kind # "message"
      BY AbsorbedEmpty, DraftFields DEF Nothing, IsDraft, Outcomes, Draft
    <3>3. QED
      BY <3>1, <3>2 DEF Final, Concluded, EndsLast, HasFrame
  <2>5. QED
    BY <2>1, <2>2, <2>3, <2>4
<1>4. StreamTypes'
  BY <1>1, <1>3 DEF StreamTypes
<1>5. QED
  BY <1>3, <1>4

(***************************************************************************)
(* The handler.                                                            *)
(***************************************************************************)
Stages == {"translate", "credentials", "refresh", "fetch", "reading", "settled", "done", "asked"}

(* While a turn goes on its frames mirror the stream, and what ends it is   *)
(* either the stream's own end or the handler's.                            *)
StreamTold ==
  /\ StreamTypes /\ finished \in BOOLEAN
  /\ (stage \notin {"settled", "done"} \/ answer = "interrupted") /\ ~finished => Ongoing
  /\ (stage # "reading" /\ answer # "interrupted") \/ finished => Final

AnswerTold ==
  /\ stage \in Stages /\ wantStream \in BOOLEAN
  /\ stage # "done" => answer = "none" /\ written = 0
  /\ answer = "message" => ~wantStream /\ Aggregate.kind = "message"
  /\ answer = "stream" => wantStream /\ written = Len(frames)
  /\ answer = "interrupted" => written \in 0 .. Len(frames) /\ (~wantStream => written = 0)

TurnIInv == StreamTold /\ AnswerTold

FreshTurn == StreamTypes /\ Ongoing /\ Final /\ finished = FALSE

LEMMA FreshStream == StreamInit => FreshTurn
<1> SUFFICES ASSUME StreamInit PROVE FreshTurn
  OBVIOUS
<1>1. StreamTypes /\ finished = FALSE
  <2>1. [i \in Items |-> 0] \in [Items -> Nat]
    OBVIOUS
  <2>2. announced \in [Items -> Nat] /\ sent \in [Items -> Nat] /\ ended \in [Items -> Nat]
    BY <2>1 DEF StreamInit
  <2>3. blocks \in Seq(Items) /\ frames \in Seq(Frames) /\ reasoningItems \in Seq(Reasonings)
    BY DEF StreamInit
  <2>4. QED
    BY <2>2, <2>3 DEF StreamInit, StreamTypes
<1>2. Final
  <2>1. IsDraft(Absorbed(<<>>)) /\ Absorbed(<<>>).kind # "message"
    BY AbsorbedEmpty, DraftFields DEF Nothing, IsDraft, Outcomes, Draft
  <2>2. QED
    BY <2>1 DEF StreamInit, Final, Concluded, EndsLast, HasFrame
<1>3. Ongoing
  <2>1. Mirrors(frames, blocks, openBlocks, sent)
    BY MirrorsNothing DEF StreamInit
  <2>2. Shape(blocks, openBlocks, sent)
    BY DEF StreamInit, Shape
  <2>3. /\ \A i \in Items : announced[i] = 0 /\ sent[i] = 0 /\ ended[i] = 0
        /\ blocks = <<>> /\ openBlocks = {} /\ blocksWithContent = {} /\ frames = <<>> /\ ~started
    BY DEF StreamInit
  <2>4. Len(blocks) = 0 /\ Len(frames) = 0
    BY <2>3
  <2>5. \A k \in 1 .. Len(blocks) : FALSE
    BY <2>4
  <2>6. NoEnd(frames)
    BY <2>4 DEF NoEnd
  <2>7. /\ openBlocks = {k \in 1 .. Len(blocks) : ended[blocks[k]] = 0}
        /\ blocksWithContent = {k \in 1 .. Len(blocks) : sent[blocks[k]] > 0}
    BY <2>3, <2>5
  <2>8. /\ \A i \in Items : announced[i] > 0 <=> \E k \in 1 .. Len(blocks) : blocks[k] = i
        /\ \A i \in Items : sent[i] > 0 /\ announced[i] = 0 => sawUnmatchedDelta
    BY <2>3, <2>5
  <2>9. \A i \in Calls : ended[i] > 0 /\ sent[i] > 0 => sent[i] = Parts
    BY <2>3 DEF Items
  <2>10. QED
    BY <2>1, <2>2, <2>3, <2>5, <2>6, <2>7, <2>8, <2>9 DEF Ongoing
<1>4. QED
  BY <1>1, <1>2, <1>3 DEF FreshTurn

LEMMA NewStreamFresh ==
  ASSUME NewStream PROVE StreamTypes' /\ Ongoing' /\ Final' /\ finished' = FALSE
<1>1. StreamInit'
  BY DEF NewStream, StreamInit
<1>2. StreamInit' => FreshTurn'
  BY FreshStream, PTL
<1>3. QED
  BY <1>1, <1>2 DEF FreshTurn

LEMMA AggregateKind ==
  ASSUME Final
  PROVE  /\ Aggregate.kind # "stream"
         /\ Aggregate.kind # "interrupted"
         /\ Aggregate.kind = "message" =>
              Absorbed(frames).kind = "message" /\ Delivers(Absorbed(frames).content, sent, ended)
<1>1. PICK m : m = Absorbed(frames)
  OBVIOUS
<1>2. IsDraft(m) /\ (m.kind = "message" => Delivers(m.content, sent, ended))
  BY <1>1 DEF Final, Concluded
<1>3. PICK kind \in Outcomes : \E live, content : m = Draft(kind, live, content)
  BY <1>2 DEF IsDraft
<1>4. m.kind = kind
  BY <1>3, DraftFields
<1>5. [m EXCEPT !.kind = "unclosed"].kind = "unclosed"
  BY <1>3 DEF Draft
<1>6. Aggregate = m \/ Aggregate = [m EXCEPT !.kind = "unclosed"]
  BY <1>1 DEF Aggregate
<1>7. CASE Aggregate = m
  BY <1>1, <1>2, <1>4, <1>7 DEF Outcomes
<1>8. CASE Aggregate = [m EXCEPT !.kind = "unclosed"]
  BY <1>5, <1>8
<1>9. QED
  BY <1>6, <1>7, <1>8

LEMMA InitTurnIInv == Init => TurnIInv
<1> SUFFICES ASSUME Init PROVE TurnIInv
  OBVIOUS
<1>1. StreamInit /\ stage = "translate" /\ wantStream \in BOOLEAN /\ answer = "none" /\ written = 0
  BY DEF Init
<1>2. StreamTypes /\ Ongoing /\ Final /\ finished = FALSE
  BY <1>1, FreshStream DEF FreshTurn
<1>3. QED
  BY <1>1, <1>2 DEF TurnIInv, StreamTold, AnswerTold, Stages

(* What the translator keeps when it does not take a step.                  *)
LEMMA StreamKept ==
  ASSUME StreamTold, UNCHANGED stream
  PROVE  /\ StreamTypes' /\ finished' = finished /\ (Ongoing <=> Ongoing') /\ (Final <=> Final')
         /\ Aggregate' = Aggregate /\ frames' = frames
<1>1. UNCHANGED <<announced, sent, ended, started, finished, sawFunctionCall, sawUnmatchedDelta, blocks, openBlocks,
                  blocksWithContent, frames, reasoningItems>>
  BY DEF stream, upstream
<1>2. StreamTypes'
  BY <1>1 DEF StreamTold, StreamTypes
<1>3. Ongoing <=> Ongoing'
  BY <1>1 DEF Ongoing
<1>4. Final <=> Final'
  BY <1>1 DEF Final
<1>5. Aggregate' = Aggregate
  BY <1>1 DEF Aggregate
<1>6. QED
  BY <1>1, <1>2, <1>3, <1>4, <1>5

(* A response that is not the outcome of a stream.                          *)
LEMMA Refused ==
  ASSUME TurnIInv, NEW what \in {"refused", "unauthorized", "timeout"}, Respond(what), stage # "done",
         UNCHANGED <<wantStream, written>>, StreamTypes', finished' \in BOOLEAN, Final'
  PROVE  TurnIInv'
<1>1. stage' = "done" /\ (answer' = what \/ answer' = answer) /\ answer = "none"
  BY DEF Respond, TurnIInv, AnswerTold
<1>2. answer' \notin {"message", "stream", "interrupted"}
  BY <1>1
<1>3. AnswerTold'
  BY <1>1, <1>2 DEF TurnIInv, AnswerTold, Stages
<1>4. StreamTold'
  BY <1>1, <1>2 DEF StreamTold
<1>5. QED
  BY <1>3, <1>4 DEF TurnIInv

(* The stages before the stream is read, and the end of the wait for it.    *)
LEMMA TurnStepStill ==
  ASSUME TurnIInv, UNCHANGED <<stream, wantStream, written>>, stage # "done",
         \/ stage' = stage /\ answer' = answer
         \/ stage # "reading" /\ answer' = answer /\ stage' \in Stages \ {"settled", "done"} /\ stage # "settled"
  PROVE  TurnIInv'
<1>1. /\ StreamTypes' /\ finished' = finished /\ (Ongoing <=> Ongoing') /\ (Final <=> Final')
      /\ Aggregate' = Aggregate /\ frames' = frames
  BY StreamKept DEF TurnIInv
<1>2. StreamTold'
  BY <1>1 DEF TurnIInv, StreamTold, AnswerTold
<1>3. AnswerTold'
  BY <1>1 DEF TurnIInv, AnswerTold
<1>4. QED
  BY <1>2, <1>3 DEF TurnIInv

LEMMA StepTurnIInv == TurnIInv /\ [Next]_vars => TurnIInv'
<1> SUFFICES ASSUME TurnIInv, [Next]_vars PROVE TurnIInv'
  OBVIOUS
<1>1. /\ StreamTypes /\ finished \in BOOLEAN
      /\ (stage \notin {"settled", "done"} \/ answer = "interrupted") /\ ~finished => Ongoing
      /\ (stage # "reading" /\ answer # "interrupted") \/ finished => Final
  BY DEF TurnIInv, StreamTold
<1>0. stage # "done" => answer = "none"
  BY DEF TurnIInv, AnswerTold
<1>2. UNCHANGED stream /\ StreamTold => StreamTypes' /\ finished' = finished /\ (Ongoing <=> Ongoing') /\ (Final <=> Final')
  BY StreamKept
<1>3. CASE Translated
  BY <1>3, TurnStepStill DEF Translated, Stages
<1>4. CASE Untranslatable
  <2>1. Respond("refused") /\ stage # "done" /\ stage # "reading" /\ UNCHANGED <<wantStream, written, stream>>
    BY <1>4 DEF Untranslatable
  <2>2. QED
    BY <1>1, <1>2, <1>0, <2>1, Refused DEF TurnIInv
<1>5. CASE Credentials
  <2>1. stage \in {"credentials", "refresh"} /\ UNCHANGED <<wantStream, written, stream>>
    BY <1>5 DEF Credentials
  <2>2. CASE stage' = "fetch" /\ UNCHANGED <<res, answer, aborted>>
    BY <2>1, <2>2, TurnStepStill DEF Stages
  <2>3. CASE Respond("unauthorized")
    BY <1>1, <1>2, <1>0, <2>1, <2>3, Refused DEF TurnIInv
  <2>4. QED
    BY <1>5, <2>2, <2>3 DEF Credentials
<1>6. CASE Unauthorized
  BY <1>6, TurnStepStill DEF Unauthorized, Stages
<1>7. CASE FetchFails
  <2>1. Respond("refused") /\ stage # "done" /\ stage # "reading" /\ UNCHANGED <<wantStream, written, stream>>
    BY <1>7 DEF FetchFails
  <2>2. QED
    BY <1>1, <1>2, <1>0, <2>1, Refused DEF TurnIInv
<1>8. CASE FetchOk
  BY <1>8, TurnStepStill DEF FetchOk, Stages
<1>9. CASE Event
  <2>1. /\ stage = "reading" /\ Translate /\ UNCHANGED <<stage, wantStream, written, answer>>
    BY <1>9 DEF Event
  <2>2. ~finished
    BY <2>1 DEF Translate, Created, Reasoned, Completed, Failed, Added, Delta, Done
  <2>3. GoesOnOrEnds /\ finished' \in BOOLEAN
    <3>1. GoesOnOrEnds
      BY <1>1, <2>1, <2>2, TranslateStep
    <3>2. finished' \in BOOLEAN
      <4>1. CASE Created \/ Reasoned \/ Completed \/ Failed
        BY <1>1, <4>1 DEF Created, Reasoned, Completed, Failed
      <4>2. ASSUME NEW i \in Items, Added(i) \/ Delta(i) \/ Done(i) PROVE finished' \in BOOLEAN
        <5>1. CASE Added(i)
          BY <1>1, <5>1 DEF Added
        <5>2. CASE Delta(i)
          BY <1>1, <5>2 DEF Delta
        <5>3. CASE Done(i)
          BY <1>1, <5>3 DEF Done
        <5>4. QED
          BY <4>2, <5>1, <5>2, <5>3
      <4>3. QED
        BY <2>1, <4>1, <4>2 DEF Translate
    <3>3. QED
      BY <3>1, <3>2
  <2>4. StreamTold'
    BY <2>1, <2>3 DEF StreamTold, GoesOnOrEnds
  <2>5. AnswerTold'
    BY <2>1 DEF TurnIInv, AnswerTold
  <2>6. QED
    BY <2>4, <2>5 DEF TurnIInv
<1>10. CASE UpstreamEnds
  <2>1. stage = "reading" /\ Flush /\ stage' = "settled" /\ UNCHANGED <<wantStream, written, answer>>
    BY <1>10 DEF UpstreamEnds
  <2>2. StreamTypes' /\ Final' /\ finished' = finished
    <3>1. StreamTypes' /\ Final'
      BY <1>1, <2>1, FlushStep
    <3>2. QED
      BY <2>1, <3>1 DEF Flush
  <2>3. StreamTold'
    BY <1>1, <1>0, <2>1, <2>2 DEF StreamTold
  <2>4. AnswerTold'
    BY <2>1 DEF TurnIInv, AnswerTold, Stages
  <2>5. QED
    BY <2>3, <2>4 DEF TurnIInv
<1>11. CASE Settled
  <2>1. stage = "settled" /\ Respond(Outcome) /\ written' = Len(frames) /\ UNCHANGED <<wantStream, stream>>
    BY <1>11 DEF Settled
  <2>2. /\ StreamTypes' /\ finished' \in BOOLEAN /\ Final /\ Final' /\ Aggregate' = Aggregate /\ frames' = frames
    <3>1. answer = "none"
      BY <2>1 DEF TurnIInv, AnswerTold
    <3>2. QED
      BY <1>1, <2>1, <3>1, StreamKept DEF TurnIInv
  <2>3. stage' = "done" /\ (answer' = Outcome \/ answer' = answer) /\ answer = "none"
    BY <2>1 DEF Respond, TurnIInv, AnswerTold
  <2>4. Aggregate.kind # "stream" /\ Aggregate.kind # "interrupted"
    BY <2>2, AggregateKind
  <2>5. StreamTold'
    BY <2>2, <2>3, <2>4 DEF StreamTold, Outcome
  <2>6. AnswerTold'
    BY <2>1, <2>2, <2>3, <2>4 DEF TurnIInv, AnswerTold, Outcome, Stages
  <2>7. QED
    BY <2>5, <2>6 DEF TurnIInv
<1>12. CASE Interrupted
  <2>1. /\ stage = "reading" /\ stage' = "done" /\ UNCHANGED wantStream /\ answer = "none" /\ written = 0
        /\ (answer' = "interrupted" \/ (res # "open" /\ answer' = "none"))
    BY <1>12 DEF Interrupted, Respond, TurnIInv, AnswerTold
  <2>2. CASE wantStream /\ res = "open"
    <3>1. UNCHANGED stream /\ written' \in 0 .. Len(frames) /\ answer' = "interrupted"
      BY <1>12, <2>1, <2>2 DEF Interrupted
    <3>2. StreamTypes' /\ finished' = finished /\ (Ongoing <=> Ongoing') /\ (Final <=> Final') /\ frames' = frames
      BY <3>1, StreamKept DEF TurnIInv
    <3>3. StreamTold'
      BY <1>1, <2>1, <3>1, <3>2 DEF StreamTold
    <3>4. AnswerTold'
      BY <2>1, <2>2, <3>1, <3>2 DEF TurnIInv, AnswerTold, Stages
    <3>5. QED
      BY <3>3, <3>4 DEF TurnIInv
  <2>3. CASE ~(wantStream /\ res = "open")
    <3>1. NewStream /\ written' = 0
      BY <1>12, <2>1, <2>3 DEF Interrupted
    <3>2. StreamTypes' /\ Ongoing' /\ Final' /\ finished' = FALSE
      BY <3>1, NewStreamFresh
    <3>3. written' \in 0 .. Len(frames')
      BY <3>1, <3>2 DEF StreamTypes
    <3>4. AnswerTold'
      BY <2>1, <3>1, <3>3 DEF TurnIInv, AnswerTold, Stages
    <3>5. QED
      BY <3>2, <3>4 DEF TurnIInv, StreamTold
  <2>4. QED
    BY <2>2, <2>3
<1>13. CASE FetchAborted
  <2>1. Respond("timeout") /\ stage # "done" /\ stage # "reading" /\ UNCHANGED <<wantStream, written, stream>>
    BY <1>13 DEF FetchAborted
  <2>2. QED
    BY <1>1, <1>2, <1>0, <2>1, Refused DEF TurnIInv
<1>14. CASE Timeout
  BY <1>14, TurnStepStill DEF Timeout, Guarded
<1>15. CASE ClientLeaves
  <2>1. stage' = stage /\ answer' = answer /\ UNCHANGED <<stream, wantStream, written>>
    BY <1>15 DEF ClientLeaves
  <2>2. stage # "done"
    BY <1>15 DEF ClientLeaves, Guarded
  <2>3. QED
    BY <2>1, <2>2, TurnStepStill
<1>16. CASE NextRequest
  <2>1. NewStream /\ stage' = "translate" /\ answer' = "none" /\ written' = 0 /\ UNCHANGED wantStream
    BY <1>16 DEF NextRequest
  <2>2. StreamTypes' /\ Ongoing' /\ Final' /\ finished' = FALSE
    BY <2>1, NewStreamFresh
  <2>3. QED
    BY <2>1, <2>2 DEF TurnIInv, StreamTold, AnswerTold, Stages
<1>17. CASE UNCHANGED vars
  <2>1. UNCHANGED <<stream, stage, wantStream, written, answer>>
    BY <1>17 DEF vars, request
  <2>2. StreamTypes' /\ finished' = finished /\ (Ongoing <=> Ongoing') /\ (Final <=> Final') /\ Aggregate' = Aggregate
        /\ frames' = frames
    BY <2>1, StreamKept DEF TurnIInv
  <2>3. StreamTold'
    BY <1>1, <2>1, <2>2 DEF StreamTold
  <2>4. AnswerTold'
    BY <2>1, <2>2 DEF TurnIInv, AnswerTold
  <2>5. QED
    BY <2>3, <2>4 DEF TurnIInv
<1>18. QED
  BY <1>3, <1>4, <1>5, <1>6, <1>7, <1>8, <1>9, <1>10, <1>11, <1>12, <1>13, <1>14, <1>15, <1>16, <1>17 DEF Next

(* What the client of a stream is left with: all of the frames, or the      *)
(* first of them and an error.                                              *)
LEMMA ReceivedFacts ==
  ASSUME TurnIInv
  PROVE  /\ answer = "stream" => received = frames
         /\ answer = "interrupted" =>
              /\ DOMAIN received = 1 .. written + 1 /\ Len(received) = written + 1
              /\ written \in Nat /\ written <= Len(frames)
              /\ received[written + 1].type = "error"
              /\ \A k \in 1 .. written : received[k] = frames[k]
<1>1. PICK fs : fs = frames
  OBVIOUS
<1>2. fs \in Seq(Frames) /\ Len(fs) \in Nat
  BY <1>1 DEF TurnIInv, StreamTold, StreamTypes
<1>3. PICK n : n = written
  OBVIOUS
<1>4. CASE answer = "stream"
  <2>1. n = Len(fs)
    BY <1>1, <1>3, <1>4 DEF TurnIInv, AnswerTold
  <2>2. SubSeq(fs, 1, Len(fs)) = fs
    BY <1>2
  <2>3. received = SubSeq(fs, 1, n) \o <<>>
    BY <1>1, <1>3, <1>4 DEF received
  <2>4. received = fs
    BY <1>2, <2>1, <2>2, <2>3
  <2>5. QED
    BY <1>1, <1>4, <2>4
<1>5. CASE answer = "interrupted"
  <2>1. n \in 0 .. Len(fs)
    BY <1>1, <1>3, <1>5 DEF TurnIInv, AnswerTold
  <2>2. PICK f : f = Frame("error", 0, 0)
    OBVIOUS
  <2>3. f.type = "error"
    BY <2>2 DEF Frame
  <2>4. f \in Frames
    BY <2>2 DEF Frame, Frames, FrameTypes
  <2>5. PICK head : head = SubSeq(fs, 1, n)
    OBVIOUS
  <2>6. head \in Seq(Frames) /\ Len(head) = n /\ \A k \in 1 .. n : head[k] = fs[k]
    BY <1>2, <2>1, <2>5
  <2>7. PICK all : all = head \o <<f>>
    OBVIOUS
  <2>8. Len(all) = n + 1 /\ DOMAIN all = 1 .. n + 1 /\ all[n + 1] = f /\ \A k \in 1 .. n : all[k] = head[k]
    BY <2>1, <2>4, <2>6, <2>7
  <2>9. received = all
    BY <1>1, <1>3, <1>5, <2>2, <2>5, <2>7 DEF received
  <2>10. /\ DOMAIN all = 1 .. n + 1 /\ Len(all) = n + 1 /\ n \in Nat /\ n <= Len(fs)
         /\ all[n + 1].type = "error" /\ \A k \in 1 .. n : all[k] = fs[k]
    BY <1>2, <2>1, <2>3, <2>6, <2>8
  <2>11. QED
    BY <1>1, <1>3, <1>5, <2>9, <2>10
<1>6. QED
  BY <1>4, <1>5

(* An end of its own in front of that error is the last frame of all.       *)
LEMMA EndInFront ==
  ASSUME TurnIInv, answer = "interrupted", NEW k \in 1 .. written, IsTerminal(received[k])
  PROVE  k = written /\ written = Len(frames) /\ Final /\ wantStream
<1>1. written \in Nat /\ written <= Len(frames) /\ received[k] = frames[k]
  BY ReceivedFacts
<1>2. Len(frames) \in Nat /\ k \in 1 .. Len(frames) /\ IsTerminal(frames[k])
  BY <1>1 DEF TurnIInv, StreamTold, StreamTypes
<1>3. ~NoEnd(frames)
  BY <1>2 DEF NoEnd
<1>4. Final
  BY <1>3 DEF TurnIInv, StreamTold, Ongoing
<1>5. k = Len(frames)
  BY <1>2, <1>4 DEF Final, Concluded, EndsLast
<1>6. wantStream
  BY <1>1 DEF TurnIInv, AnswerTold
<1>7. QED
  BY <1>1, <1>2, <1>4, <1>5, <1>6

LEMMA TurnIInvImplies == TurnIInv => TurnsEndTruly
<1> SUFFICES ASSUME TurnIInv PROVE TurnsEndTruly
  OBVIOUS
<1>0. /\ StreamTypes /\ finished \in BOOLEAN
      /\ (stage \notin {"settled", "done"} \/ answer = "interrupted") /\ ~finished => Ongoing
      /\ (stage # "reading" /\ answer # "interrupted") \/ finished => Final
      /\ stage # "done" => answer = "none"
  BY DEF TurnIInv, StreamTold, AnswerTold
<1>1. DOMAIN frames = 1 .. Len(frames) /\ Len(frames) \in Nat
  BY <1>0 DEF StreamTypes
<1>2. answer = "stream" => Final /\ wantStream /\ received = frames /\ \A type : Has(type) <=> HasFrame(frames, type)
  <2> SUFFICES ASSUME answer = "stream"
               PROVE Final /\ wantStream /\ received = frames /\ \A type : Has(type) <=> HasFrame(frames, type)
    OBVIOUS
  <2>1. received = frames
    BY ReceivedFacts
  <2>2. Final /\ wantStream
    BY <1>0 DEF TurnIInv, AnswerTold
  <2>3. QED
    BY <1>1, <2>1, <2>2 DEF Has, HasFrame
<1>4. ASSUME answer = "message"
      PROVE  Delivers(Reply.content, sent, ended) /\ ~wantStream
  <2>1. Final /\ Aggregate.kind = "message" /\ ~wantStream
    BY <1>0, <1>4 DEF TurnIInv, AnswerTold
  <2>2. QED
    BY <2>1, AggregateKind DEF Reply
<1>5. NeverEmptyTurn
  <2> SUFFICES ASSUME ToldAsTurn, NEW i \in Items, Said(i) PROVE HasContent
    BY DEF NeverEmptyTurn
  <2>1. Something(sent)
    BY DEF Said, Something
  <2>2. CASE answer = "message"
    <3>1. PICK n \in 1 .. Len(Reply.content) : Reply.content[n].text # <<>>
      BY <1>4, <2>1, <2>2 DEF Delivers
    <3>2. Reply.content[n] \in ToSet(Reply.content)
      BY <1>4, <2>2, <3>1 DEF Delivers, ToSet
    <3>3. QED
      BY <1>4, <2>2, <3>1, <3>2 DEF HasContent
  <2>3. CASE answer = "stream"
    <3>1. Has("message_stop") /\ wantStream /\ Final
      BY <1>2, <2>3 DEF ToldAsTurn
    <3>2. HasFrame(frames, "content_block_delta")
      BY <1>2, <2>1, <2>3, <3>1 DEF Final, Concluded
    <3>3. QED
      BY <1>2, <2>3, <3>1, <3>2 DEF HasContent
  <2>4. CASE answer = "interrupted"
    <3>1. PICK k \in DOMAIN received : received[k].type = "message_stop"
      BY <2>4 DEF ToldAsTurn, Has
    <3>2. /\ DOMAIN received = 1 .. written + 1 /\ written \in Nat
          /\ received[written + 1].type = "error" /\ \A j \in 1 .. written : received[j] = frames[j]
      BY <2>4, ReceivedFacts
    <3>3. k # written + 1
      BY <3>1, <3>2
    <3>4. k \in 1 .. written /\ IsTerminal(received[k])
      BY <3>1, <3>2, <3>3 DEF IsTerminal
    <3>5. written = Len(frames) /\ Final /\ wantStream
      BY <2>4, <3>4, EndInFront
    <3>6. k \in 1 .. Len(frames) /\ frames[k].type = "message_stop"
      BY <3>1, <3>2, <3>4, <3>5
    <3>7. HasFrame(frames, "message_stop")
      BY <3>6 DEF HasFrame
    <3>8. HasFrame(frames, "content_block_delta")
      BY <2>1, <3>5, <3>7 DEF Final, Concluded
    <3>9. PICK j \in 1 .. Len(frames) : frames[j].type = "content_block_delta"
      BY <3>8 DEF HasFrame
    <3>10. j \in DOMAIN received /\ received[j].type = "content_block_delta"
      BY <3>2, <3>5, <3>9
    <3>11. QED
      BY <3>5, <3>10 DEF HasContent, Has
  <2>5. QED
    BY <2>2, <2>3, <2>4 DEF ToldAsTurn
<1>6. ArgumentsWhole
  <2> SUFFICES ASSUME answer = "message", NEW e \in ToSet(Reply.content), e.item \in Calls
               PROVE  Whole(e.text) \/ (e.text = <<>> /\ ended[e.item] > 0 /\ ~Said(e.item))
    BY DEF ArgumentsWhole
  <2>1. Delivers(Reply.content, sent, ended)
    BY <1>4
  <2>2. PICK n \in 1 .. Len(Reply.content) : e = Reply.content[n]
    BY <2>1 DEF Delivers, ToSet
  <2>3. Whole(e.text) \/ (e.text = <<>> /\ ended[e.item] > 0 /\ sent[e.item] = 0)
    BY <2>1, <2>2 DEF Delivers
  <2>4. QED
    BY <2>3 DEF Said
<1>7. EndsOnce
  <2>1. EndsOf(frames) \subseteq {Len(frames)}
    <3>1. EndsLast(frames)
      <4>1. CASE Final
        BY <4>1 DEF Final, Concluded
      <4>2. CASE Ongoing
        BY <4>2 DEF Ongoing, NoEnd, EndsLast
      <4>3. QED
        BY <1>0, <4>1, <4>2
    <3>2. QED
      BY <1>1, <3>1 DEF EndsOf, EndsLast
  <2>2. ASSUME answer = "stream" PROVE EndsOf(received) \subseteq {Len(received)} /\ (started => EndsOf(received) # {})
    <3>1. received = frames /\ (started => Ends(frames))
      BY <1>2, <2>2 DEF Final, Concluded
    <3>2. QED
      BY <1>1, <2>1, <3>1 DEF EndsOf, Ends
  <2>3. ASSUME answer = "interrupted"
        PROVE  Len(received) \in EndsOf(received) /\ EndsOf(received) \subseteq {Len(received) - 1, Len(received)}
    <3>1. /\ DOMAIN received = 1 .. written + 1 /\ Len(received) = written + 1 /\ written \in Nat
          /\ received[written + 1].type = "error"
      BY <2>3, ReceivedFacts
    <3>2. written + 1 \in EndsOf(received)
      BY <3>1 DEF EndsOf, IsTerminal
    <3>3. ASSUME NEW k \in EndsOf(received) PROVE k \in {written, written + 1}
      <4>1. k \in 1 .. written + 1 /\ IsTerminal(received[k])
        BY <3>1, <3>3 DEF EndsOf
      <4>2. CASE k = written + 1
        BY <4>2
      <4>3. CASE k # written + 1
        <5>1. k \in 1 .. written
          BY <3>1, <4>1, <4>3
        <5>2. QED
          BY <2>3, <4>1, <5>1, EndInFront
      <4>4. QED
        BY <4>2, <4>3
    <3>4. Len(received) - 1 = written
      BY <3>1
    <3>5. QED
      BY <3>1, <3>2, <3>3, <3>4
  <2>4. QED
    BY <2>1, <2>2, <2>3 DEF EndsOnce
<1>8. QED
  BY <1>5, <1>6, <1>7 DEF TurnsEndTruly

(* The inductive invariant of a turn: the frames written so far and the     *)
(* message they make are those of the blocks, the deltas and the ends the   *)
(* upstream has sent (createAnthropicSseTranslator(), aggregateFrames(),    *)
(* handleMessages()).                                                       *)
THEOREM TurnInvariance == Spec => []TurnIInv
BY InitTurnIInv, StepTurnIInv, PTL DEF Spec

(* Whatever a Codex stream leaves out, repeats or ends with, the turn of a  *)
(* client is never an empty one that hides content, its calls never carry   *)
(* invented arguments, and it ends once: handleMessages() with              *)
(* createAnthropicSseTranslator() and aggregateFrames(), for every number   *)
(* of items, of deltas and of blocks.                                       *)
THEOREM TurnsEndTrulyHolds == Spec => []TurnsEndTruly
BY TurnInvariance, TurnIInvImplies, PTL

(***************************************************************************)
(* A recursive function is what one step after the other makes of the first *)
(* value.                                                                  *)
(***************************************************************************)
Follow(f, N, base, step) == f = [n \in 0 .. N |-> IF n = 0 THEN base ELSE step[<<f[n - 1], n>>]]

LEMMA FollowExists ==
  ASSUME NEW S, NEW base \in S, NEW step \in [S \X Nat -> S], NEW N \in Nat
  PROVE  \E f : Follow(f, N, base, step)
<1> DEFINE T == {n \in Nat : \E f \in [0 .. n -> S] : Follow(f, n, base, step)}
<1>1. 0 \in T
  <2>1. [n \in 0 .. 0 |-> base] \in [0 .. 0 -> S]
    OBVIOUS
  <2>2. Follow([n \in 0 .. 0 |-> base], 0, base, step)
    BY DEF Follow
  <2>3. QED
    BY <2>1, <2>2
<1>2. ASSUME NEW n \in Nat, n \in T PROVE n + 1 \in T
  <2>1. PICK f \in [0 .. n -> S] : Follow(f, n, base, step)
    BY <1>2
  <2> DEFINE g == [k \in 0 .. n + 1 |-> IF k = n + 1 THEN step[<<f[n], n + 1>>] ELSE f[k]]
  <2>2. n \in 0 .. n /\ f[n] \in S /\ step[<<f[n], n + 1>>] \in S
    OBVIOUS
  <2>3. g \in [0 .. n + 1 -> S]
    BY <2>2
  <2>4. ASSUME NEW k \in 0 .. n + 1 PROVE g[k] = IF k = 0 THEN base ELSE step[<<g[k - 1], k>>]
    <3>1. CASE k = n + 1
      <4>1. k # 0 /\ k - 1 = n /\ n \in 0 .. n + 1 /\ n # n + 1
        BY <3>1
      <4>2. g[k - 1] = f[n] /\ g[k] = step[<<f[n], n + 1>>]
        BY <3>1, <4>1
      <4>3. QED
        BY <3>1, <4>1, <4>2
    <3>2. CASE k # n + 1
      <4>1. k \in 0 .. n /\ g[k] = f[k]
        BY <3>2
      <4>2. f[k] = IF k = 0 THEN base ELSE step[<<f[k - 1], k>>]
        BY <2>1, <4>1 DEF Follow
      <4>3. CASE k = 0
        BY <4>1, <4>2, <4>3
      <4>4. CASE k # 0
        <5>1. k - 1 \in 0 .. n + 1 /\ k - 1 # n + 1
          BY <4>1, <4>4
        <5>2. g[k - 1] = f[k - 1]
          BY <5>1
        <5>3. QED
          BY <4>1, <4>2, <4>4, <5>2
      <4>5. QED
        BY <4>3, <4>4
    <3>3. QED
      BY <3>1, <3>2
  <2>5. g = [k \in 0 .. n + 1 |-> g[k]]
    BY <2>3
  <2> HIDE DEF g
  <2>6. g = [k \in 0 .. n + 1 |-> IF k = 0 THEN base ELSE step[<<g[k - 1], k>>]]
    BY <2>4, <2>5
  <2>7. Follow(g, n + 1, base, step)
    BY <2>6 DEF Follow
  <2>8. QED
    BY <2>3, <2>7
<1> HIDE DEF T
<1>3. N \in T
  BY <1>1, <1>2, UpTo
<1>4. QED
  BY <1>3 DEF T

LEMMA FollowTyped ==
  ASSUME NEW S, NEW base \in S, NEW step \in [S \X Nat -> S], NEW N \in Nat, NEW f, Follow(f, N, base, step)
  PROVE  f \in [0 .. N -> S]
<1> DEFINE T == {n \in 0 .. N : f[n] \in S}
<1>1. \A n \in 0 .. N : f[n] = IF n = 0 THEN base ELSE step[<<f[n - 1], n>>]
  BY DEF Follow
<1>2. 0 \in T
  <2>1. 0 \in 0 .. N
    OBVIOUS
  <2>2. QED
    BY <1>1, <2>1
<1>3. ASSUME NEW n \in 0 .. N - 1, n \in T PROVE n + 1 \in T
  <2>1. n + 1 \in 0 .. N /\ n + 1 # 0 /\ (n + 1) - 1 = n /\ n + 1 \in Nat
    OBVIOUS
  <2>2. f[n + 1] = step[<<f[n], n + 1>>]
    BY <1>1, <2>1
  <2>3. f[n] \in S
    BY <1>3
  <2>4. step[<<f[n], n + 1>>] \in S
    BY <2>1, <2>3
  <2>5. QED
    BY <2>1, <2>2, <2>4
<1>4. \A n \in 0 .. N : f[n] \in S
  BY <1>2, <1>3, UpTo
<1>5. f = [n \in 0 .. N |-> f[n]]
  BY DEF Follow
<1>6. QED
  BY <1>4, <1>5

(***************************************************************************)
(* The bytes of a sequence of entries.                                     *)
(***************************************************************************)
LEMMA SumsFacts ==
  ASSUME NEW s \in Seq(Nat)
  PROVE  /\ Sums(s) \in [0 .. Len(s) -> Nat]
         /\ Sums(s)[0] = 0
         /\ \A n \in 1 .. Len(s) : Sums(s)[n] = Sums(s)[n - 1] + s[n]
<1> DEFINE step == [p \in Nat \X Nat |-> p[1] + (IF p[2] \in 1 .. Len(s) THEN s[p[2]] ELSE 0)]
<1>1. Len(s) \in Nat /\ \A n \in 1 .. Len(s) : s[n] \in Nat
  OBVIOUS
<1>2. step \in [Nat \X Nat -> Nat] /\ \A a, n \in Nat : step[<<a, n>>] = a + (IF n \in 1 .. Len(s) THEN s[n] ELSE 0)
  BY <1>1
<1> HIDE DEF step
<1>3. PICK f : Follow(f, Len(s), 0, step)
  BY <1>1, <1>2, FollowExists
<1>4. f \in [0 .. Len(s) -> Nat]
  BY <1>1, <1>2, <1>3, FollowTyped
<1>5. \A n \in 0 .. Len(s) : n # 0 => step[<<f[n - 1], n>>] = f[n - 1] + s[n]
  <2>1. ASSUME NEW n \in 0 .. Len(s), n # 0 PROVE step[<<f[n - 1], n>>] = f[n - 1] + s[n]
    <3>1. n \in Nat /\ n \in 1 .. Len(s) /\ n - 1 \in 0 .. Len(s)
      BY <1>1, <2>1
    <3>2. f[n - 1] \in Nat
      BY <1>4, <3>1
    <3>3. QED
      BY <1>2, <3>1, <3>2
  <2>2. QED
    BY <2>1
<1>6. f = [n \in 0 .. Len(s) |-> IF n = 0 THEN 0 ELSE f[n - 1] + s[n]]
  BY <1>3, <1>5 DEF Follow
<1>7. Sums(s) = [n \in 0 .. Len(s) |-> IF n = 0 THEN 0 ELSE Sums(s)[n - 1] + s[n]]
  BY <1>6 DEF Sums
<1> DEFINE g == Sums(s)
<1>8. g = [n \in 0 .. Len(s) |-> IF n = 0 THEN 0 ELSE g[n - 1] + s[n]]
  BY <1>7
<1> HIDE DEF g
<1>9. g[0] = 0 /\ \A n \in 1 .. Len(s) : g[n] = g[n - 1] + s[n]
  <2>1. 0 \in 0 .. Len(s) /\ 1 .. Len(s) \subseteq 0 .. Len(s) /\ 0 \notin 1 .. Len(s)
    BY <1>1
  <2>2. \A n \in 0 .. Len(s) : g[n] = IF n = 0 THEN 0 ELSE g[n - 1] + s[n]
    BY <1>8
  <2>3. QED
    BY <2>1, <2>2
<1>10. g \in [0 .. Len(s) -> Nat]
  <2> DEFINE T == {n \in 0 .. Len(s) : g[n] \in Nat}
  <2>1. 0 \in T
    BY <1>1, <1>9
  <2>2. ASSUME NEW n \in 0 .. Len(s) - 1, n \in T PROVE n + 1 \in T
    <3>1. n + 1 \in 1 .. Len(s) /\ (n + 1) - 1 = n
      BY <1>1
    <3>2. g[n + 1] = g[n] + s[n + 1]
      BY <1>9, <3>1
    <3>3. QED
      BY <1>1, <2>2, <3>1, <3>2
  <2>3. \A n \in 0 .. Len(s) : g[n] \in Nat
    BY <1>1, <2>1, <2>2, UpTo
  <2>4. g = [n \in 0 .. Len(s) |-> g[n]]
    BY <1>8
  <2>5. QED
    BY <2>3, <2>4
<1>11. QED
  BY <1>9, <1>10 DEF g
Weighed(E) == \A e \in E : e.bytes \in Nat

ByteSums(entries) == Sums([k \in DOMAIN entries |-> entries[k].bytes])

LEMMA ByteSumsFacts ==
  ASSUME NEW E, Weighed(E), NEW s \in Seq(E)
  PROVE  /\ ByteSums(s) \in [0 .. Len(s) -> Nat]
         /\ ByteSums(s)[0] = 0
         /\ \A n \in 1 .. Len(s) : ByteSums(s)[n] = ByteSums(s)[n - 1] + s[n].bytes
         /\ bytesOf(s) = ByteSums(s)[Len(s)]
<1> DEFINE b == [k \in 1 .. Len(s) |-> s[k].bytes]
<1>1. Len(s) \in Nat /\ DOMAIN s = 1 .. Len(s) /\ \A k \in 1 .. Len(s) : s[k].bytes \in Nat
  BY DEF Weighed
<1>2. b \in Seq(Nat) /\ Len(b) = Len(s) /\ \A k \in 1 .. Len(s) : b[k] = s[k].bytes
  BY <1>1
<1>3. ByteSums(s) = Sums(b) /\ bytesOf(s) = Sums(b)[Len(b)]
  BY <1>1 DEF ByteSums, bytesOf, Total
<1> HIDE DEF b
<1>4. Sums(b) \in [0 .. Len(b) -> Nat] /\ Sums(b)[0] = 0 /\ \A n \in 1 .. Len(b) : Sums(b)[n] = Sums(b)[n - 1] + b[n]
  BY <1>2, SumsFacts
<1>5. QED
  BY <1>2, <1>3, <1>4

(* A stretch of one sequence that is found in another adds the same.        *)
Stretch(s, i, t, j, n) ==
  /\ {i, j, n} \subseteq Nat
  /\ i + n <= Len(s) /\ j + n <= Len(t)
  /\ \A k \in 1 .. n : s[i + k] = t[j + k]

LEMMA SumsOfStretch ==
  ASSUME NEW E, Weighed(E), NEW s \in Seq(E), NEW t \in Seq(E), NEW i, NEW j, NEW n, Stretch(s, i, t, j, n)
  PROVE  ByteSums(s)[i + n] - ByteSums(s)[i] = ByteSums(t)[j + n] - ByteSums(t)[j]
<1>0. /\ i \in Nat /\ j \in Nat /\ n \in Nat
      /\ i + n <= Len(s) /\ j + n <= Len(t)
      /\ \A k \in 1 .. n : s[i + k] = t[j + k]
  BY DEF Stretch
<1> DEFINE f == ByteSums(s)
           g == ByteSums(t)
           T == {k \in 0 .. n : f[i + k] - f[i] = g[j + k] - g[j]}
<1>1. /\ f \in [0 .. Len(s) -> Nat] /\ \A k \in 1 .. Len(s) : f[k] = f[k - 1] + s[k].bytes
      /\ g \in [0 .. Len(t) -> Nat] /\ \A k \in 1 .. Len(t) : g[k] = g[k - 1] + t[k].bytes
      /\ Len(s) \in Nat /\ Len(t) \in Nat
  BY ByteSumsFacts
<1>2. \A k \in 1 .. Len(s) : s[k].bytes \in Nat
  BY DEF Weighed
<1> HIDE DEF f, g
<1>3. 0 \in T
  <2>1. i \in 0 .. Len(s) /\ j \in 0 .. Len(t)
    BY <1>0, <1>1
  <2>2. f[i] \in Nat /\ g[j] \in Nat
    BY <1>1, <2>1
  <2>3. i + 0 = i /\ j + 0 = j /\ 0 \in 0 .. n
    BY <1>0
  <2>4. f[i] - f[i] = 0 /\ g[j] - g[j] = 0
    BY <2>2
  <2>5. QED
    BY <2>3, <2>4
<1>4. ASSUME NEW k \in 0 .. n - 1, k \in T PROVE k + 1 \in T
  <2>0. k \in Nat /\ k + 1 <= n /\ Len(s) \in Nat /\ Len(t) \in Nat
    BY <1>0, <1>1
  <2>1. /\ i + (k + 1) \in 1 .. Len(s) /\ (i + (k + 1)) - 1 = i + k /\ i + k \in 0 .. Len(s) /\ i \in 0 .. Len(s)
        /\ j + (k + 1) \in 1 .. Len(t) /\ (j + (k + 1)) - 1 = j + k /\ j + k \in 0 .. Len(t) /\ j \in 0 .. Len(t)
        /\ k + 1 \in 1 .. n
    <3>1. i + (k + 1) <= i + n /\ j + (k + 1) <= j + n
      BY <1>0, <2>0
    <3>2. i + (k + 1) <= Len(s) /\ j + (k + 1) <= Len(t)
      BY <1>0, <1>1, <2>0, <3>1
    <3>3. QED
      BY <1>0, <2>0, <3>2
  <2>2. /\ f[i + (k + 1)] = f[i + k] + s[i + (k + 1)].bytes
        /\ g[j + (k + 1)] = g[j + k] + t[j + (k + 1)].bytes
    BY <1>1, <2>1
  <2>3. s[i + (k + 1)] = t[j + (k + 1)] /\ s[i + (k + 1)].bytes \in Nat
    BY <1>0, <1>2, <2>1
  <2>4. f[i + k] \in Nat /\ g[j + k] \in Nat /\ f[i] \in Nat /\ g[j] \in Nat
    BY <1>1, <2>1
  <2>5. f[i + k] - f[i] = g[j + k] - g[j]
    BY <1>4
  <2>6. f[i + (k + 1)] - f[i] = g[j + (k + 1)] - g[j]
    <3>1. PICK a, b, c, d, e : /\ a = f[i + k] /\ b = f[i] /\ c = g[j + k] /\ d = g[j]
                              /\ e = s[i + (k + 1)].bytes
      OBVIOUS
    <3>2. a \in Nat /\ b \in Nat /\ c \in Nat /\ d \in Nat /\ e \in Nat /\ a - b = c - d
      BY <2>3, <2>4, <2>5, <3>1
    <3>3. (a + e) - b = (c + e) - d
      BY <3>2
    <3>4. f[i + (k + 1)] = a + e /\ g[j + (k + 1)] = c + e
      BY <2>2, <2>3, <3>1
    <3>5. QED
      BY <3>1, <3>3, <3>4
  <2>7. QED
    BY <2>1, <2>6
<1>5. \A k \in 0 .. n : k \in T
  <2> HIDE DEF T
  <2>1. QED
    BY <1>0, <1>3, <1>4, UpTo
<1>6. n \in T
  BY <1>0, <1>5
<1>7. QED
  BY <1>6 DEF f, g

LEMMA TotalFacts ==
  ASSUME NEW E, Weighed(E), NEW s \in Seq(E)
  PROVE  /\ bytesOf(s) \in Nat
         /\ Len(s) = 0 => bytesOf(s) = 0
BY ByteSumsFacts

LEMMA TotalAppend ==
  ASSUME NEW E, Weighed(E), NEW s \in Seq(E), NEW e \in E
  PROVE  bytesOf(Append(s, e)) = bytesOf(s) + e.bytes
<1> DEFINE t == Append(s, e)
<1>1. /\ t \in Seq(E) /\ Len(s) \in Nat /\ Len(t) = Len(s) + 1
      /\ \A k \in 1 .. Len(s) : t[k] = s[k]
      /\ t[Len(s) + 1] = e
  BY AppendProperties
<1> HIDE DEF t
<1>2. /\ ByteSums(t)[0] = 0 /\ ByteSums(s)[0] = 0 /\ ByteSums(s)[Len(s)] \in Nat /\ ByteSums(t)[Len(s)] \in Nat
      /\ ByteSums(t)[Len(s) + 1] = ByteSums(t)[(Len(s) + 1) - 1] + t[Len(s) + 1].bytes
  <2>1. /\ ByteSums(t) \in [0 .. Len(t) -> Nat] /\ ByteSums(t)[0] = 0
        /\ \A n \in 1 .. Len(t) : ByteSums(t)[n] = ByteSums(t)[n - 1] + t[n].bytes
    BY <1>1, ByteSumsFacts
  <2>2. ByteSums(s) \in [0 .. Len(s) -> Nat] /\ ByteSums(s)[0] = 0
    BY ByteSumsFacts
  <2>3. QED
    BY <1>1, <2>1, <2>2
<1>3. ByteSums(t)[Len(s)] - ByteSums(t)[0] = ByteSums(s)[Len(s)] - ByteSums(s)[0]
  <2>1. PICK z \in Nat, n \in Nat : z = 0 /\ n = Len(s)
    BY <1>1
  <2>2. Stretch(t, z, s, z, n)
    BY <1>1, <2>1 DEF Stretch
  <2>3. ByteSums(t)[z + n] - ByteSums(t)[z] = ByteSums(s)[z + n] - ByteSums(s)[z]
    BY <1>1, <2>2, SumsOfStretch
  <2>4. z + n = n
    BY <2>1
  <2>5. QED
    BY <2>1, <2>3, <2>4
<1>4. ByteSums(t)[Len(s)] = ByteSums(s)[Len(s)]
  BY <1>2, <1>3
<1>5. (Len(s) + 1) - 1 = Len(s)
  BY <1>1
<1>7. bytesOf(s) = ByteSums(s)[Len(s)] /\ bytesOf(t) = ByteSums(t)[Len(t)]
  BY <1>1, ByteSumsFacts
<1>6. QED
  BY <1>1, <1>2, <1>4, <1>5, <1>7 DEF t

(* A sequence cut in two.                                                   *)
LEMMA TotalOfCut ==
  ASSUME NEW E, Weighed(E), NEW s \in Seq(E), NEW n \in 0 .. Len(s)
  PROVE  /\ SubSeq(s, 1, n) \in Seq(E) /\ bytesOf(SubSeq(s, 1, n)) = ByteSums(s)[n]
         /\ SubSeq(s, n + 1, Len(s)) \in Seq(E) /\ Len(SubSeq(s, n + 1, Len(s))) = Len(s) - n
         /\ bytesOf(SubSeq(s, n + 1, Len(s))) = bytesOf(s) - ByteSums(s)[n]
<1> DEFINE a == SubSeq(s, 1, n)
           b == SubSeq(s, n + 1, Len(s))
<1>1. Len(s) \in Nat /\ n \in Nat /\ \A k \in 1 .. Len(s) : s[k] \in E
  OBVIOUS
<1>2. a \in Seq(E) /\ Len(a) = n /\ \A k \in 1 .. n : a[k] = s[k]
  BY <1>1
<1>3. b \in Seq(E) /\ Len(b) = Len(s) - n /\ \A k \in 1 .. Len(s) - n : b[k] = s[n + k]
  BY <1>1
<1> HIDE DEF a, b
<1>4. /\ ByteSums(s)[0] = 0 /\ ByteSums(s)[n] \in Nat /\ ByteSums(s)[Len(s)] \in Nat
      /\ ByteSums(a)[0] = 0 /\ ByteSums(a)[n] \in Nat /\ ByteSums(b)[0] = 0 /\ ByteSums(b)[Len(s) - n] \in Nat
  <2>1. ByteSums(s) \in [0 .. Len(s) -> Nat] /\ ByteSums(s)[0] = 0
    BY ByteSumsFacts
  <2>2. ByteSums(a) \in [0 .. n -> Nat] /\ ByteSums(a)[0] = 0
    BY <1>2, ByteSumsFacts
  <2>3. ByteSums(b) \in [0 .. Len(s) - n -> Nat] /\ ByteSums(b)[0] = 0
    BY <1>3, ByteSumsFacts
  <2>4. /\ 0 \in 0 .. Len(s) /\ n \in 0 .. Len(s) /\ Len(s) \in 0 .. Len(s) /\ n \in 0 .. n
        /\ Len(s) - n \in 0 .. Len(s) - n
    BY <1>1
  <2>5. QED
    BY <2>1, <2>2, <2>3, <2>4
<1>5. ByteSums(a)[n] - ByteSums(a)[0] = ByteSums(s)[n] - ByteSums(s)[0]
  <2>1. PICK z \in Nat : z = 0
    OBVIOUS
  <2>2. Stretch(a, z, s, z, n)
    BY <1>1, <1>2, <2>1 DEF Stretch
  <2>3. ByteSums(a)[z + n] - ByteSums(a)[z] = ByteSums(s)[z + n] - ByteSums(s)[z]
    BY <1>2, <2>2, SumsOfStretch
  <2>4. z + n = n
    BY <1>1, <2>1
  <2>5. QED
    BY <2>1, <2>3, <2>4
<1>6. ByteSums(b)[Len(s) - n] - ByteSums(b)[0] = ByteSums(s)[Len(s)] - ByteSums(s)[n]
  <2>1. PICK z \in Nat, m \in Nat, e \in Nat : z = 0 /\ m = Len(s) - n /\ e = Len(s)
    <3>1. Len(s) - n \in Nat
      BY <1>1
    <3>2. QED
      BY <1>1, <3>1
  <2>2. Stretch(b, z, s, n, m)
    BY <1>1, <1>3, <2>1 DEF Stretch
  <2>3. ByteSums(b)[z + m] - ByteSums(b)[z] = ByteSums(s)[n + m] - ByteSums(s)[n]
    BY <1>3, <2>2, SumsOfStretch
  <2>4. z + m = m /\ n + m = e
    BY <1>1, <2>1
  <2>5. QED
    BY <2>1, <2>3, <2>4
<1>8. ByteSums(a)[n] = ByteSums(s)[n] /\ ByteSums(b)[Len(s) - n] = ByteSums(s)[Len(s)] - ByteSums(s)[n]
  BY <1>4, <1>5, <1>6
<1>9. /\ bytesOf(s) = ByteSums(s)[Len(s)] /\ bytesOf(a) = ByteSums(a)[Len(a)] /\ bytesOf(b) = ByteSums(b)[Len(b)]
  BY <1>2, <1>3, ByteSumsFacts
<1>10. QED
  BY <1>2, <1>3, <1>8, <1>9 DEF a, b

LEMMA RemoveAtFacts ==
  ASSUME NEW E, NEW s \in Seq(E), NEW n \in 1 .. Len(s)
  PROVE  /\ RemoveAt(s, n) \in Seq(E) /\ Len(RemoveAt(s, n)) = Len(s) - 1
         /\ \A k \in 1 .. Len(s) - 1 : RemoveAt(s, n)[k] = s[IF k < n THEN k ELSE k + 1]
<1> DEFINE a == SubSeq(s, 1, n - 1)
           b == SubSeq(s, n + 1, Len(s))
<1>1. Len(s) \in Nat /\ n \in Nat /\ \A k \in 1 .. Len(s) : s[k] \in E
  OBVIOUS
<1>2. a \in Seq(E) /\ Len(a) = n - 1 /\ \A k \in 1 .. n - 1 : a[k] = s[k]
  BY <1>1
<1>3. b \in Seq(E) /\ Len(b) = Len(s) - n /\ \A k \in 1 .. Len(s) - n : b[k] = s[n + k]
  BY <1>1
<1>4. RemoveAt(s, n) = a \o b
  BY DEF RemoveAt
<1> HIDE DEF a, b
<1>5. /\ a \o b \in Seq(E) /\ Len(a \o b) = Len(a) + Len(b)
      /\ \A k \in 1 .. Len(a) + Len(b) : (a \o b)[k] = IF k <= Len(a) THEN a[k] ELSE b[k - Len(a)]
  BY <1>2, <1>3, ConcatProperties
<1>6. Len(a) + Len(b) = Len(s) - 1
  BY <1>1, <1>2, <1>3
<1>7. ASSUME NEW k \in 1 .. Len(s) - 1 PROVE (a \o b)[k] = s[IF k < n THEN k ELSE k + 1]
  <2>1. CASE k < n
    <3>1. k <= Len(a) /\ k \in 1 .. n - 1
      BY <1>1, <1>2, <2>1
    <3>2. QED
      BY <1>2, <1>5, <1>6, <2>1, <3>1
  <2>2. CASE ~(k < n)
    <3>1. ~(k <= Len(a)) /\ k - Len(a) \in 1 .. Len(s) - n /\ n + (k - Len(a)) = k + 1
      BY <1>1, <1>2, <2>2
    <3>2. QED
      BY <1>3, <1>5, <1>6, <2>2, <3>1
  <2>3. QED
    BY <2>1, <2>2
<1>8. QED
  BY <1>4, <1>5, <1>6, <1>7

LEMMA TotalRemoveAt ==
  ASSUME NEW E, Weighed(E), NEW s \in Seq(E), NEW n \in 1 .. Len(s)
  PROVE  bytesOf(RemoveAt(s, n)) = bytesOf(s) - s[n].bytes
<1> DEFINE r == RemoveAt(s, n)
           m == Len(s) - n
<1>1. /\ r \in Seq(E) /\ Len(r) = Len(s) - 1
      /\ \A k \in 1 .. Len(s) - 1 : r[k] = s[IF k < n THEN k ELSE k + 1]
  BY RemoveAtFacts
<1>2. Len(s) \in Nat /\ n \in Nat /\ m \in Nat
  OBVIOUS
<1> HIDE DEF r
<1>3. /\ ByteSums(s)[0] = 0 /\ ByteSums(s)[n - 1] \in Nat /\ ByteSums(s)[Len(s)] \in Nat /\ ByteSums(s)[n] \in Nat
      /\ ByteSums(s)[n] = ByteSums(s)[n - 1] + s[n].bytes /\ s[n].bytes \in Nat
  <2>1. /\ ByteSums(s) \in [0 .. Len(s) -> Nat] /\ ByteSums(s)[0] = 0
        /\ \A k \in 1 .. Len(s) : ByteSums(s)[k] = ByteSums(s)[k - 1] + s[k].bytes
    BY ByteSumsFacts
  <2>2. s[n].bytes \in Nat
    BY DEF Weighed
  <2>3. n - 1 \in 0 .. Len(s) /\ n \in 0 .. Len(s) /\ Len(s) \in 0 .. Len(s)
    BY <1>2
  <2>4. QED
    BY <2>1, <2>2, <2>3
<1>4. /\ ByteSums(r)[0] = 0 /\ ByteSums(r)[n - 1] \in Nat /\ ByteSums(r)[Len(s) - 1] \in Nat
  <2>1. ByteSums(r) \in [0 .. Len(s) - 1 -> Nat] /\ ByteSums(r)[0] = 0
    BY <1>1, ByteSumsFacts
  <2>2. n - 1 \in 0 .. Len(s) - 1 /\ Len(s) - 1 \in 0 .. Len(s) - 1
    BY <1>2
  <2>3. QED
    BY <2>1, <2>2
<1>5. ByteSums(r)[n - 1] - ByteSums(r)[0] = ByteSums(s)[n - 1] - ByteSums(s)[0]
  <2>1. PICK z \in Nat, p \in Nat : z = 0 /\ p = n - 1
    <3>1. n - 1 \in Nat
      BY <1>2
    <3>2. QED
      BY <3>1
  <2>2. Stretch(r, z, s, z, p)
    BY <1>1, <1>2, <2>1 DEF Stretch
  <2>3. ByteSums(r)[z + p] - ByteSums(r)[z] = ByteSums(s)[z + p] - ByteSums(s)[z]
    BY <1>1, <2>2, SumsOfStretch
  <2>4. z + p = p
    BY <2>1
  <2>5. QED
    BY <2>1, <2>3, <2>4
<1>6. ByteSums(r)[Len(s) - 1] - ByteSums(r)[n - 1] = ByteSums(s)[Len(s)] - ByteSums(s)[n]
  <2>1. PICK p \in Nat, d \in Nat, e \in Nat : p = n - 1 /\ d = Len(s) - 1 /\ e = Len(s)
    <3>1. n - 1 \in Nat /\ Len(s) - 1 \in Nat
      BY <1>2
    <3>2. QED
      BY <1>2, <3>1
  <2>2. ASSUME NEW k \in 1 .. m PROVE r[p + k] = s[n + k]
    <3>1. p + k \in 1 .. Len(s) - 1 /\ ~(p + k < n) /\ (p + k) + 1 = n + k
      BY <1>2, <2>1
    <3>2. QED
      BY <1>1, <3>1
  <2>3. p + m = d /\ n + m = e
    BY <1>2, <2>1
  <2>4. Stretch(r, p, s, n, m)
    BY <1>1, <1>2, <2>1, <2>2, <2>3 DEF Stretch
  <2>5. ByteSums(r)[p + m] - ByteSums(r)[p] = ByteSums(s)[n + m] - ByteSums(s)[n]
    BY <1>1, <2>4, SumsOfStretch
  <2>6. QED
    BY <2>1, <2>3, <2>5
<1>8. ByteSums(r)[Len(s) - 1] = ByteSums(s)[Len(s)] - s[n].bytes
  <2>1. PICK a, b, c, d, e, w : /\ a = ByteSums(r)[n - 1] /\ b = ByteSums(r)[Len(s) - 1] /\ c = ByteSums(s)[n - 1]
                              /\ d = ByteSums(s)[n] /\ e = ByteSums(s)[Len(s)] /\ w = s[n].bytes
    OBVIOUS
  <2>2. {a, b, c, d, e, w} \subseteq Nat /\ a - 0 = c - 0 /\ b - a = e - d /\ d = c + w
    BY <1>3, <1>4, <1>5, <1>6, <2>1
  <2>3. b = e - w
    BY <2>2
  <2>4. QED
    BY <2>1, <2>3
<1>9. bytesOf(s) = ByteSums(s)[Len(s)] /\ bytesOf(r) = ByteSums(r)[Len(r)]
  BY <1>1, ByteSumsFacts
<1>10. QED
  BY <1>1, <1>8, <1>9 DEF r

(***************************************************************************)
(* The cache.                                                              *)
(***************************************************************************)
CallIds == Calls \cup {EarlierCall}
CacheEntries == [callId : CallIds, items : Seq(Reasonings), bytes : Nat]
Caches == [entries : Seq(CacheEntries), totalBytes : Nat]

(* No call is held twice, and the counter is exact.                         *)
Exact(c) ==
  /\ c \in Caches /\ c.totalBytes = bytesOf(c.entries)
  /\ \A i, j \in 1 .. Len(c.entries) : c.entries[i].callId = c.entries[j].callId => i = j

Good(c) == Exact(c) /\ Fits(c.entries, c.totalBytes)

Holds(c, e) == \E i \in 1 .. Len(c.entries) : c.entries[i] = e

LEMMA EntriesWeighed == Weighed(CacheEntries)
BY DEF Weighed, CacheEntries

LEMMA CacheFields ==
  ASSUME NEW c \in Caches
  PROVE  c.entries \in Seq(CacheEntries) /\ Len(c.entries) \in Nat /\ c.totalBytes \in Nat
         /\ DOMAIN c.entries = 1 .. Len(c.entries)
BY DEF Caches

LEMMA MakeCache ==
  ASSUME NEW entries \in Seq(CacheEntries), NEW bytes \in Nat
  PROVE  /\ [entries |-> entries, totalBytes |-> bytes] \in Caches
         /\ [entries |-> entries, totalBytes |-> bytes].entries = entries
         /\ [entries |-> entries, totalBytes |-> bytes].totalBytes = bytes
BY DEF Caches

LEMMA ComputedBytes ==
  ASSUME NEW items \in Seq(Reasonings) PROVE computeBytes(items) \in Nat
<1> DEFINE b == [k \in DOMAIN items |-> Weight[items[k]]]
<1>1. Len(items) \in Nat /\ DOMAIN items = 1 .. Len(items) /\ \A k \in 1 .. Len(items) : items[k] \in Reasonings
  OBVIOUS
<1>2. \A k \in 1 .. Len(items) : Weight[items[k]] \in Nat
  BY <1>1, CacheAssumption DEF Reasonings
<1>3. b \in Seq(Nat) /\ Len(b) = Len(items)
  BY <1>1, <1>2
<1> HIDE DEF b
<1>4. Sums(b) \in [0 .. Len(b) -> Nat] /\ Len(b) \in 0 .. Len(b)
  BY <1>1, <1>3, SumsFacts
<1>5. computeBytes(items) = Sums(b)[Len(b)]
  BY DEF computeBytes, Total, b
<1>6. QED
  BY <1>4, <1>5

LEMMA Placed ==
  ASSUME NEW c \in Caches, NEW callId, has(c, callId)
  PROVE  \E i \in 1 .. Len(c.entries) : c.entries[i].callId = callId /\ i = place(c, callId)
BY CacheFields DEF has, of, place

LEMMA HasHolds ==
  ASSUME NEW c \in Caches, NEW callId
  PROVE  /\ has(c, callId) <=> \E e : Holds(c, e) /\ e.callId = callId
         /\ has(c, callId) => /\ Holds(c, entryOf(c, callId)) /\ entryOf(c, callId).callId = callId
                              /\ entryOf(c, callId) \in CacheEntries
                              /\ itemsOf(c, callId) = entryOf(c, callId).items
<1>1. /\ c.entries \in Seq(CacheEntries) /\ DOMAIN c.entries = 1 .. Len(c.entries)
      /\ \A i \in 1 .. Len(c.entries) : c.entries[i] \in CacheEntries
  BY CacheFields
<1>2. has(c, callId) <=> \E i \in 1 .. Len(c.entries) : c.entries[i].callId = callId
  BY <1>1 DEF has, of
<1>3. has(c, callId) <=> \E e : Holds(c, e) /\ e.callId = callId
  BY <1>2 DEF Holds
<1>4. ASSUME has(c, callId)
      PROVE  /\ Holds(c, entryOf(c, callId)) /\ entryOf(c, callId).callId = callId /\ entryOf(c, callId) \in CacheEntries
             /\ itemsOf(c, callId) = entryOf(c, callId).items
  <2>1. PICK i \in 1 .. Len(c.entries) : c.entries[i].callId = callId /\ i = place(c, callId)
    BY <1>4, Placed
  <2>2. QED
    BY <1>1, <2>1 DEF Holds, entryOf, itemsOf
<1>5. QED
  BY <1>3, <1>4

(* A call has one entry.                                                    *)
LEMMA OneEntry ==
  ASSUME NEW c, Exact(c), NEW e, Holds(c, e), NEW f, Holds(c, f), e.callId = f.callId
  PROVE  e = f
BY DEF Exact, Holds

LEMMA WithoutFacts ==
  ASSUME NEW c, Exact(c), NEW callId
  PROVE  /\ Exact(without(c, callId))
         /\ Len(without(c, callId).entries) <= Len(c.entries) /\ without(c, callId).totalBytes <= c.totalBytes
         /\ \A e : Holds(without(c, callId), e) <=> Holds(c, e) /\ e.callId # callId
         /\ has(c, callId) => /\ Len(without(c, callId).entries) = Len(c.entries) - 1
                             /\ without(c, callId).totalBytes = c.totalBytes - entryOf(c, callId).bytes
<1>1. /\ c \in Caches /\ c.entries \in Seq(CacheEntries) /\ Len(c.entries) \in Nat /\ c.totalBytes \in Nat
      /\ DOMAIN c.entries = 1 .. Len(c.entries) /\ c.totalBytes = bytesOf(c.entries)
      /\ \A i, j \in 1 .. Len(c.entries) : c.entries[i].callId = c.entries[j].callId => i = j
  BY CacheFields DEF Exact
<1>2. CASE ~has(c, callId)
  <2>1. without(c, callId) = c
    BY <1>2 DEF without
  <2>2. \A e : Holds(c, e) => e.callId # callId
    BY <1>1, <1>2, HasHolds
  <2>3. QED
    BY <1>1, <1>2, <2>1, <2>2
<1>3. CASE has(c, callId)
  <2>1. PICK i \in 1 .. Len(c.entries) : c.entries[i].callId = callId /\ i = place(c, callId)
    BY <1>1, <1>3, Placed
  <2> DEFINE r == RemoveAt(c.entries, i)
             w == c.entries[i].bytes
  <2>2. entryOf(c, callId) = c.entries[i] /\ c.entries[i] \in CacheEntries /\ w \in Nat
    BY <1>1, <2>1, EntriesWeighed DEF entryOf, Weighed
  <2>3. without(c, callId) = [entries |-> r, totalBytes |-> c.totalBytes - w]
    BY <1>3, <2>1, <2>2 DEF without
  <2>4. /\ r \in Seq(CacheEntries) /\ Len(r) = Len(c.entries) - 1
        /\ \A k \in 1 .. Len(c.entries) - 1 : r[k] = c.entries[IF k < i THEN k ELSE k + 1]
    BY <1>1, RemoveAtFacts
  <2>5. bytesOf(r) = c.totalBytes - w /\ bytesOf(r) \in Nat
    BY <1>1, <2>4, EntriesWeighed, TotalRemoveAt, TotalFacts
  <2> HIDE DEF r, w
  <2>6. without(c, callId) \in Caches /\ without(c, callId).entries = r /\ without(c, callId).totalBytes = bytesOf(r)
    BY <2>3, <2>4, <2>5, MakeCache
  <2>7. \A k \in 1 .. Len(r) : \E j \in 1 .. Len(c.entries) :
           r[k] = c.entries[j] /\ j # i /\ j = IF k < i THEN k ELSE k + 1
    <3>1. ASSUME NEW k \in 1 .. Len(r)
          PROVE  (IF k < i THEN k ELSE k + 1) \in 1 .. Len(c.entries) /\ (IF k < i THEN k ELSE k + 1) # i
                 /\ k \in 1 .. Len(c.entries) - 1
      BY <1>1, <2>4
    <3>2. QED
      BY <2>4, <3>1
  <2>8. \A k, l \in 1 .. Len(r) : r[k].callId = r[l].callId => k = l
    <3> SUFFICES ASSUME NEW k \in 1 .. Len(r), NEW l \in 1 .. Len(r), r[k].callId = r[l].callId PROVE k = l
      OBVIOUS
    <3>1. PICK j \in 1 .. Len(c.entries) : r[k] = c.entries[j] /\ j = IF k < i THEN k ELSE k + 1
      BY <2>7
    <3>2. PICK m \in 1 .. Len(c.entries) : r[l] = c.entries[m] /\ m = IF l < i THEN l ELSE l + 1
      BY <2>7
    <3>3. j = m
      BY <1>1, <3>1, <3>2
    <3>4. k \in Int /\ l \in Int /\ i \in Int
      OBVIOUS
    <3>5. QED
      BY <3>1, <3>2, <3>3, <3>4
  <2>9. \A k \in 1 .. Len(r) : r[k].callId # callId
    BY <1>1, <2>1, <2>7
  <2>10. \A j \in 1 .. Len(c.entries) : j # i => \E k \in 1 .. Len(r) : r[k] = c.entries[j]
    <3> SUFFICES ASSUME NEW j \in 1 .. Len(c.entries), j # i PROVE \E k \in 1 .. Len(r) : r[k] = c.entries[j]
      OBVIOUS
    <3>1. CASE j < i
      <4>1. j \in 1 .. Len(c.entries) - 1
        BY <1>1, <3>1
      <4>2. QED
        BY <2>4, <3>1, <4>1
    <3>2. CASE ~(j < i)
      <4>1. j - 1 \in 1 .. Len(c.entries) - 1 /\ ~(j - 1 < i) /\ (j - 1) + 1 = j
        BY <1>1, <3>2
      <4>2. QED
        BY <2>4, <4>1
    <3>3. QED
      BY <3>1, <3>2
  <2>11. \A e : Holds(without(c, callId), e) <=> Holds(c, e) /\ e.callId # callId
    <3>1. ASSUME NEW e, Holds(without(c, callId), e) PROVE Holds(c, e) /\ e.callId # callId
      <4>1. PICK k \in 1 .. Len(r) : r[k] = e
        BY <2>6, <3>1 DEF Holds
      <4>2. PICK j \in 1 .. Len(c.entries) : r[k] = c.entries[j]
        BY <2>7
      <4>3. QED
        BY <2>9, <4>1, <4>2 DEF Holds
    <3>2. ASSUME NEW e, Holds(c, e), e.callId # callId PROVE Holds(without(c, callId), e)
      <4>1. PICK j \in 1 .. Len(c.entries) : c.entries[j] = e
        BY <3>2 DEF Holds
      <4>2. j # i
        BY <2>1, <3>2, <4>1
      <4>3. PICK k \in 1 .. Len(r) : r[k] = c.entries[j]
        BY <2>10, <4>2
      <4>4. QED
        BY <2>6, <4>1, <4>3 DEF Holds
    <3>3. QED
      BY <3>1, <3>2
  <2>12. Exact(without(c, callId))
    BY <2>6, <2>8 DEF Exact
  <2>13. Len(r) <= Len(c.entries) /\ bytesOf(r) <= c.totalBytes
    BY <1>1, <2>2, <2>4, <2>5
  <2>14. without(c, callId).totalBytes = c.totalBytes - entryOf(c, callId).bytes
    BY <2>2, <2>5, <2>6 DEF w
  <2>15. QED
    BY <2>4, <2>6, <2>11, <2>12, <2>13, <2>14
<1>4. QED
  BY <1>2, <1>3

LEMMA AppendFacts ==
  ASSUME NEW c, Exact(c), NEW e \in CacheEntries, \A x : Holds(c, x) => x.callId # e.callId
  PROVE  LET d == [entries |-> Append(c.entries, e), totalBytes |-> c.totalBytes + e.bytes] IN
         /\ Exact(d) /\ Len(d.entries) = Len(c.entries) + 1 /\ d.totalBytes = c.totalBytes + e.bytes
         /\ \A x : Holds(d, x) <=> x = e \/ Holds(c, x)
<1> DEFINE s == Append(c.entries, e)
           d == [entries |-> s, totalBytes |-> c.totalBytes + e.bytes]
<1>1. /\ c \in Caches /\ c.entries \in Seq(CacheEntries) /\ Len(c.entries) \in Nat /\ c.totalBytes \in Nat
      /\ c.totalBytes = bytesOf(c.entries)
      /\ \A i, j \in 1 .. Len(c.entries) : c.entries[i].callId = c.entries[j].callId => i = j
  BY CacheFields DEF Exact
<1>2. e.bytes \in Nat /\ \A i \in 1 .. Len(c.entries) : c.entries[i].callId # e.callId
  BY EntriesWeighed DEF Weighed, Holds
<1>3. /\ s \in Seq(CacheEntries) /\ Len(s) = Len(c.entries) + 1
      /\ \A i \in 1 .. Len(c.entries) : s[i] = c.entries[i]
      /\ s[Len(c.entries) + 1] = e
  BY <1>1, AppendProperties
<1>4. bytesOf(s) = c.totalBytes + e.bytes /\ c.totalBytes + e.bytes \in Nat
  BY <1>1, <1>2, EntriesWeighed, TotalAppend
<1> HIDE DEF s
<1>5. d \in Caches /\ d.entries = s /\ d.totalBytes = c.totalBytes + e.bytes
  BY <1>3, <1>4, MakeCache
<1> HIDE DEF d
<1>6. /\ \A i : i \in 1 .. Len(s) <=> i \in 1 .. Len(c.entries) \/ i = Len(c.entries) + 1
  BY <1>1, <1>3
<1>7. \A i, j \in 1 .. Len(s) : s[i].callId = s[j].callId => i = j
  BY <1>1, <1>2, <1>3, <1>6
<1>8. Exact(d)
  BY <1>4, <1>5, <1>7 DEF Exact
<1>9. \A x : Holds(d, x) <=> x = e \/ Holds(c, x)
  BY <1>3, <1>5, <1>6 DEF Holds
<1>10. QED
  BY <1>3, <1>5, <1>8, <1>9 DEF d, s

(* The entries that are evicted are the least that let the rest fit.        *)
LEMMA EvictFacts ==
  ASSUME NEW c, Exact(c)
  PROVE  Good(evict(c)) /\ \A x : Holds(evict(c), x) => Holds(c, x)
<1> DEFINE n == Len(c.entries)
           rest(k) == SubSeq(c.entries, k + 1, Len(c.entries))
           bytes(k) == c.totalBytes - bytesOf(SubSeq(c.entries, 1, k))
           fits(k) == Fits(rest(k), bytes(k))
           T == {k \in 0 .. n : fits(k)}
<1>1. /\ c \in Caches /\ c.entries \in Seq(CacheEntries) /\ n \in Nat /\ c.totalBytes \in Nat
      /\ c.totalBytes = bytesOf(c.entries)
      /\ \A i, j \in 1 .. n : c.entries[i].callId = c.entries[j].callId => i = j
  BY CacheFields DEF Exact
<1>2. ASSUME NEW k \in 0 .. n
      PROVE  bytes(k) = bytesOf(rest(k)) /\ bytes(k) \in Nat /\ rest(k) \in Seq(CacheEntries) /\ Len(rest(k)) = n - k
  <2>1. /\ bytesOf(SubSeq(c.entries, 1, k)) = ByteSums(c.entries)[k]
        /\ rest(k) \in Seq(CacheEntries) /\ Len(rest(k)) = n - k
        /\ bytesOf(rest(k)) = bytesOf(c.entries) - ByteSums(c.entries)[k]
    BY <1>1, EntriesWeighed, TotalOfCut
  <2>2. bytesOf(rest(k)) \in Nat
    BY <2>1, EntriesWeighed, TotalFacts
  <2>3. QED
    BY <1>1, <2>1, <2>2
<1>3. n \in T
  <2>1. n \in 0 .. n /\ n - n = 0
    BY <1>1
  <2>2. Len(rest(n)) = n - n
    BY <1>2, <2>1
  <2> HIDE DEF rest, bytes, n
  <2>3. Len(rest(n)) = 0
    BY <2>1, <2>2
  <2>4. fits(n)
    BY <2>3, CacheAssumption DEF Fits
  <2>5. QED
    BY <2>1, <2>4
<1> HIDE DEF n, fits
<1>4. PICK m \in T : \A k \in T : m <= k
  <2>1. T \in SUBSET Nat
    BY <1>1
  <2>2. QED
    BY <1>3, <2>1, LeastNumber
<1>5. \E k \in 0 .. n : fits(k) /\ \A j \in 0 .. k - 1 : ~fits(j)
  <2>1. m \in 0 .. n /\ fits(m)
    BY <1>4
  <2>2. \A j \in 0 .. m - 1 : j \in 0 .. n /\ ~(m <= j)
    BY <1>1, <2>1
  <2>3. QED
    BY <1>4, <2>1, <2>2
<1>6. PICK k \in 0 .. n : fits(k) /\ evict(c) = [entries |-> rest(k), totalBytes |-> bytes(k)]
  <2>1. PICK k : k = CHOOSE m1 \in 0 .. n : fits(m1) /\ \A j \in 0 .. m1 - 1 : ~fits(j)
    OBVIOUS
  <2>2. evict(c) = [entries |-> rest(k), totalBytes |-> bytes(k)]
    BY <2>1 DEF evict, n, fits
  <2>3. k \in 0 .. n /\ fits(k)
    BY <1>5, <2>1
  <2>4. QED
    BY <2>2, <2>3
<1>7. /\ rest(k) \in Seq(CacheEntries) /\ Len(rest(k)) = n - k /\ bytes(k) = bytesOf(rest(k)) /\ bytes(k) \in Nat
      /\ \A i \in 1 .. n - k : k + i \in 1 .. n /\ rest(k)[i] = c.entries[k + i]
  <2>1. \A i \in 1 .. n - k : k + i \in 1 .. n /\ rest(k)[i] = c.entries[k + i]
    BY <1>1 DEF n
  <2>2. QED
    BY <1>2, <2>1
<1>8. Fits(rest(k), bytes(k))
  BY <1>6 DEF fits
<1> HIDE DEF rest, bytes
<1>9. /\ evict(c) \in Caches /\ evict(c).entries = rest(k) /\ evict(c).totalBytes = bytesOf(rest(k))
  BY <1>6, <1>7, MakeCache
<1>10. \A i, j \in 1 .. n - k : rest(k)[i].callId = rest(k)[j].callId => i = j
  <2> SUFFICES ASSUME NEW i \in 1 .. n - k, NEW j \in 1 .. n - k, rest(k)[i].callId = rest(k)[j].callId PROVE i = j
    OBVIOUS
  <2>1. /\ k + i \in 1 .. n /\ k + j \in 1 .. n
        /\ c.entries[k + i].callId = c.entries[k + j].callId
    BY <1>7
  <2>2. k + i = k + j
    BY <1>1, <2>1
  <2>3. i \in Int /\ j \in Int /\ k \in Int
    OBVIOUS
  <2>4. QED
    BY <2>2, <2>3
<1>11. \A x : Holds(evict(c), x) => Holds(c, x)
  BY <1>7, <1>9 DEF Holds, n
<1>12. QED
  BY <1>7, <1>8, <1>9, <1>10, <1>11 DEF Good, Exact

LEMMA PutFacts ==
  ASSUME NEW c, Exact(c), NEW callId \in CallIds, NEW items \in Seq(Reasonings)
  PROVE  /\ Good(put(c, callId, items))
         /\ \A x : Holds(put(c, callId, items), x) =>
              \/ x.callId = callId /\ x.items = items
              \/ x.callId # callId /\ Holds(c, x)
<1> DEFINE left == without(c, callId)
           e == [callId |-> callId, items |-> items, bytes |-> computeBytes(items)]
           d == [entries |-> Append(left.entries, e), totalBytes |-> left.totalBytes + e.bytes]
<1>1. Exact(left) /\ \A x : Holds(left, x) <=> Holds(c, x) /\ x.callId # callId
  BY WithoutFacts
<1>2. e \in CacheEntries /\ e.callId = callId /\ e.items = items
  BY ComputedBytes DEF CacheEntries
<1>3. put(c, callId, items) = evict(d)
  BY DEF put
<1> HIDE DEF left, e
<1>4. Exact(d) /\ \A x : Holds(d, x) <=> x = e \/ Holds(left, x)
  BY <1>1, <1>2, AppendFacts
<1> HIDE DEF d
<1>5. Good(evict(d)) /\ \A x : Holds(evict(d), x) => Holds(d, x)
  BY <1>4, EvictFacts
<1>6. QED
  BY <1>1, <1>2, <1>3, <1>4, <1>5

(* The same entries in another order.                                       *)
Same(c, d) == \A x : Holds(c, x) <=> Holds(d, x)

LEMMA GetFacts ==
  ASSUME NEW c, Good(c), NEW callId
  PROVE  Good(get(c, callId)) /\ Same(get(c, callId), c)
<1>1. CASE ~has(c, callId)
  BY <1>1 DEF get, Same
<1>2. CASE has(c, callId)
  <2> DEFINE rest == without(c, callId)
             e == entryOf(c, callId)
             d == [entries |-> Append(rest.entries, e), totalBytes |-> rest.totalBytes + e.bytes]
  <2>0. Exact(c) /\ c \in Caches
    BY DEF Good, Exact
  <2>1. /\ Exact(rest) /\ Len(rest.entries) = Len(c.entries) - 1 /\ rest.totalBytes = c.totalBytes - e.bytes
        /\ \A x : Holds(rest, x) <=> Holds(c, x) /\ x.callId # callId
    BY <1>2, <2>0, WithoutFacts
  <2>2. /\ e \in CacheEntries /\ e.callId = callId /\ Holds(c, e)
        /\ c.totalBytes \in Nat /\ e.bytes \in Nat /\ Len(c.entries) \in Nat
    BY <1>2, <2>0, HasHolds, CacheFields, EntriesWeighed DEF Weighed
  <2>3. get(c, callId) = [c EXCEPT !.entries = Append(rest.entries, e)]
    BY <1>2 DEF get
  <2> HIDE DEF rest, e
  <2>4. get(c, callId) = d
    <3>1. rest.totalBytes + e.bytes = c.totalBytes
      BY <2>1, <2>2
    <3>2. QED
      BY <2>0, <2>3, <3>1 DEF Caches
  <2>5. /\ Exact(d) /\ Len(d.entries) = Len(rest.entries) + 1 /\ d.totalBytes = rest.totalBytes + e.bytes
        /\ \A x : Holds(d, x) <=> x = e \/ Holds(rest, x)
    BY <2>1, <2>2, AppendFacts
  <2> HIDE DEF d
  <2>6. Len(d.entries) = Len(c.entries) /\ d.totalBytes = c.totalBytes
    BY <2>1, <2>2, <2>5
  <2>7. Good(d)
    BY <2>5, <2>6 DEF Good, Fits
  <2>8. \A x : Holds(c, x) /\ x.callId = callId => x = e
    BY <2>0, <2>2, OneEntry
  <2>9. Same(d, c)
    BY <2>1, <2>2, <2>5, <2>8 DEF Same
  <2>10. QED
    BY <2>4, <2>7, <2>9
<1>3. QED
  BY <1>1, <1>2

LEMMA EmptyCacheExact == Exact(EmptyCache) /\ \A x : ~Holds(EmptyCache, x)
<1>1. /\ EmptyCache.entries = <<>> /\ EmptyCache.totalBytes = 0 /\ <<>> \in Seq(CacheEntries) /\ Len(<<>>) = 0
  BY DEF EmptyCache
<1>2. bytesOf(EmptyCache.entries) = 0
  BY <1>1, EntriesWeighed, TotalFacts
<1>3. EmptyCache \in Caches
  BY DEF EmptyCache, Caches
<1>4. QED
  BY <1>1, <1>2, <1>3 DEF Exact, Holds

(***************************************************************************)
(* The input of a request.                                                 *)
(***************************************************************************)
Roles == {"assistant", "user"}
Names == Items \cup {EarlierCall}
ContentBlocks ==
  {b \in [type : {"text", "tool_use", "tool_result"}, name : Names] : b.type = "tool_use" => b.name \in CallIds}
MessagesOf == [role : Roles, content : Seq(ContentBlocks)]

InputItems ==
  [type : {"message", "reasoning", "function_call", "function_call_output"}, name : Names \cup Roles \cup Reasonings]
Warnings == {"reasoning_cache_miss", "unsupported_block_dropped"}
Builders == [items : Seq(InputItems), pendingTexts : Seq(Names), warnings : SUBSET Warnings, cache : Caches]

(* s: the items, c: the cache they were found in, p: the reasoning before   *)
(* each call.  Served: a call that is cached has its reasoning in front.    *)
Served(s, c, p) ==
  \A n \in 1 .. Len(s) : s[n].type = "function_call" =>
    /\ s[n].name \in CallIds
    /\ has(c, s[n].name) => \A r \in p[s[n].name] : \E k \in 1 .. Len(s) : k < n /\ s[k] = Item("reasoning", r)

Once(s) == \A j, k \in 1 .. Len(s) : s[k].type = "reasoning" /\ s[j] = s[k] => j = k

(* Reasoning belongs to a call behind it, or R to the one that is next.     *)
Owed(s, p, R) ==
  \A k \in 1 .. Len(s) : s[k].type = "reasoning" =>
    s[k].name \in R \/ \E n \in 1 .. Len(s) : k < n /\ s[n].type = "function_call" /\ s[k].name \in p[s[n].name]

Partial(s, c, p, R) == Served(s, c, p) /\ Once(s) /\ Owed(s, p, R)
Along(s, c, p) == Partial(s, c, p, {})

LEMMA OneMoreItem ==
  ASSUME NEW s \in Seq(InputItems), NEW x \in InputItems
  PROVE  /\ Append(s, x) \in Seq(InputItems) /\ Len(Append(s, x)) = Len(s) + 1 /\ Len(s) \in Nat
         /\ s \o <<x>> = Append(s, x)
         /\ \A k \in 1 .. Len(s) : Append(s, x)[k] = s[k]
         /\ Append(s, x)[Len(s) + 1] = x
         /\ \A k : k \in 1 .. Len(Append(s, x)) <=> k \in 1 .. Len(s) \/ k = Len(s) + 1
         /\ \A k \in 1 .. Len(s) : k \in Nat /\ k < Len(s) + 1
<1>1. /\ Append(s, x) \in Seq(InputItems) /\ Len(Append(s, x)) = Len(s) + 1 /\ Len(s) \in Nat
      /\ \A k \in 1 .. Len(s) : Append(s, x)[k] = s[k]
      /\ Append(s, x)[Len(s) + 1] = x
  BY AppendProperties
<1>2. s \o <<x>> = Append(s, x)
  BY AppendIsConcat
<1>3. /\ \A k : k \in 1 .. Len(Append(s, x)) <=> k \in 1 .. Len(s) \/ k = Len(s) + 1
      /\ \A k \in 1 .. Len(s) : k \in Nat /\ k < Len(s) + 1
  BY <1>1
<1>4. QED
  BY <1>1, <1>2, <1>3

LEMMA ItemFields ==
  ASSUME NEW type, NEW name
  PROVE  Item(type, name).type = type /\ Item(type, name).name = name
BY DEF Item

LEMMA ServedOn ==
  ASSUME NEW s \in Seq(InputItems), NEW x \in InputItems, NEW c, NEW p, Served(s, c, p),
         x.type = "function_call" =>
           /\ x.name \in CallIds
           /\ has(c, x.name) => \A r \in p[x.name] : \E k \in 1 .. Len(s) : s[k] = Item("reasoning", r)
  PROVE  Served(Append(s, x), c, p)
<1>1. PICK t : t = Append(s, x)
  OBVIOUS
<1>2. /\ \A k \in 1 .. Len(s) : t[k] = s[k]
      /\ t[Len(s) + 1] = x
      /\ \A k : k \in 1 .. Len(t) <=> k \in 1 .. Len(s) \/ k = Len(s) + 1
      /\ \A k \in 1 .. Len(s) : k \in Nat /\ k < Len(s) + 1
  BY <1>1, OneMoreItem
<1>3. Served(t, c, p)
  <2> SUFFICES ASSUME NEW n \in 1 .. Len(t), t[n].type = "function_call"
               PROVE  /\ t[n].name \in CallIds
                      /\ has(c, t[n].name) =>
                           \A r \in p[t[n].name] : \E k \in 1 .. Len(t) : k < n /\ t[k] = Item("reasoning", r)
    BY DEF Served
  <2>1. CASE n \in 1 .. Len(s)
    <3>1. /\ t[n] = s[n] /\ s[n].name \in CallIds
          /\ has(c, s[n].name) =>
               \A r \in p[s[n].name] : \E k \in 1 .. Len(s) : k < n /\ s[k] = Item("reasoning", r)
      BY <1>2, <2>1 DEF Served
    <3>2. \A r : (\E k \in 1 .. Len(s) : k < n /\ s[k] = Item("reasoning", r))
                   => \E k \in 1 .. Len(t) : k < n /\ t[k] = Item("reasoning", r)
      BY <1>2
    <3>3. QED
      BY <3>1, <3>2
  <2>2. CASE n = Len(s) + 1
    <3>1. t[n] = x
      BY <1>2, <2>2
    <3>2. \A r : (\E k \in 1 .. Len(s) : s[k] = Item("reasoning", r))
                   => \E k \in 1 .. Len(t) : k < n /\ t[k] = Item("reasoning", r)
      BY <1>2, <2>2
    <3>3. QED
      BY <3>1, <3>2
  <2>3. QED
    BY <1>2, <2>1, <2>2
<1>4. QED
  BY <1>1, <1>3

LEMMA OnceOn ==
  ASSUME NEW s \in Seq(InputItems), NEW x \in InputItems, Once(s),
         x.type = "reasoning" => \A k \in 1 .. Len(s) : s[k] # x
  PROVE  Once(Append(s, x))
<1>1. PICK t : t = Append(s, x)
  OBVIOUS
<1>2. /\ \A k \in 1 .. Len(s) : t[k] = s[k]
      /\ t[Len(s) + 1] = x
      /\ \A k : k \in 1 .. Len(t) <=> k \in 1 .. Len(s) \/ k = Len(s) + 1
  BY <1>1, OneMoreItem
<1>3. Once(t)
  <2> SUFFICES ASSUME NEW j \in 1 .. Len(t), NEW k \in 1 .. Len(t), t[k].type = "reasoning", t[j] = t[k] PROVE j = k
    BY DEF Once
  <2>1. CASE j \in 1 .. Len(s) /\ k \in 1 .. Len(s)
    BY <1>2, <2>1 DEF Once
  <2>2. CASE j \in 1 .. Len(s) /\ k = Len(s) + 1
    BY <1>2, <2>2
  <2>3. CASE j = Len(s) + 1 /\ k \in 1 .. Len(s)
    BY <1>2, <2>3
  <2>4. QED
    BY <1>2, <2>1, <2>2, <2>3
<1>4. QED
  BY <1>1, <1>3

LEMMA OwedOn ==
  ASSUME NEW s \in Seq(InputItems), NEW x \in InputItems, NEW p, NEW R, Owed(s, p, R)
  PROVE  /\ (x.type = "reasoning" => x.name \in R) => Owed(Append(s, x), p, R)
         /\ x.type = "function_call" /\ R \subseteq p[x.name] => Owed(Append(s, x), p, {})
<1>1. PICK t : t = Append(s, x)
  OBVIOUS
<1>2. /\ \A k \in 1 .. Len(s) : t[k] = s[k]
      /\ t[Len(s) + 1] = x
      /\ \A k : k \in 1 .. Len(t) <=> k \in 1 .. Len(s) \/ k = Len(s) + 1
      /\ \A k \in 1 .. Len(s) : k \in Nat /\ k < Len(s) + 1
  BY <1>1, OneMoreItem
<1>3. ASSUME NEW k \in 1 .. Len(s), s[k].type = "reasoning"
      PROVE  s[k].name \in R \/ \E n \in 1 .. Len(t) : k < n /\ t[n].type = "function_call" /\ t[k].name \in p[t[n].name]
  <2>1. s[k].name \in R \/ \E n \in 1 .. Len(s) : k < n /\ s[n].type = "function_call" /\ s[k].name \in p[s[n].name]
    BY <1>3 DEF Owed
  <2>2. QED
    BY <1>2, <2>1
<1>4. ASSUME x.type = "reasoning" => x.name \in R PROVE Owed(t, p, R)
  <2> SUFFICES ASSUME NEW k \in 1 .. Len(t), t[k].type = "reasoning"
               PROVE  \/ t[k].name \in R
                      \/ \E n \in 1 .. Len(t) : k < n /\ t[n].type = "function_call" /\ t[k].name \in p[t[n].name]
    BY DEF Owed
  <2>1. CASE k \in 1 .. Len(s)
    BY <1>2, <1>3, <2>1
  <2>2. CASE k = Len(s) + 1
    BY <1>2, <1>4, <2>2
  <2>3. QED
    BY <1>2, <2>1, <2>2
<1>5. ASSUME x.type = "function_call", R \subseteq p[x.name] PROVE Owed(t, p, {})
  <2> SUFFICES ASSUME NEW k \in 1 .. Len(t), t[k].type = "reasoning"
               PROVE  \E n \in 1 .. Len(t) : k < n /\ t[n].type = "function_call" /\ t[k].name \in p[t[n].name]
    BY DEF Owed
  <2>1. k \in 1 .. Len(s)
    BY <1>2, <1>5
  <2>2. CASE s[k].name \in R
    BY <1>2, <1>5, <2>1, <2>2
  <2>3. CASE \E n \in 1 .. Len(t) : k < n /\ t[n].type = "function_call" /\ t[k].name \in p[t[n].name]
    BY <2>3
  <2>4. QED
    BY <1>2, <1>3, <2>1, <2>2, <2>3
<1>6. QED
  BY <1>1, <1>4, <1>5

(***************************************************************************)
(* The builder.                                                            *)
(***************************************************************************)
LEMMA PushFacts ==
  ASSUME NEW b \in Builders, NEW x \in InputItems
  PROVE  /\ push(b, <<x>>) \in Builders /\ push(b, <<x>>).items = Append(b.items, x)
         /\ push(b, <<x>>).pendingTexts = b.pendingTexts /\ push(b, <<x>>).cache = b.cache
<1>1. b.items \in Seq(InputItems)
  BY DEF Builders
<1>2. b.items \o <<x>> = Append(b.items, x) /\ Append(b.items, x) \in Seq(InputItems)
  BY <1>1, OneMoreItem
<1>3. push(b, <<x>>) = [b EXCEPT !.items = Append(b.items, x)]
  BY <1>2 DEF push
<1>4. QED
  BY <1>2, <1>3 DEF Builders

LEMMA PushMessageFacts ==
  ASSUME NEW b \in Builders, NEW role \in Roles
  PROVE  LET d == pushMessageItem(b, role) IN
         /\ d \in Builders /\ d.cache = b.cache
         /\ d.items = b.items \/ d.items = Append(b.items, Item("message", role))
<1>1. Item("message", role) \in InputItems
  BY DEF Item, InputItems
<1>2. PICK e : e = push(b, <<Item("message", role)>>)
  OBVIOUS
<1>3. e \in Builders /\ e.items = Append(b.items, Item("message", role)) /\ e.cache = b.cache
  BY <1>1, <1>2, PushFacts
<1>4. pushMessageItem(b, role) = IF b.pendingTexts = <<>> THEN b ELSE [e EXCEPT !.pendingTexts = <<>>]
  BY <1>2 DEF pushMessageItem
<1>5. PICK d : d = [e EXCEPT !.pendingTexts = <<>>]
  OBVIOUS
<1>6. d \in Builders /\ d.items = e.items /\ d.cache = e.cache
  <2>1. <<>> \in Seq(Names)
    OBVIOUS
  <2>2. QED
    BY <1>3, <1>5, <2>1 DEF Builders
<1>7. QED
  BY <1>3, <1>4, <1>5, <1>6

LEMMA InjectFacts ==
  ASSUME NEW b \in Builders, NEW r \in Reasonings
  PROVE  LET d == inject(b, r)
             x == Item("reasoning", r) IN
         /\ d \in Builders /\ d.cache = b.cache /\ x \in InputItems
         /\ \/ d.items = b.items /\ \E k \in 1 .. Len(b.items) : b.items[k] = x
            \/ d.items = Append(b.items, x) /\ \A k \in 1 .. Len(b.items) : b.items[k] # x
<1>1. PICK x : x = Item("reasoning", r)
  OBVIOUS
<1>2. x \in InputItems /\ x.type = "reasoning" /\ x.name = r
  BY <1>1 DEF Item, InputItems
<1>3. /\ b.items \in Seq(InputItems) /\ DOMAIN b.items = 1 .. Len(b.items)
      /\ \A k \in 1 .. Len(b.items) : b.items[k] \in InputItems
  BY DEF Builders
<1>4. r \in reasoningIn(b.items) <=> \E k \in 1 .. Len(b.items) : b.items[k] = x
  <2>1. r \in reasoningIn(b.items) <=> \E k \in 1 .. Len(b.items) : b.items[k].type = "reasoning" /\ b.items[k].name = r
    BY <1>3 DEF reasoningIn
  <2>2. \A y \in InputItems : y.type = "reasoning" /\ y.name = r <=> y = x
    BY <1>1 DEF Item, InputItems
  <2>3. QED
    BY <1>3, <2>1, <2>2
<1>5. inject(b, r) = IF r \in reasoningIn(b.items) THEN b ELSE push(b, <<x>>)
  BY <1>1 DEF inject
<1>6. push(b, <<x>>) \in Builders /\ push(b, <<x>>).items = Append(b.items, x) /\ push(b, <<x>>).cache = b.cache
  BY <1>2, PushFacts
<1>7. QED
  BY <1>1, <1>2, <1>4, <1>5, <1>6

Asked(b, callId) == [b EXCEPT !.cache = get(@, callId)]

(* The reasoning of a call, item after item.                                *)
LEMMA InjectedOneByOne ==
  ASSUME NEW b \in Builders, NEW callId, has(b.cache, callId), NEW items \in Seq(Reasonings),
         items = itemsOf(b.cache, callId), NEW base \in Builders, base = Asked(b, callId)
  PROVE  \E g : /\ g[0] = base /\ \A n \in 1 .. Len(items) : g[n] = inject(g[n - 1], items[n])
                /\ injectReasoningItems(b, callId) = g[Len(items)]
<1> DEFINE N == Len(items)
           step == [q \in Builders \X Nat |-> IF q[2] \in 1 .. N THEN inject(q[1], items[q[2]]) ELSE q[1]]
<1>1. N \in Nat /\ \A n \in 1 .. N : items[n] \in Reasonings
  OBVIOUS
<1>2. \A d \in Builders, n \in 1 .. N : inject(d, items[n]) \in Builders
  BY <1>1, InjectFacts
<1> HIDE DEF N
<1>3. /\ step \in [Builders \X Nat -> Builders]
      /\ \A d \in Builders, n \in Nat : n \in 1 .. N => step[<<d, n>>] = inject(d, items[n])
  BY <1>2
<1> HIDE DEF step
<1>4. PICK f : Follow(f, N, base, step)
  BY <1>1, <1>3, FollowExists
<1>5. f \in [0 .. N -> Builders]
  BY <1>1, <1>3, <1>4, FollowTyped
<1>6. \A n \in 0 .. N : n # 0 => step[<<f[n - 1], n>>] = inject(f[n - 1], items[n])
  <2>1. ASSUME NEW n \in 0 .. N, n # 0 PROVE step[<<f[n - 1], n>>] = inject(f[n - 1], items[n])
    <3>1. n \in Nat /\ n \in 1 .. N /\ n - 1 \in 0 .. N
      BY <1>1, <2>1
    <3>2. f[n - 1] \in Builders
      BY <1>5, <3>1
    <3>3. QED
      BY <1>3, <3>1, <3>2
  <2>2. QED
    BY <2>1
<1>7. f = [n \in 0 .. N |-> IF n = 0 THEN base ELSE inject(f[n - 1], items[n])]
  BY <1>4, <1>6 DEF Follow
<1>8. PICK g : /\ g = [n \in 0 .. N |-> IF n = 0 THEN base ELSE inject(g[n - 1], items[n])]
               /\ injectReasoningItems(b, callId) = g[N]
  <2>1. \E g : g = [n \in 0 .. N |-> IF n = 0 THEN base ELSE inject(g[n - 1], items[n])]
    BY <1>7
  <2>2. injectReasoningItems(b, callId)
          = (CHOOSE g : g = [n \in 0 .. N |-> IF n = 0 THEN base ELSE inject(g[n - 1], items[n])])[N]
    BY DEF injectReasoningItems, N, Asked
  <2>3. QED
    BY <2>1, <2>2
<1>9. \A n \in 0 .. N : g[n] = IF n = 0 THEN base ELSE inject(g[n - 1], items[n])
  BY <1>8
<1>10. g[0] = base
  BY <1>1, <1>9
<1>11. \A n \in 1 .. N : g[n] = inject(g[n - 1], items[n])
  <2>1. \A n \in 1 .. N : n \in 0 .. N /\ n # 0
    BY <1>1
  <2>2. QED
    BY <1>9, <2>1
<1>12. QED
  BY <1>8, <1>10, <1>11 DEF N

(* c: the cache a request finds, p: the reasoning before each call.         *)
Kept(c, p) == \A e : Holds(c, e) => ToSet(e.items) = p[e.callId]
Sound(b, c, p) == b \in Builders /\ Good(b.cache) /\ Same(b.cache, c) /\ Along(b.items, c, p)

LEMMA SameHas ==
  ASSUME NEW c \in Caches, NEW d \in Caches, Same(c, d), NEW callId
  PROVE  has(c, callId) <=> has(d, callId)
BY HasHolds DEF Same

LEMMA InjectedAlong ==
  ASSUME NEW c, Good(c), NEW p, Kept(c, p), NEW b, Sound(b, c, p), NEW callId \in CallIds, has(b.cache, callId)
  PROVE  LET d == injectReasoningItems(b, callId) IN
         /\ d \in Builders /\ Good(d.cache) /\ Same(d.cache, c)
         /\ Partial(d.items, c, p, p[callId])
         /\ \A r \in p[callId] : \E k \in 1 .. Len(d.items) : d.items[k] = Item("reasoning", r)
<1> DEFINE items == itemsOf(b.cache, callId)
           R == p[callId]
<1>0. b \in Builders /\ b.cache \in Caches /\ Good(b.cache) /\ Same(b.cache, c) /\ Along(b.items, c, p)
  BY DEF Sound, Good, Exact
<1>1. items \in Seq(Reasonings) /\ ToSet(items) = R
  <2>1. PICK e : e = entryOf(b.cache, callId)
    OBVIOUS
  <2>2. Holds(b.cache, e) /\ e.callId = callId /\ e \in CacheEntries /\ items = e.items
    BY <1>0, <2>1, HasHolds
  <2>3. Holds(c, e)
    BY <1>0, <2>2 DEF Same
  <2>4. QED
    BY <2>2, <2>3 DEF Kept, CacheEntries
<1>2. Good(get(b.cache, callId)) /\ Same(get(b.cache, callId), b.cache)
  BY <1>0, GetFacts
<1>3. PICK base : base = Asked(b, callId)
  OBVIOUS
<1>4. base \in Builders /\ base.cache = get(b.cache, callId) /\ base.items = b.items
  BY <1>0, <1>2, <1>3 DEF Builders, Good, Exact, Asked
<1> HIDE DEF items, R
<1>5. PICK g : /\ g[0] = base /\ \A n \in 1 .. Len(items) : g[n] = inject(g[n - 1], items[n])
               /\ injectReasoningItems(b, callId) = g[Len(items)]
  BY <1>0, <1>1, <1>3, <1>4, InjectedOneByOne DEF items
<1> DEFINE N == Len(items)
           Fine(n) == /\ g[n] \in Builders /\ g[n].cache = base.cache /\ Partial(g[n].items, c, p, R)
                      /\ \A m \in 1 .. n : \E k \in 1 .. Len(g[n].items) : g[n].items[k] = Item("reasoning", items[m])
           T == {n \in 0 .. N : Fine(n)}
<1>6. N \in Nat /\ \A n \in 1 .. N : items[n] \in Reasonings /\ items[n] \in R
  BY <1>1 DEF ToSet
<1>7. 0 \in T
  <2>1. Partial(b.items, c, p, R)
    BY <1>0 DEF Along, Partial, Owed
  <2>2. QED
    BY <1>4, <1>5, <1>6, <2>1
<1>8. ASSUME NEW n \in 0 .. N - 1, n \in T PROVE n + 1 \in T
  <2>1. /\ n + 1 \in 1 .. N /\ n + 1 \in 0 .. N /\ (n + 1) - 1 = n
        /\ \A m : m \in 1 .. n + 1 <=> m \in 1 .. n \/ m = n + 1
    BY <1>6
  <2>2. PICK d, e, r : d = g[n] /\ e = g[n + 1] /\ r = items[n + 1]
    OBVIOUS
  <2>3. /\ d \in Builders /\ d.cache = base.cache /\ Partial(d.items, c, p, R) /\ e = inject(d, r)
        /\ r \in Reasonings /\ r \in R
        /\ \A m \in 1 .. n : \E k \in 1 .. Len(d.items) : d.items[k] = Item("reasoning", items[m])
    BY <1>5, <1>6, <1>8, <2>1, <2>2
  <2>4. PICK x : x = Item("reasoning", r)
    OBVIOUS
  <2>5. /\ e \in Builders /\ e.cache = d.cache /\ x \in InputItems /\ x.type = "reasoning" /\ x.name = r
        /\ \/ e.items = d.items /\ \E k \in 1 .. Len(d.items) : d.items[k] = x
           \/ e.items = Append(d.items, x) /\ \A k \in 1 .. Len(d.items) : d.items[k] # x
    BY <2>3, <2>4, InjectFacts, ItemFields
  <2>6. CASE e.items = d.items /\ \E k \in 1 .. Len(d.items) : d.items[k] = x
    <3>1. \A m \in 1 .. n + 1 : \E k \in 1 .. Len(e.items) : e.items[k] = Item("reasoning", items[m])
      BY <2>1, <2>2, <2>3, <2>4, <2>6
    <3>2. Fine(n + 1)
      BY <2>2, <2>3, <2>5, <2>6, <3>1
    <3>3. QED
      BY <2>1, <3>2
  <2>7. CASE e.items = Append(d.items, x) /\ \A k \in 1 .. Len(d.items) : d.items[k] # x
    <3>1. d.items \in Seq(InputItems)
      BY <2>3 DEF Builders
    <3>2. Partial(e.items, c, p, R)
      BY <2>3, <2>5, <2>7, <3>1, ServedOn, OnceOn, OwedOn DEF Partial
    <3>3. /\ \A k \in 1 .. Len(d.items) : k \in 1 .. Len(e.items) /\ e.items[k] = d.items[k]
          /\ Len(d.items) + 1 \in 1 .. Len(e.items) /\ e.items[Len(d.items) + 1] = x
      BY <2>5, <2>7, <3>1, OneMoreItem
    <3>4. \A m \in 1 .. n + 1 : \E k \in 1 .. Len(e.items) : e.items[k] = Item("reasoning", items[m])
      <4>1. ASSUME NEW m \in 1 .. n PROVE \E k \in 1 .. Len(e.items) : e.items[k] = Item("reasoning", items[m])
        BY <2>3, <3>3
      <4>2. \E k \in 1 .. Len(e.items) : e.items[k] = Item("reasoning", items[n + 1])
        BY <2>2, <2>4, <3>3
      <4>3. QED
        BY <2>1, <4>1, <4>2
    <3>5. Fine(n + 1)
      BY <2>2, <2>3, <2>5, <3>2, <3>4
    <3>6. QED
      BY <2>1, <3>5
  <2>8. QED
    BY <2>5, <2>6, <2>7
<1>9. Fine(N)
  <2>1. \A n \in 0 .. N : n \in T
    <3> HIDE DEF T
    <3>1. QED
      BY <1>6, <1>7, <1>8, UpTo
  <2>2. N \in 0 .. N
    BY <1>6
  <2> HIDE DEF Fine
  <2>3. QED
    BY <2>1, <2>2
<1>10. Good(base.cache) /\ Same(base.cache, c)
  BY <1>0, <1>2, <1>4 DEF Same
<1>11. \A r \in R : \E n \in 1 .. N : items[n] = r
  BY <1>1, <1>6 DEF ToSet
<1>12. PICK d : d = injectReasoningItems(b, callId)
  OBVIOUS
<1>13. /\ d \in Builders /\ Good(d.cache) /\ Same(d.cache, c) /\ Partial(d.items, c, p, R)
       /\ \A n \in 1 .. N : \E k \in 1 .. Len(d.items) : d.items[k] = Item("reasoning", items[n])
  BY <1>5, <1>9, <1>10, <1>12
<1>14. \A r \in R : \E k \in 1 .. Len(d.items) : d.items[k] = Item("reasoning", r)
  BY <1>11, <1>13
<1>15. QED
  BY <1>12, <1>13, <1>14 DEF R

LEMMA PushMessageSound ==
  ASSUME NEW c, NEW p, NEW b, Sound(b, c, p), NEW role \in Roles
  PROVE  Sound(pushMessageItem(b, role), c, p)
<1>1. PICK q : q = pushMessageItem(b, role)
  OBVIOUS
<1>2. b \in Builders /\ Good(b.cache) /\ Same(b.cache, c) /\ Along(b.items, c, p)
  BY DEF Sound
<1>3. /\ q \in Builders /\ q.cache = b.cache
      /\ q.items = b.items \/ q.items = Append(b.items, Item("message", role))
  BY <1>1, <1>2, PushMessageFacts
<1>4. PICK x : x = Item("message", role)
  OBVIOUS
<1>5. x \in InputItems /\ x.type = "message" /\ b.items \in Seq(InputItems)
  BY <1>2, <1>4 DEF Item, InputItems, Builders
<1>6. Along(Append(b.items, x), c, p)
  BY <1>2, <1>5, ServedOn, OnceOn, OwedOn DEF Along, Partial
<1>7. QED
  BY <1>1, <1>2, <1>3, <1>4, <1>6 DEF Sound

LEMMA BlockSound ==
  ASSUME NEW c, Good(c), NEW p \in [CallIds -> SUBSET Reasonings], Kept(c, p), NEW b, Sound(b, c, p), NEW role \in Roles,
         NEW block \in ContentBlocks
  PROVE  Sound(translateBlock(b, role, block), c, p)
<1>0. /\ b \in Builders /\ Good(b.cache) /\ Same(b.cache, c) /\ Along(b.items, c, p)
      /\ c \in Caches /\ block.name \in Names /\ (block.type = "tool_use" => block.name \in CallIds)
  BY DEF Sound, Good, Exact, ContentBlocks
<1>1. ASSUME NEW w \in Warnings, NEW d, d \in Builders, Good(d.cache), Same(d.cache, c), Along(d.items, c, p)
      PROVE  Sound([d EXCEPT !.warnings = @ \cup {w}], c, p)
  <2>1. PICK e : e = [d EXCEPT !.warnings = @ \cup {w}]
    OBVIOUS
  <2>2. e \in Builders /\ e.items = d.items /\ e.cache = d.cache
    BY <1>1, <2>1 DEF Builders
  <2>3. QED
    BY <1>1, <2>1, <2>2 DEF Sound
<1>2. CASE block.type = "text"
  <2>1. PICK d : d = [b EXCEPT !.pendingTexts = Append(@, block.name)]
    OBVIOUS
  <2>2. d \in Builders /\ d.items = b.items /\ d.cache = b.cache
    <3>1. Append(b.pendingTexts, block.name) \in Seq(Names)
      BY <1>0, AppendProperties DEF Builders
    <3>2. d = [b EXCEPT !.pendingTexts = Append(b.pendingTexts, block.name)]
      BY <2>1
    <3>3. QED
      BY <1>0, <3>1, <3>2 DEF Builders
  <2>3. translateBlock(b, role, block) = d
    BY <1>2, <2>1 DEF translateBlock
  <2>4. QED
    BY <1>0, <2>2, <2>3 DEF Sound
<1>3. PICK q : q = pushMessageItem(b, role)
  OBVIOUS
<1>4. Sound(q, c, p)
  BY <1>3, PushMessageSound
<1>5. CASE block.type = "tool_use" /\ role = "assistant"
  <2>1. PICK d, x, callId : callId = block.name /\ d = injectReasoningItems(q, callId) /\ x = Item("function_call", callId)
    OBVIOUS
  <2>2. callId \in CallIds /\ x \in InputItems /\ x.type = "function_call" /\ x.name = callId
    BY <1>0, <1>5, <2>1 DEF Item, InputItems
  <2>3. translateBlock(b, role, block) = push(d, <<x>>)
    BY <1>3, <1>5, <2>1 DEF translateBlock
  <2>4. /\ d \in Builders /\ Good(d.cache) /\ Same(d.cache, c)
        /\ \E R : Partial(d.items, c, p, R) /\ R \subseteq p[callId]
        /\ has(c, callId) => \A r \in p[callId] : \E k \in 1 .. Len(d.items) : d.items[k] = Item("reasoning", r)
    <3>1. /\ q \in Builders /\ q.cache \in Caches /\ Good(q.cache) /\ Same(q.cache, c) /\ Along(q.items, c, p)
      BY <1>4 DEF Sound, Good, Exact
    <3>2. has(q.cache, callId) <=> has(c, callId)
      BY <1>0, <3>1, SameHas
    <3>3. CASE has(q.cache, callId)
      <4>1. /\ d \in Builders /\ Good(d.cache) /\ Same(d.cache, c)
            /\ Partial(d.items, c, p, p[callId])
            /\ \A r \in p[callId] : \E k \in 1 .. Len(d.items) : d.items[k] = Item("reasoning", r)
        BY <1>4, <2>1, <2>2, <3>3, InjectedAlong
      <4>2. QED
        BY <4>1
    <3>4. CASE ~has(q.cache, callId)
      <4>1. d = [q EXCEPT !.warnings = @ \cup {"reasoning_cache_miss"}]
        BY <2>1, <3>4 DEF injectReasoningItems
      <4>2. Sound(d, c, p)
        BY <1>1, <3>1, <4>1 DEF Warnings
      <4>3. {} \subseteq p[callId]
        OBVIOUS
      <4>4. QED
        BY <3>2, <3>4, <4>2, <4>3 DEF Sound, Along
    <3>5. QED
      BY <3>3, <3>4
  <2>5. /\ push(d, <<x>>) \in Builders /\ push(d, <<x>>).items = Append(d.items, x) /\ push(d, <<x>>).cache = d.cache
    BY <2>2, <2>4, PushFacts
  <2>6. Along(Append(d.items, x), c, p)
    <3>1. PICK R : Partial(d.items, c, p, R) /\ R \subseteq p[callId]
      BY <2>4
    <3>2. d.items \in Seq(InputItems)
      BY <2>4 DEF Builders
    <3>3. Served(Append(d.items, x), c, p)
      BY <2>2, <2>4, <3>1, <3>2, ServedOn DEF Partial
    <3>4. Once(Append(d.items, x))
      BY <2>2, <3>1, <3>2, OnceOn DEF Partial
    <3>5. Owed(Append(d.items, x), p, {})
      BY <2>2, <3>1, <3>2, OwedOn DEF Partial
    <3>6. QED
      BY <3>3, <3>4, <3>5 DEF Along, Partial
  <2>7. QED
    BY <2>3, <2>4, <2>5, <2>6 DEF Sound
<1>6. CASE block.type = "tool_result" /\ role = "user"
  <2>1. PICK x : x = Item("function_call_output", block.name)
    OBVIOUS
  <2>2. x \in InputItems /\ x.type = "function_call_output"
    BY <1>0, <2>1 DEF Item, InputItems
  <2>3. translateBlock(b, role, block) = push(q, <<x>>)
    BY <1>3, <1>6, <2>1 DEF translateBlock
  <2>4. q \in Builders /\ Good(q.cache) /\ Same(q.cache, c) /\ Along(q.items, c, p) /\ q.items \in Seq(InputItems)
    BY <1>4 DEF Sound, Builders
  <2>5. /\ push(q, <<x>>) \in Builders /\ push(q, <<x>>).items = Append(q.items, x) /\ push(q, <<x>>).cache = q.cache
    BY <2>2, <2>4, PushFacts
  <2>6. Along(Append(q.items, x), c, p)
    BY <2>2, <2>4, ServedOn, OnceOn, OwedOn DEF Along, Partial
  <2>7. QED
    BY <2>3, <2>4, <2>5, <2>6 DEF Sound
<1>7. CASE /\ block.type # "text" /\ ~(block.type = "tool_use" /\ role = "assistant")
           /\ ~(block.type = "tool_result" /\ role = "user")
  <2>1. translateBlock(b, role, block) = [b EXCEPT !.warnings = @ \cup {"unsupported_block_dropped"}]
    BY <1>7 DEF translateBlock
  <2>2. QED
    BY <1>0, <1>1, <2>1 DEF Warnings
<1>8. QED
  BY <1>2, <1>5, <1>6, <1>7

(* Block after block, message after message.                                *)
LEMMA MessageSound ==
  ASSUME NEW c, Good(c), NEW p \in [CallIds -> SUBSET Reasonings], Kept(c, p),
         NEW b, Sound(b, c, p), NEW message \in MessagesOf
  PROVE  Sound(translateMessage(b, message), c, p)
<1> DEFINE N == Len(message.content)
           S == {d \in Builders : Sound(d, c, p)}
           step == [q \in S \X Nat |-> IF q[2] \in 1 .. N THEN translateBlock(q[1], message.role, message.content[q[2]]) ELSE q[1]]
<1>1. /\ N \in Nat /\ b \in S /\ message.role \in Roles
      /\ \A n \in 1 .. N : message.content[n] \in ContentBlocks
  BY DEF MessagesOf, Sound
<1>2. \A d \in S, n \in 1 .. N : translateBlock(d, message.role, message.content[n]) \in S
  <2> SUFFICES ASSUME NEW d \in S, NEW n \in 1 .. N PROVE translateBlock(d, message.role, message.content[n]) \in S
    OBVIOUS
  <2>1. PICK block \in ContentBlocks : block = message.content[n]
    BY <1>1
  <2>2. Sound(translateBlock(d, message.role, block), c, p)
    BY <1>1, BlockSound
  <2>3. QED
    BY <2>1, <2>2 DEF Sound
<1> HIDE DEF S, N
<1>3. /\ step \in [S \X Nat -> S]
      /\ \A d \in S, n \in Nat : n \in 1 .. N => step[<<d, n>>] = translateBlock(d, message.role, message.content[n])
  BY <1>2
<1> HIDE DEF step
<1>4. PICK f : Follow(f, N, b, step)
  BY <1>1, <1>3, FollowExists
<1>5. f \in [0 .. N -> S]
  BY <1>1, <1>3, <1>4, FollowTyped
<1>6. \A n \in 0 .. N : n # 0 => step[<<f[n - 1], n>>] = translateBlock(f[n - 1], message.role, message.content[n])
  <2>1. ASSUME NEW n \in 0 .. N, n # 0 PROVE step[<<f[n - 1], n>>] = translateBlock(f[n - 1], message.role, message.content[n])
    <3>1. n \in Nat /\ n \in 1 .. N /\ n - 1 \in 0 .. N
      BY <1>1, <2>1
    <3>2. f[n - 1] \in S
      BY <1>5, <3>1
    <3>3. QED
      BY <1>3, <3>1, <3>2
  <2>2. QED
    BY <2>1
<1>7. f = [n \in 0 .. N |-> IF n = 0 THEN b ELSE translateBlock(f[n - 1], message.role, message.content[n])]
  BY <1>4, <1>6 DEF Follow
<1>8. PICK g : /\ g = [n \in 0 .. N |-> IF n = 0 THEN b ELSE translateBlock(g[n - 1], message.role, message.content[n])]
               /\ translateMessage(b, message) = pushMessageItem(g[N], message.role)
  <2>1. \E g : g = [n \in 0 .. N |-> IF n = 0 THEN b ELSE translateBlock(g[n - 1], message.role, message.content[n])]
    BY <1>7
  <2>2. PICK g : g = CHOOSE h : h = [n \in 0 .. N |-> IF n = 0 THEN b ELSE translateBlock(h[n - 1], message.role, message.content[n])]
    OBVIOUS
  <2>3. translateMessage(b, message) = pushMessageItem(g[N], message.role)
    BY <2>2 DEF translateMessage, N
  <2>4. g = [n \in 0 .. N |-> IF n = 0 THEN b ELSE translateBlock(g[n - 1], message.role, message.content[n])]
    BY <2>1, <2>2
  <2>5. QED
    BY <2>3, <2>4
<1>9. \A n \in 0 .. N : g[n] = IF n = 0 THEN b ELSE translateBlock(g[n - 1], message.role, message.content[n])
  BY <1>8
<1> DEFINE T == {n \in 0 .. N : g[n] \in S}
<1>10. 0 \in T
  <2>1. 0 \in 0 .. N
    BY <1>1
  <2>2. QED
    BY <1>1, <1>9, <2>1
<1>11. ASSUME NEW n \in 0 .. N - 1, n \in T PROVE n + 1 \in T
  <2>1. n + 1 \in 1 .. N /\ n + 1 \in 0 .. N /\ n + 1 # 0 /\ (n + 1) - 1 = n
    BY <1>1
  <2>2. g[n + 1] = translateBlock(g[n], message.role, message.content[n + 1])
    BY <1>9, <2>1
  <2>3. QED
    BY <1>2, <1>11, <2>1, <2>2
<1>12. g[N] \in S
  <2>1. \A n \in 0 .. N : n \in T
    <3> HIDE DEF T
    <3>1. QED
      BY <1>1, <1>10, <1>11, UpTo
  <2>2. N \in 0 .. N
    BY <1>1
  <2>3. QED
    BY <2>1, <2>2
<1>13. QED
  <2>1. PICK d, role : d = g[N] /\ role = message.role
    OBVIOUS
  <2>2. Sound(d, c, p) /\ role \in Roles
    BY <1>1, <1>12, <2>1 DEF S
  <2>3. Sound(pushMessageItem(d, role), c, p)
    BY <2>2, PushMessageSound
  <2>4. QED
    BY <1>8, <2>1, <2>3

LEMMA BuilderSound ==
  ASSUME NEW c, Good(c), NEW p
  PROVE  Sound(Builder(c), c, p)
<1>1. Builder(c).items = <<>> /\ Builder(c).cache = c
  BY DEF Builder
<1>2. Builder(c) \in Builders
  <2>1. c \in Caches /\ <<>> \in Seq(InputItems) /\ <<>> \in Seq(Names)
    BY DEF Good, Exact
  <2>2. QED
    BY <2>1 DEF Builder, Builders
<1>3. Along(<<>>, c, p)
  BY DEF Along, Partial, Served, Once, Owed
<1>4. QED
  BY <1>1, <1>2, <1>3 DEF Sound, Same

(* Whatever a conversation is, its reasoning goes along.                    *)
LEMMA RequestSound ==
  ASSUME NEW c, Good(c), NEW p \in [CallIds -> SUBSET Reasonings], Kept(c, p), NEW msgs \in Seq(MessagesOf)
  PROVE  Sound(translateRequest(c, msgs), c, p)
<1> DEFINE N == Len(msgs)
           S == {d \in Builders : Sound(d, c, p)}
           step == [q \in S \X Nat |-> IF q[2] \in 1 .. N THEN translateMessage(q[1], msgs[q[2]]) ELSE q[1]]
<1>1. N \in Nat /\ Builder(c) \in S /\ \A n \in 1 .. N : msgs[n] \in MessagesOf
  <2>1. Sound(Builder(c), c, p)
    BY BuilderSound
  <2>2. QED
    BY <2>1 DEF Sound
<1>2. \A d \in S, n \in 1 .. N : translateMessage(d, msgs[n]) \in S
  <2> SUFFICES ASSUME NEW d \in S, NEW n \in 1 .. N PROVE translateMessage(d, msgs[n]) \in S
    OBVIOUS
  <2>1. PICK message \in MessagesOf : message = msgs[n]
    BY <1>1
  <2>2. Sound(translateMessage(d, message), c, p)
    BY MessageSound
  <2>3. QED
    BY <2>1, <2>2 DEF Sound
<1> HIDE DEF S, N
<1>3. /\ step \in [S \X Nat -> S]
      /\ \A d \in S, n \in Nat : n \in 1 .. N => step[<<d, n>>] = translateMessage(d, msgs[n])
  BY <1>2
<1> HIDE DEF step
<1>4. PICK f : Follow(f, N, Builder(c), step)
  BY <1>1, <1>3, FollowExists
<1>5. f \in [0 .. N -> S]
  BY <1>1, <1>3, <1>4, FollowTyped
<1>6. \A n \in 0 .. N : n # 0 => step[<<f[n - 1], n>>] = translateMessage(f[n - 1], msgs[n])
  <2>1. ASSUME NEW n \in 0 .. N, n # 0 PROVE step[<<f[n - 1], n>>] = translateMessage(f[n - 1], msgs[n])
    <3>1. n \in Nat /\ n \in 1 .. N /\ n - 1 \in 0 .. N
      BY <1>1, <2>1
    <3>2. f[n - 1] \in S
      BY <1>5, <3>1
    <3>3. QED
      BY <1>3, <3>1, <3>2
  <2>2. QED
    BY <2>1
<1>7. f = [n \in 0 .. N |-> IF n = 0 THEN Builder(c) ELSE translateMessage(f[n - 1], msgs[n])]
  BY <1>4, <1>6 DEF Follow
<1>8. PICK g : /\ g = [n \in 0 .. N |-> IF n = 0 THEN Builder(c) ELSE translateMessage(g[n - 1], msgs[n])]
               /\ translateRequest(c, msgs) = g[N]
  <2>1. \E g : g = [n \in 0 .. N |-> IF n = 0 THEN Builder(c) ELSE translateMessage(g[n - 1], msgs[n])]
    BY <1>7
  <2>2. PICK g : g = CHOOSE h : h = [n \in 0 .. N |-> IF n = 0 THEN Builder(c) ELSE translateMessage(h[n - 1], msgs[n])]
    OBVIOUS
  <2>3. translateRequest(c, msgs) = g[N]
    BY <2>2 DEF translateRequest, N
  <2>4. g = [n \in 0 .. N |-> IF n = 0 THEN Builder(c) ELSE translateMessage(g[n - 1], msgs[n])]
    BY <2>1, <2>2
  <2>5. QED
    BY <2>3, <2>4
<1>9. \A n \in 0 .. N : g[n] = IF n = 0 THEN Builder(c) ELSE translateMessage(g[n - 1], msgs[n])
  BY <1>8
<1> DEFINE T == {n \in 0 .. N : g[n] \in S}
<1>10. 0 \in T
  <2>1. 0 \in 0 .. N
    BY <1>1
  <2>2. QED
    BY <1>1, <1>9, <2>1
<1>11. ASSUME NEW n \in 0 .. N - 1, n \in T PROVE n + 1 \in T
  <2>1. n + 1 \in 1 .. N /\ n + 1 \in 0 .. N /\ n + 1 # 0 /\ (n + 1) - 1 = n
    BY <1>1
  <2>2. g[n + 1] = translateMessage(g[n], msgs[n + 1])
    BY <1>9, <2>1
  <2>3. QED
    BY <1>2, <1>11, <2>1, <2>2
<1>12. g[N] \in S
  <2>1. \A n \in 0 .. N : n \in T
    <3> HIDE DEF T
    <3>1. QED
      BY <1>1, <1>10, <1>11, UpTo
  <2>2. N \in 0 .. N
    BY <1>1
  <2>3. QED
    BY <2>1, <2>2
<1>13. QED
  BY <1>8, <1>12 DEF S

(***************************************************************************)
(* The handler, its cache and the next request.                            *)
(***************************************************************************)
(* No call of this stream has been put into the cache.                      *)
NoneYet ==
  \/ stage \in {"credentials", "refresh", "fetch"}
  \/ stage = "translate" /\ turn = 1
  \/ stage = "reading" /\ reasoningItems = <<>>

(* The cache and what its calls were preceded by agree.                     *)
CacheKept ==
  /\ Good(cache) /\ preceded \in [CallIds -> SUBSET Reasonings] /\ Kept(cache, preceded)
  /\ NoneYet => \A e : Holds(cache, e) => e.callId = EarlierCall

CacheIInv ==
  /\ CacheKept
  /\ turn \in {1, 2} /\ (turn = 2 => stage \in {"translate", "done", "asked"})
  /\ messages \in Seq(MessagesOf)
  /\ stage = "asked" => input \in Seq(InputItems) /\ Along(input, cache, preceded)

HandlerIInv == TurnIInv /\ CacheIInv

LEMMA AlongSame ==
  ASSUME NEW c, Good(c), NEW d, Good(d), Same(d, c), NEW s, NEW p, Along(s, c, p)
  PROVE  Along(s, d, p)
<1>1. \A callId : has(c, callId) <=> has(d, callId)
  BY SameHas DEF Good, Exact
<1>2. QED
  BY <1>1 DEF Along, Partial, Served

LEMMA InitCacheIInv == Init => CacheIInv
<1> SUFFICES ASSUME Init PROVE CacheIInv
  OBVIOUS
<1>1. <<EarlierThought>> \in Seq(Reasonings) /\ EarlierCall \in CallIds /\ EarlierThought \in Reasonings
  BY HandlerAssumption DEF Reasonings, CallIds
<1>2. /\ cache = put(EmptyCache, EarlierCall, <<EarlierThought>>) /\ stage = "translate" /\ turn = 1
      /\ messages = <<Message("assistant", <<Item("tool_use", EarlierCall)>>), Results(<<EarlierCall>>)>>
      /\ preceded = [c \in Calls \cup {EarlierCall} |-> IF c = EarlierCall THEN {EarlierThought} ELSE {}]
  BY DEF Init
<1>3. PICK items : items = <<EarlierThought>>
  OBVIOUS
<1>4. ToSet(items) = {EarlierThought}
  BY <1>3 DEF ToSet
<1>5. /\ Good(cache) /\ \A x : Holds(cache, x) => x.callId = EarlierCall /\ x.items = items
  <2>1. Exact(EmptyCache) /\ \A x : ~Holds(EmptyCache, x)
    BY EmptyCacheExact
  <2>2. items \in Seq(Reasonings)
    BY <1>1, <1>3
  <2>3. PICK c : c = EmptyCache
    OBVIOUS
  <2>4. /\ Good(put(c, EarlierCall, items))
        /\ \A x : Holds(put(c, EarlierCall, items), x) =>
             \/ x.callId = EarlierCall /\ x.items = items
             \/ x.callId # EarlierCall /\ Holds(c, x)
    BY <1>1, <2>1, <2>2, <2>3, PutFacts
  <2>5. QED
    BY <1>2, <1>3, <2>1, <2>3, <2>4
<1>6. preceded \in [CallIds -> SUBSET Reasonings] /\ preceded[EarlierCall] = {EarlierThought}
  BY <1>1, <1>2 DEF CallIds
<1>7. Kept(cache, preceded)
  BY <1>4, <1>5, <1>6 DEF Kept
<1>8. messages \in Seq(MessagesOf)
  <2>1. Item("tool_use", EarlierCall) \in ContentBlocks /\ Item("tool_result", EarlierCall) \in ContentBlocks
    BY <1>1 DEF Item, ContentBlocks, Names
  <2>2. PICK a, r : a = <<Item("tool_use", EarlierCall)>> /\ r = [k \in DOMAIN <<EarlierCall>> |-> Item("tool_result", <<EarlierCall>>[k])]
    OBVIOUS
  <2>3. a \in Seq(ContentBlocks)
    BY <2>1, <2>2
  <2>4. r \in Seq(ContentBlocks)
    <3>1. r = [k \in 1 .. 1 |-> Item("tool_result", EarlierCall)]
      BY <2>2
    <3>2. QED
      BY <2>1, <3>1
  <2>5. Message("assistant", a) \in MessagesOf /\ Message("user", r) \in MessagesOf
    BY <2>3, <2>4 DEF Message, MessagesOf, Roles
  <2>6. Results(<<EarlierCall>>) = Message("user", r)
    BY <2>2 DEF Results
  <2>7. QED
    BY <1>2, <2>2, <2>5, <2>6
<1>9. QED
  BY <1>2, <1>5, <1>6, <1>7, <1>8 DEF CacheIInv, CacheKept

(* What the client goes on with.                                            *)
LEMMA ContentTyped ==
  ASSUME TurnIInv, ToldAsTurn PROVE Content \in Seq(ContentBlocks)
<1> DEFINE fromBlocks == LET done == InOrder({k \in DOMAIN blocks : Ended(k)}) IN [k \in DOMAIN done |-> blocks[done[k]]]
           fromReply == [k \in DOMAIN Reply.content |-> Reply.content[k].item]
<1>1. PICK items : items = IF wantStream THEN fromBlocks ELSE fromReply
  OBVIOUS
<1>2. items \in Seq(Items)
  <2>1. CASE wantStream
    <3>1. blocks \in Seq(Items) /\ Len(blocks) \in Nat /\ DOMAIN blocks = 1 .. Len(blocks)
      BY DEF TurnIInv, StreamTold, StreamTypes
    <3>2. PICK S : S = {k \in DOMAIN blocks : Ended(k)}
      OBVIOUS
    <3>3. S \in SUBSET (1 .. Len(blocks))
      BY <3>1, <3>2
    <3>4. PICK done : done = InOrder(S)
      OBVIOUS
    <3>5. Cardinality(S) \in Nat /\ done \in [1 .. Cardinality(S) -> S]
      BY <3>1, <3>3, <3>4, InOrderFacts
    <3>6. items = [k \in 1 .. Cardinality(S) |-> blocks[done[k]]]
      BY <1>1, <2>1, <3>2, <3>4, <3>5
    <3>7. \A k \in 1 .. Cardinality(S) : blocks[done[k]] \in Items
      <4>1. \A k \in 1 .. Cardinality(S) : done[k] \in 1 .. Len(blocks)
        BY <3>3, <3>5
      <4>2. \A k \in 1 .. Len(blocks) : blocks[k] \in Items
        BY <3>1
      <4>3. QED
        BY <4>1, <4>2
    <3>8. QED
      BY <3>5, <3>6, <3>7
  <2>2. CASE ~wantStream
    <3>1. answer = "message"
      <4>1. CASE answer = "stream"
        BY <2>2, <4>1 DEF TurnIInv, AnswerTold
      <4>2. CASE answer = "interrupted"
        <5>1. PICK k \in DOMAIN received : received[k].type = "message_stop"
          BY <4>2 DEF ToldAsTurn, Has
        <5>2. DOMAIN received = 1 .. written + 1 /\ written = 0 /\ received[written + 1].type = "error"
          BY <2>2, <4>2, ReceivedFacts DEF TurnIInv, AnswerTold
        <5>3. k = written + 1
          BY <5>1, <5>2
        <5>4. QED
          BY <5>1, <5>2, <5>3
      <4>3. QED
        BY <4>1, <4>2 DEF ToldAsTurn
    <3>2. Final /\ Aggregate.kind = "message"
      BY <3>1 DEF TurnIInv, AnswerTold, StreamTold
    <3>3. Reply.content \in Seq(PendingBlocks)
      BY <3>2, AggregateKind DEF Reply, Delivers
    <3>4. PICK content : content = Reply.content
      OBVIOUS
    <3>5. /\ Len(content) \in Nat /\ DOMAIN content = 1 .. Len(content)
          /\ \A k \in 1 .. Len(content) : content[k].item \in Items
      <4>1. content \in Seq(PendingBlocks)
        BY <3>3, <3>4
      <4>2. \A k \in 1 .. Len(content) : content[k] \in PendingBlocks
        BY <4>1
      <4>3. \A b \in PendingBlocks : b.item \in Items
        BY DEF PendingBlocks
      <4>4. QED
        BY <4>1, <4>2, <4>3
    <3>6. items = [k \in 1 .. Len(content) |-> content[k].item]
      BY <1>1, <2>2, <3>4, <3>5
    <3>7. QED
      BY <3>5, <3>6
  <2>3. QED
    BY <2>1, <2>2
<1>3. Content = [k \in DOMAIN items |-> Item(IF items[k] \in Calls THEN "tool_use" ELSE "text", items[k])]
  BY <1>1 DEF Content
<1>4. Len(items) \in Nat /\ DOMAIN items = 1 .. Len(items) /\ \A k \in 1 .. Len(items) : items[k] \in Items
  BY <1>2
<1>5. \A k \in 1 .. Len(items) : Item(IF items[k] \in Calls THEN "tool_use" ELSE "text", items[k]) \in ContentBlocks
  BY <1>4 DEF Item, ContentBlocks, Names, CallIds
<1>6. QED
  BY <1>3, <1>4, <1>5

LEMMA ResultsTyped ==
  ASSUME NEW content \in Seq(ContentBlocks) PROVE Results(CallsOf(content)) \in MessagesOf
<1>1. /\ Len(content) \in Nat /\ DOMAIN content = 1 .. Len(content)
      /\ \A k \in 1 .. Len(content) : content[k] \in ContentBlocks
  OBVIOUS
<1>2. PICK S : S = {k \in DOMAIN content : content[k].type = "tool_use"}
  OBVIOUS
<1>3. PICK calls : calls = InOrder(S)
  OBVIOUS
<1>4. S \in SUBSET (1 .. Len(content))
  BY <1>1, <1>2
<1>5. Cardinality(S) \in Nat /\ calls \in [1 .. Cardinality(S) -> S]
  BY <1>1, <1>3, <1>4, InOrderFacts
<1>6. PICK ids : ids = CallsOf(content)
  OBVIOUS
<1>7. ids = [k \in 1 .. Cardinality(S) |-> content[calls[k]].name]
  BY <1>2, <1>3, <1>5, <1>6 DEF CallsOf
<1>8. \A k \in 1 .. Cardinality(S) : content[calls[k]].name \in Names
  BY <1>1, <1>4, <1>5 DEF ContentBlocks
<1>9. PICK results : results = [k \in DOMAIN ids |-> Item("tool_result", ids[k])]
  OBVIOUS
<1>10. results = [k \in 1 .. Cardinality(S) |-> Item("tool_result", content[calls[k]].name)]
  BY <1>7, <1>9
<1>11. \A k \in 1 .. Cardinality(S) : Item("tool_result", content[calls[k]].name) \in ContentBlocks
  BY <1>8 DEF Item, ContentBlocks
<1>12. results \in Seq(ContentBlocks)
  BY <1>5, <1>10, <1>11
<1>13. Results(ids) = Message("user", results)
  BY <1>9 DEF Results
<1>14. QED
  BY <1>6, <1>12, <1>13 DEF Message, MessagesOf, Roles

(* Steps that leave the cache, and those that read it.                      *)
LEMMA CacheStill ==
  ASSUME CacheIInv, UNCHANGED <<cache, preceded>>, NoneYet' => NoneYet
  PROVE  CacheKept'
<1>1. Good(cache') /\ preceded' \in [CallIds -> SUBSET Reasonings] /\ Kept(cache', preceded')
  BY DEF CacheIInv, CacheKept
<1>2. NoneYet' => \A e : Holds(cache', e) => e.callId = EarlierCall
  BY DEF CacheIInv, CacheKept
<1>3. QED
  BY <1>1, <1>2 DEF CacheKept

LEMMA CacheRead ==
  ASSUME CacheIInv, preceded' = preceded, Good(cache'), Same(cache', cache), NoneYet' => NoneYet
  PROVE  CacheKept'
<1>1. Kept(cache', preceded')
  BY DEF CacheIInv, CacheKept, Kept, Same
<1>2. NoneYet' => \A e : Holds(cache', e) => e.callId = EarlierCall
  BY DEF CacheIInv, CacheKept, Same
<1>3. QED
  BY <1>1, <1>2 DEF CacheIInv, CacheKept

LEMMA EventKeeps ==
  ASSUME HandlerIInv, Event PROVE CacheKept'
<1>1. /\ stage = "reading" /\ stage' = "reading" /\ Translate /\ ~finished
      /\ preceded' = [c \in DOMAIN preceded |->
           IF c \in Calls /\ ended'[c] # ended[c] THEN ToSet(reasoningItems) ELSE preceded[c]]
  <2>1. /\ stage = "reading" /\ stage' = "reading" /\ Translate
        /\ preceded' = [c \in DOMAIN preceded |->
             IF c \in Calls /\ ended'[c] # ended[c] THEN ToSet(reasoningItems) ELSE preceded[c]]
    BY DEF Event
  <2>2. ~finished
    BY <2>1 DEF Translate, Created, Reasoned, Completed, Failed, Added, Delta, Done
  <2>3. QED
    BY <2>1, <2>2
<1>2. /\ Good(cache) /\ preceded \in [CallIds -> SUBSET Reasonings] /\ Kept(cache, preceded) /\ DOMAIN preceded = CallIds
      /\ NoneYet => \A e : Holds(cache, e) => e.callId = EarlierCall
  BY DEF HandlerIInv, CacheIInv, CacheKept
<1>3. reasoningItems \in Seq(Reasonings) /\ ended \in [Items -> Nat] /\ ToSet(reasoningItems) \subseteq Reasonings
  <2>1. reasoningItems \in Seq(Reasonings) /\ ended \in [Items -> Nat]
    BY DEF HandlerIInv, TurnIInv, StreamTold, StreamTypes
  <2>2. QED
    BY <2>1 DEF ToSet
<1>4. CASE UNCHANGED <<ended, cache>>
  <2>1. preceded' = preceded
    BY <1>1, <1>2, <1>4
  <2>2. NoneYet' => NoneYet
    <3>1. reasoningItems' = <<>> => reasoningItems = <<>>
      <4>1. CASE Reasoned
        <5>1. reasoningItems' = Append(reasoningItems, Thoughts[Len(reasoningItems) + 1])
          BY <4>1 DEF Reasoned
        <5>2. PICK t : t = Thoughts[Len(reasoningItems) + 1]
          OBVIOUS
        <5>3. Append(reasoningItems, t) # <<>>
          BY <1>3
        <5>4. QED
          BY <5>1, <5>2, <5>3
      <4>2. CASE ~Reasoned
        <5>1. UNCHANGED reasoningItems
          BY <1>1, <4>2 DEF Translate, Created, Completed, Failed, Added, Delta, Done
        <5>2. QED
          BY <5>1
      <4>3. QED
        BY <4>1, <4>2
    <3>2. QED
      BY <1>1, <3>1 DEF NoneYet
  <2>3. QED
    BY <1>4, <2>1, <2>2, CacheStill DEF HandlerIInv
<1>5. ASSUME NEW i \in Items, Done(i) PROVE CacheKept'
  <2>1. /\ cache' = KeepReasoning(i) /\ reasoningItems' = reasoningItems /\ ended' = [ended EXCEPT ![i] = @ + 1]
    BY <1>5 DEF Done
  <2>2. ended'[i] # ended[i] /\ \A j \in Items : j # i => ended'[j] = ended[j]
    BY <1>3, <2>1
  <2>3. NoneYet' => NoneYet
    BY <1>1, <2>1 DEF NoneYet
  <2>4. CASE i \notin Calls
    <3>1. \A j \in Calls : ended'[j] = ended[j]
      BY <2>2, <2>4 DEF Items
    <3>2. preceded' = preceded
      BY <1>1, <1>2, <3>1
    <3>3. cache' = cache
      BY <2>1, <2>4 DEF KeepReasoning
    <3>4. QED
      BY <2>3, <3>2, <3>3, CacheStill DEF HandlerIInv
  <2>5. CASE i \in Calls
    <3>1. i \in CallIds /\ i # EarlierCall
      BY <2>5, HandlerAssumption DEF CallIds
    <3>2. /\ preceded'[i] = ToSet(reasoningItems)
          /\ \A c \in CallIds : c # i => preceded'[c] = preceded[c]
      <4>1. \A c \in CallIds : preceded'[c] = IF c \in Calls /\ ended'[c] # ended[c] THEN ToSet(reasoningItems) ELSE preceded[c]
        BY <1>1, <1>2
      <4>2. \A c \in Calls : c # i => ended'[c] = ended[c]
        BY <2>2 DEF Items
      <4>3. QED
        BY <2>2, <2>5, <3>1, <4>1, <4>2
    <3>3. preceded' \in [CallIds -> SUBSET Reasonings]
      BY <1>1, <1>2, <1>3
    <3>4. CASE reasoningItems = <<>>
      <4>1. cache' = cache
        BY <2>1, <3>4 DEF KeepReasoning
      <4>2. \A e : Holds(cache, e) => e.callId = EarlierCall
        BY <1>1, <1>2, <3>4 DEF NoneYet
      <4>3. EarlierCall \in CallIds
        BY DEF CallIds
      <4>4. Kept(cache', preceded')
        BY <1>2, <3>1, <3>2, <4>1, <4>2, <4>3 DEF Kept
      <4>5. QED
        BY <1>2, <3>3, <4>1, <4>2, <4>4 DEF CacheKept
    <3>5. CASE reasoningItems # <<>>
      <4>1. cache' = put(cache, i, reasoningItems)
        BY <2>1, <2>5, <3>5 DEF KeepReasoning
      <4>2. Exact(cache)
        BY <1>2 DEF Good
      <4>3. PICK c, items : c = cache /\ items = reasoningItems
        OBVIOUS
      <4>4. /\ Good(put(c, i, items))
            /\ \A x : Holds(put(c, i, items), x) =>
                 \/ x.callId = i /\ x.items = items
                 \/ x.callId # i /\ Holds(c, x)
        BY <1>3, <3>1, <4>2, <4>3, PutFacts
      <4>5. /\ Good(cache')
            /\ \A x : Holds(cache', x) =>
                 \/ x.callId = i /\ x.items = reasoningItems
                 \/ x.callId # i /\ Holds(cache, x)
        <5>1. cache' = put(c, i, items)
          BY <4>1, <4>3
        <5>2. QED
          BY <4>3, <4>4, <5>1
      <4>6. \A x : Holds(cache, x) => x.callId \in CallIds
        <5>1. cache.entries \in Seq(CacheEntries)
          BY <4>2 DEF Exact, Caches
        <5>2. \A k \in 1 .. Len(cache.entries) : cache.entries[k] \in CacheEntries
          BY <5>1
        <5>3. \A e \in CacheEntries : e.callId \in CallIds
          BY DEF CacheEntries
        <5>4. \A k \in 1 .. Len(cache.entries) : cache.entries[k].callId \in CallIds
          BY <5>2, <5>3
        <5>5. QED
          BY <5>1, <5>4 DEF Holds
      <4>7. Kept(cache', preceded')
        BY <1>2, <3>2, <4>5, <4>6 DEF Kept
      <4>8. ~NoneYet'
        BY <1>1, <2>1, <3>5 DEF NoneYet
      <4>9. QED
        BY <3>3, <4>5, <4>7, <4>8 DEF CacheKept
    <3>6. QED
      BY <3>4, <3>5
  <2>6. QED
    BY <2>4, <2>5
<1>6. CASE \A i \in Items : ~Done(i)
  <2>1. UNCHANGED <<ended, cache>>
    <3>1. CASE Created \/ Reasoned \/ Completed \/ Failed
      BY <3>1 DEF Created, Reasoned, Completed, Failed, upstream
    <3>2. ASSUME NEW i \in Items, Added(i) \/ Delta(i) PROVE UNCHANGED <<ended, cache>>
      BY <3>2 DEF Added, Delta
    <3>3. QED
      BY <1>1, <1>6, <3>1, <3>2 DEF Translate
  <2>2. QED
    BY <1>4, <2>1
<1>7. QED
  BY <1>5, <1>6

LEMMA StepCacheIInv == HandlerIInv /\ [Next]_vars => CacheIInv'
<1> SUFFICES ASSUME HandlerIInv, [Next]_vars PROVE CacheIInv'
  OBVIOUS
<1>1. /\ CacheIInv /\ TurnIInv /\ CacheKept /\ turn \in {1, 2} /\ (turn = 2 => stage \in {"translate", "done", "asked"})
      /\ messages \in Seq(MessagesOf)
      /\ stage = "asked" => input \in Seq(InputItems) /\ Along(input, cache, preceded)
  BY DEF HandlerIInv, CacheIInv
<1>2. /\ Good(cache) /\ preceded \in [CallIds -> SUBSET Reasonings] /\ Kept(cache, preceded)
  BY <1>1 DEF CacheKept
<1>3. ASSUME NEW msgs \in Seq(MessagesOf) PROVE Sound(translateRequest(cache, msgs), cache, preceded)
  BY <1>2, RequestSound
<1>4. ASSUME UNCHANGED <<cache, preceded, messages, input, turn>>, NoneYet' => NoneYet, stage' # "asked" \/ stage' = stage,
             turn = 2 => stage' \in {"translate", "done", "asked"}
      PROVE  CacheIInv'
  <2>1. CacheKept'
    BY <1>1, <1>4, CacheStill
  <2>2. stage' = "asked" => input' \in Seq(InputItems) /\ Along(input', cache', preceded')
    BY <1>1, <1>4
  <2>3. QED
    BY <1>1, <1>4, <2>1, <2>2 DEF CacheIInv
<1>5. CASE Translated
  <2>1. PICK b : b = translateRequest(cache, messages)
    OBVIOUS
  <2>2. /\ stage = "translate" /\ cache' = b.cache /\ input' = b.items
        /\ stage' = IF turn = 2 THEN "asked" ELSE "credentials"
        /\ UNCHANGED <<messages, turn, preceded>>
    BY <1>5, <2>1 DEF Translated
  <2>3. b \in Builders /\ Good(b.cache) /\ Same(b.cache, cache) /\ Along(b.items, cache, preceded)
    BY <1>1, <1>3, <2>1 DEF Sound
  <2>4. NoneYet' => NoneYet
    BY <1>1, <2>2 DEF NoneYet
  <2>5. CacheKept'
    BY <1>1, <2>2, <2>3, <2>4, CacheRead
  <2>6. input' \in Seq(InputItems) /\ Along(input', cache', preceded')
    BY <1>2, <2>2, <2>3, AlongSame DEF Builders
  <2>7. QED
    BY <1>1, <2>2, <2>5, <2>6 DEF CacheIInv
<1>6. CASE Untranslatable
  <2>1. PICK n \in 0 .. Len(messages) : cache' = translateRequest(cache, SubSeq(messages, 1, n)).cache
    BY <1>6 DEF Untranslatable
  <2>2. PICK msgs : msgs = SubSeq(messages, 1, n)
    OBVIOUS
  <2>3. msgs \in Seq(MessagesOf)
    BY <1>1, <2>1, <2>2
  <2>4. Good(cache') /\ Same(cache', cache)
    BY <1>3, <2>1, <2>2, <2>3 DEF Sound
  <2>5. stage' = "done" /\ UNCHANGED <<messages, turn, preceded>>
    BY <1>6 DEF Untranslatable, Respond
  <2>6. ~NoneYet'
    BY <2>5 DEF NoneYet
  <2>7. CacheKept'
    BY <1>1, <2>4, <2>5, <2>6, CacheRead
  <2>8. QED
    BY <1>1, <2>5, <2>7 DEF CacheIInv
<1>7. CASE Credentials
  <2>1. /\ stage \in {"credentials", "refresh"} /\ stage' \in {"fetch", "done"}
        /\ UNCHANGED <<cache, preceded, messages, input, turn>>
    BY <1>7 DEF Credentials, Respond
  <2>2. QED
    BY <1>1, <1>4, <2>1 DEF NoneYet
<1>8. CASE Unauthorized \/ FetchOk
  <2>1. /\ stage = "fetch" /\ stage' \in {"refresh", "reading"}
        /\ UNCHANGED <<cache, preceded, messages, input, turn>>
    BY <1>8 DEF Unauthorized, FetchOk
  <2>2. QED
    BY <1>1, <1>4, <2>1 DEF NoneYet
<1>9. CASE FetchFails \/ FetchAborted \/ Settled \/ Interrupted
  <2>1. stage' = "done" /\ UNCHANGED <<cache, preceded, messages, input, turn>>
    BY <1>9 DEF FetchFails, FetchAborted, Settled, Interrupted, Respond
  <2>2. ~NoneYet'
    BY <2>1 DEF NoneYet
  <2>3. QED
    BY <1>4, <2>1, <2>2
<1>10. CASE Event
  <2>1. CacheKept'
    BY <1>10, EventKeeps
  <2>2. stage = "reading" /\ stage' = "reading" /\ UNCHANGED <<messages, turn>>
    BY <1>10 DEF Event
  <2>3. QED
    BY <1>1, <2>1, <2>2 DEF CacheIInv
<1>11. CASE UpstreamEnds
  <2>1. stage = "reading" /\ stage' = "settled" /\ UNCHANGED <<cache, preceded, messages, input, turn>>
    BY <1>11 DEF UpstreamEnds, Flush
  <2>2. ~NoneYet'
    BY <2>1 DEF NoneYet
  <2>3. QED
    BY <1>1, <1>4, <2>1, <2>2
<1>12. CASE Timeout \/ ClientLeaves
  <2>1. stage' = stage /\ UNCHANGED <<cache, preceded, messages, input, turn, reasoningItems>>
    BY <1>12 DEF Timeout, ClientLeaves, stream
  <2>2. NoneYet' => NoneYet
    BY <2>1 DEF NoneYet
  <2>3. QED
    BY <1>1, <1>4, <2>1, <2>2
<1>13. CASE NextRequest
  <2>1. /\ stage' = "translate" /\ turn' = 2 /\ UNCHANGED <<cache, preceded>>
        /\ \/ /\ ToldAsTurn
              /\ messages' = messages \o <<Message("assistant", Content), Results(CallsOf(Content))>>
           \/ UNCHANGED messages
    BY <1>13 DEF NextRequest
  <2>2. ~NoneYet'
    BY <2>1 DEF NoneYet
  <2>3. CacheKept'
    BY <1>1, <2>1, <2>2, CacheStill
  <2>4. messages' \in Seq(MessagesOf)
    <3>1. CASE ToldAsTurn /\ messages' = messages \o <<Message("assistant", Content), Results(CallsOf(Content))>>
      <4>1. PICK a, r : a = Message("assistant", Content) /\ r = Results(CallsOf(Content))
        OBVIOUS
      <4>2. Content \in Seq(ContentBlocks)
        BY <1>1, <3>1, ContentTyped
      <4>3. a \in MessagesOf /\ r \in MessagesOf
        BY <4>1, <4>2, ResultsTyped DEF Message, MessagesOf, Roles
      <4>4. <<a, r>> \in Seq(MessagesOf)
        BY <4>3
      <4>5. messages \o <<a, r>> \in Seq(MessagesOf)
        BY <1>1, <4>4, ConcatProperties
      <4>6. QED
        BY <2>1, <3>1, <4>1, <4>5
    <3>2. CASE UNCHANGED messages
      BY <1>1, <3>2
    <3>3. QED
      BY <2>1, <3>1, <3>2
  <2>5. QED
    BY <2>1, <2>3, <2>4 DEF CacheIInv
<1>14. CASE UNCHANGED vars
  <2>1. stage' = stage /\ UNCHANGED <<cache, preceded, messages, input, turn, reasoningItems>>
    BY <1>14 DEF vars, request, stream
  <2>2. NoneYet' => NoneYet
    BY <2>1 DEF NoneYet
  <2>3. QED
    BY <1>1, <1>4, <2>1, <2>2
<1>15. QED
  BY <1>5, <1>6, <1>7, <1>8, <1>9, <1>10, <1>11, <1>12, <1>13, <1>14 DEF Next

LEMMA HandlerIInvImplies == HandlerIInv => ReasoningGoesAlong
<1> SUFFICES ASSUME HandlerIInv PROVE ReasoningGoesAlong
  OBVIOUS
<1>1. Fits(cache.entries, cache.totalBytes) /\ cache.totalBytes = bytesOf(cache.entries)
  BY DEF HandlerIInv, CacheIInv, CacheKept, Good, Exact
<1>2. ASSUME stage = "asked"
      PROVE  /\ \A call \in At("function_call") : has(cache, input[call].name) =>
                  \A r \in preceded[input[call].name] : \E k \in At("reasoning") : k < call /\ input[k].name = r
             /\ \A k \in At("reasoning") :
                  /\ \A j \in At("reasoning") : input[j].name = input[k].name => j = k
                  /\ \E call \in At("function_call") : k < call /\ Before(call, k)
  <2>1. input \in Seq(InputItems) /\ Served(input, cache, preceded) /\ Once(input) /\ Owed(input, preceded, {})
    BY <1>2 DEF HandlerIInv, CacheIInv, Along, Partial
  <2>2. /\ \A type, k : k \in At(type) <=> k \in 1 .. Len(input) /\ input[k].type = type
        /\ \A k \in 1 .. Len(input) : input[k] \in InputItems
    BY <2>1 DEF At
  <2>3. ASSUME NEW call \in At("function_call"), has(cache, input[call].name), NEW r \in preceded[input[call].name]
        PROVE  \E k \in At("reasoning") : k < call /\ input[k].name = r
    <3>1. PICK k \in 1 .. Len(input) : k < call /\ input[k] = Item("reasoning", r)
      BY <2>1, <2>2, <2>3 DEF Served
    <3>2. input[k].type = "reasoning" /\ input[k].name = r
      BY <3>1, ItemFields
    <3>3. QED
      BY <2>2, <3>1, <3>2
  <2>4. ASSUME NEW k \in At("reasoning"), NEW j \in At("reasoning"), input[j].name = input[k].name PROVE j = k
    <3>1. \A x, y \in InputItems : x.type = y.type /\ x.name = y.name => x = y
      BY DEF InputItems
    <3>2. input[j] = input[k] /\ input[k].type = "reasoning" /\ j \in 1 .. Len(input) /\ k \in 1 .. Len(input)
      BY <2>2, <2>4, <3>1
    <3>3. QED
      BY <2>1, <3>2 DEF Once
  <2>5. ASSUME NEW k \in At("reasoning") PROVE \E call \in At("function_call") : k < call /\ Before(call, k)
    BY <2>1, <2>2 DEF Owed, Before
  <2>6. QED
    BY <2>3, <2>4, <2>5
<1>3. QED
  BY <1>1, <1>2 DEF ReasoningGoesAlong

(* The inductive invariant of the cache and of the next request: the cache  *)
(* counts what it holds and holds no call twice, what it holds for a call   *)
(* is the reasoning that preceded it, and calls of a stream come into it    *)
(* with the stream (ReasoningCache, done() of the translator).              *)
THEOREM CacheInvariance == Spec => []HandlerIInv
<1>1. Init => HandlerIInv
  BY InitTurnIInv, InitCacheIInv DEF HandlerIInv
<1>2. HandlerIInv /\ [Next]_vars => HandlerIInv'
  <2>1. HandlerIInv /\ [Next]_vars => TurnIInv' /\ CacheIInv'
    BY StepTurnIInv, StepCacheIInv DEF HandlerIInv
  <2>2. QED
    BY <2>1 DEF HandlerIInv
<1>3. QED
  BY <1>1, <1>2, PTL DEF Spec

(* The reasoning that preceded a call is in front of it in the next request *)
(* as long as the cache holds it, goes once and only with its call, and the *)
(* cache holds what fits, counted to the byte: translateRequest() with the  *)
(* ReasoningCache, for every conversation, every size of the cache and      *)
(* every weight of the reasoning.                                           *)
THEOREM ReasoningGoesAlongHolds == Spec => []ReasoningGoesAlong
BY CacheInvariance, HandlerIInvImplies, PTL

==================================================================================
