---------------------------- MODULE ClaudeAuthProofs ----------------------------
(***************************************************************************)
(* The safety properties of ClaudeAuth for any set of callers and any      *)
(* number of grants.                                                       *)
(***************************************************************************)
EXTENDS ClaudeAuth, TLAPS

(***************************************************************************)
(* The inductive invariant has three parts: who runs the refresh and who   *)
(* waits for it; what has become of each refresh token the server has      *)
(* granted; and what a refresh has made sure of before it writes.          *)
(***************************************************************************)
Working == {"call", "answered", "refused", "write"}
Holding == {"answered", "write"}

Cycle == [stage : Stage, base : File, attempt : 0 .. 1, tok : 0 .. MaxTokens]

(* A refresh that was answered has an access token.                         *)
Sound(r, limit) ==
  /\ r.tok <= limit
  /\ r.stage \in Holding => r.tok # 0

FileInv ==
  /\ FileTypeOK
  /\ file.at <= issued /\ file.rt <= issued

ClockInv == soon \in 0 .. issued /\ over \in 0 .. soon

MemoryInv ==
  /\ refresh \in Callers \cup {"none"}
  /\ cooldown \in BOOLEAN
  /\ lastAccess \in 0 .. issued
  /\ pc \in [Callers -> {"idle", "get", "gotten", "force", "forced", "waiting"}]
  /\ snap \in [Callers -> File]
  /\ \A c \in Callers : snap[c].at <= issued
  /\ joined \in [Callers -> Callers \cup {"none"}]
  /\ got \in [Callers -> 0 .. issued]
  /\ cyc \in [Callers -> Cycle]
  /\ \A c \in Callers : Sound(cyc[c], issued)
  /\ SingleFlight

FlightInv == FileInv /\ ClockInv /\ MemoryInv /\ lost \in BOOLEAN

(* The refresh token a refresh works with is in the store only while the    *)
(* store holds what it has read, and never the one that Claude Code is      *)
(* about to write.                                                          *)
Reads(r) ==
  r.stage \in Working =>
    /\ r.base.rt # cli /\ r.base.rt <= issued
    /\ file.rt = r.base.rt => file.at = r.base.at

(* What a refresh was granted nobody else knows of.                         *)
Holds(r) ==
  r.stage \in Holding => r.tok \in live /\ r.tok # file.rt /\ r.tok # cli

(* The token in the store is used up because this refresh has used it.      *)
Owes(r) == r.stage \in Holding /\ file.rt = r.base.rt

(* The login is in the store, in the hands of Claude Code, or known to be   *)
(* lost.                                                                    *)
Kept == lost \/ cli # 0 \/ file.rt \in live

(* A server that rotates: what is granted is used up by whoever presents    *)
(* it, and is held by one party at a time.                                  *)
Rotating ==
  /\ file.rt # cli /\ (cli # 0 => cli \in live)
  /\ \A o \in Callers : Reads(cyc[o]) /\ Holds(cyc[o])
  /\ Kept \/ \E o \in Callers : Owes(cyc[o])

(* A server that does not: nothing is ever used up.                         *)
Static ==
  /\ file.rt \in live
  /\ \A o \in Callers : cyc[o].stage \in Working => cyc[o].base.rt \in live

TokenInv ==
  /\ Rotates => Rotating
  /\ ~Rotates => Static

(* Unless Claude Code races with it, a write finds what its refresh started *)
(* from, or something that has expired.                                     *)
NativeInv ==
  ~CliRaces => \A o \in Callers :
    cyc[o].stage = "write" => file.at = cyc[o].base.at \/ Expired(file)

IInv == FlightInv /\ TokenInv /\ NativeInv

LEMMA OffFields == Off \in Cycle /\ Off.stage = "off" /\ Off.tok = 0
<1>1. NoSnap \in File
  BY ServerAssumption DEF NoSnap, File, Tokens
<1>2. QED
  BY <1>1, ServerAssumption DEF Off, Cycle, Stage

LEMMA InitIInv == Init => IInv
<1> SUFFICES ASSUME Init PROVE IInv
  OBVIOUS
<1>1. 1 \in Tokens /\ MaxTokens \in Nat
  BY ServerAssumption DEF Tokens
<1>2. /\ file = [kind |-> "good", at |-> 1, rt |-> 1, last |-> 1]
      /\ issued = 1 /\ live = {1} /\ cli = 0 /\ soon = 0 /\ over = 0 /\ lost = FALSE
      /\ refresh = "none" /\ cooldown = FALSE /\ lastAccess = 0
  BY DEF Init, FileInit
<1>3. FileInv /\ ClockInv /\ file.rt = 1
  BY <1>1, <1>2 DEF FileInv, FileTypeOK, File, Tokens, ClockInv
<1>4. NoSnap \in File /\ NoSnap.at = 1
  BY <1>1 DEF NoSnap, File
<1>5. Off \in Cycle /\ Off.stage = "off" /\ Sound(Off, 1)
  BY <1>1, <1>4 DEF Off, Cycle, Stage, Sound, Holding
<1>6. \A c \in Callers : cyc[c] = Off /\ snap[c] = NoSnap /\ pc[c] = "idle" /\ got[c] = 0
  BY DEF Init
<1>7. SingleFlight
  BY <1>2, <1>5, <1>6 DEF SingleFlight, Active
<1>8. /\ pc \in [Callers -> {"idle", "get", "gotten", "force", "forced", "waiting"}]
      /\ joined \in [Callers -> Callers \cup {"none"}]
      /\ snap \in [Callers -> File] /\ cyc \in [Callers -> Cycle]
  BY <1>4, <1>5 DEF Init
<1>9. got \in [Callers -> 0 .. issued] /\ lastAccess \in 0 .. issued
  <2>1. 0 \in 0 .. issued
    BY <1>2
  <2>2. QED
    BY <1>2, <2>1 DEF Init
<1>10. MemoryInv
  <2>1. refresh \in Callers \cup {"none"} /\ cooldown \in BOOLEAN
    BY <1>2
  <2>2. \A c \in Callers : snap[c].at <= issued /\ Sound(cyc[c], issued)
    <3>1. 1 <= issued
      BY <1>2
    <3>2. Sound(Off, issued)
      BY <1>2, <1>5
    <3>3. QED
      BY <1>4, <1>6, <3>1, <3>2
  <2>3. QED
    BY <1>7, <1>8, <1>9, <2>1, <2>2 DEF MemoryInv
<1>11. TokenInv /\ NativeInv
  BY <1>2, <1>3, <1>5, <1>6
     DEF TokenInv, Rotating, Static, Reads, Holds, Owes, Kept, Working, Holding, NativeInv
<1>12. QED
  BY <1>2, <1>3, <1>10, <1>11 DEF IInv, FlightInv

(***************************************************************************)
(* The ways in which a step changes the memory of the manager.             *)
(***************************************************************************)
LEMMA FileFacts ==
  ASSUME FileInv
  PROVE  /\ issued \in Nat /\ issued \in Tokens /\ MaxTokens \in Nat /\ issued <= MaxTokens
         /\ file \in File /\ file.at \in Tokens /\ file.rt \in Tokens
         /\ live \subseteq 1 .. issued /\ cli \in 0 .. issued
         /\ \A n \in Tokens : n \in Nat /\ n # 0
BY ServerAssumption DEF FileInv, FileTypeOK, File, Tokens

LEMMA OthersOff ==
  ASSUME FlightInv, NEW o \in Callers, cyc[o].stage # "off"
  PROVE  refresh = o /\ Active = {o} /\ \A c \in Callers : c # o => cyc[c].stage = "off"
<1>1. refresh = o /\ Active = {o}
  BY DEF FlightInv, MemoryInv, SingleFlight, Active
<1>2. QED
  BY <1>1 DEF Active

(* What the memory holds stays in bounds that grow.                         *)
LEMMA GrowingBounds ==
  ASSUME FlightInv, issued' \in Nat, issued <= issued'
  PROVE  /\ lastAccess \in 0 .. issued' /\ got \in [Callers -> 0 .. issued']
         /\ \A c \in Callers : snap[c].at <= issued' /\ Sound(cyc[c], issued')
<1>1. issued \in Nat
  BY FileFacts DEF FlightInv
<1>2. 0 .. issued \subseteq 0 .. issued'
  BY <1>1
<1>3. ASSUME NEW c \in Callers PROVE snap[c].at <= issued' /\ Sound(cyc[c], issued')
  <2>1. snap[c].at \in Nat /\ snap[c].at <= issued /\ cyc[c].tok \in Nat /\ Sound(cyc[c], issued)
    BY ServerAssumption DEF FlightInv, MemoryInv, File, Tokens, Cycle
  <2>2. QED
    BY <1>1, <2>1 DEF Sound
<1>4. lastAccess \in 0 .. issued'
  BY <1>2 DEF FlightInv, MemoryInv
<1>5. got \in [Callers -> 0 .. issued']
  BY <1>2 DEF FlightInv, MemoryInv
<1>6. QED
  BY <1>3, <1>4, <1>5

(* The promise settles: nobody runs a refresh, nobody waits.                *)
LEMMA EndMemory ==
  ASSUME FlightInv, issued' \in Nat, issued <= issued',
         NEW o \in Callers, cyc[o].stage # "off", NEW t \in 0 .. issued', End(o, t)
  PROVE  MemoryInv' /\ \A c \in Callers : cyc'[c].stage = "off"
<1>1. /\ cyc' = [cyc EXCEPT ![o] = Off] /\ Off \in Cycle /\ Off.stage = "off" /\ Sound(Off, issued')
  BY OffFields DEF End, Sound, Holding
<1>2. \A c \in Callers : cyc'[c] = IF c = o THEN Off ELSE cyc[c]
  BY <1>1 DEF FlightInv, MemoryInv
<1>3. cyc' \in [Callers -> Cycle] /\ \A c \in Callers : cyc'[c].stage = "off" /\ Sound(cyc'[c], issued')
  <2>1. cyc' \in [Callers -> Cycle]
    BY <1>1 DEF FlightInv, MemoryInv
  <2>2. QED
    BY <1>1, <1>2, <2>1, OthersOff, GrowingBounds
<1>4. refresh' = "none" /\ Active' = {}
  BY <1>3 DEF End, Active
<1>5. \A c \in Callers : pc'[c] # "waiting"
  BY OthersOff DEF End, FlightInv, MemoryInv, SingleFlight
<1>6. SingleFlight'
  BY <1>4, <1>5 DEF SingleFlight
<1>7. /\ pc' \in [Callers -> {"idle", "get", "gotten", "force", "forced", "waiting"}]
      /\ joined' \in [Callers -> Callers \cup {"none"}]
  BY DEF End, FlightInv, MemoryInv
<1>8. lastAccess' \in 0 .. issued' /\ got' \in [Callers -> 0 .. issued']
  BY GrowingBounds DEF End
<1>9. UNCHANGED <<cooldown, snap>> /\ \A c \in Callers : snap[c].at <= issued'
  BY GrowingBounds DEF End
<1>10. QED
  BY <1>3, <1>4, <1>6, <1>7, <1>8, <1>9 DEF FlightInv, MemoryInv

(* The owner goes on with his refresh.                                      *)
LEMMA ProceedMemory ==
  ASSUME FlightInv, issued' \in Nat, issued <= issued',
         NEW o \in Callers, cyc[o].stage # "off",
         NEW r \in Cycle, r.stage # "off", Sound(r, issued'), Proceed(o, r)
  PROVE  MemoryInv' /\ \A c \in Callers : cyc'[c] = IF c = o THEN r ELSE cyc[c]
<1>1. cyc' = [cyc EXCEPT ![o] = r] /\ UNCHANGED <<refresh, cooldown, lastAccess, pc, snap, joined, got>>
  BY DEF Proceed, callerVars
<1>2. cyc' \in [Callers -> Cycle] /\ \A c \in Callers : cyc'[c] = IF c = o THEN r ELSE cyc[c]
  BY <1>1 DEF FlightInv, MemoryInv
<1>3. Active' = Active
  <2>1. \A c \in Callers : cyc'[c].stage # "off" <=> cyc[c].stage # "off"
    BY <1>2
  <2>2. QED
    BY <2>1 DEF Active
<1>4. SingleFlight'
  BY <1>1, <1>3 DEF FlightInv, MemoryInv, SingleFlight
<1>5. \A c \in Callers : Sound(cyc'[c], issued')
  BY <1>2, GrowingBounds
<1>6. QED
  BY <1>1, <1>2, <1>4, <1>5, GrowingBounds DEF FlightInv, MemoryInv

(* A caller awaits the refresh in flight or starts one.                     *)
LEMMA RefreshOnceMemory ==
  ASSUME FlightInv, NEW c \in Callers, NEW initial \in File, RefreshOnce(c, initial)
  PROVE  /\ SingleFlight' /\ refresh' \in Callers \cup {"none"}
         /\ pc' \in [Callers -> {"idle", "get", "gotten", "force", "forced", "waiting"}]
         /\ joined' \in [Callers -> Callers \cup {"none"}]
         /\ cyc' \in [Callers -> Cycle] /\ \A o \in Callers : Sound(cyc'[o], issued)
         /\ \A o \in Callers : cyc'[o] = cyc[o] \/ (cyc[o].stage = "off" /\ cyc'[o].stage = "start")
<1>1. pc' = [pc EXCEPT ![c] = "waiting"]
  BY DEF RefreshOnce, Await, Goto
<1>2. CASE refresh = "none"
  <2> DEFINE s == [Off EXCEPT !.stage = "start", !.base = initial]
  <2>1. joined' = [joined EXCEPT ![c] = c] /\ refresh' = c /\ cyc' = [cyc EXCEPT ![c] = s]
    BY <1>2 DEF RefreshOnce, Await
  <2>2. s \in Cycle /\ s.stage = "start" /\ Sound(s, issued)
    <3>1. Off \in Cycle /\ Off.tok = 0
      BY OffFields
    <3>2. s \in Cycle /\ s.stage = "start" /\ s.tok = 0
      BY <3>1 DEF Cycle, Stage
    <3>3. QED
      BY <3>2, FileFacts DEF Sound, Holding, FlightInv
  <2> HIDE DEF s
  <2>3. \A o \in Callers : cyc[o].stage = "off" /\ pc[o] # "waiting"
    BY <1>2 DEF FlightInv, MemoryInv, SingleFlight, Active
  <2>4. cyc' \in [Callers -> Cycle] /\ \A o \in Callers : cyc'[o] = IF o = c THEN s ELSE cyc[o]
    BY <2>1, <2>2 DEF FlightInv, MemoryInv
  <2>5. Active' = {c}
    <3>1. \A o \in Callers : cyc'[o].stage # "off" <=> o = c
      BY <2>2, <2>3, <2>4
    <3>2. QED
      BY <3>1 DEF Active
  <2>6. SingleFlight'
    BY <1>1, <2>1, <2>3, <2>5, CallersAssumption DEF FlightInv, MemoryInv, SingleFlight
  <2>7. QED
    BY <1>1, <2>1, <2>2, <2>3, <2>4, <2>6 DEF FlightInv, MemoryInv
<1>3. CASE refresh # "none"
  <2>1. joined' = [joined EXCEPT ![c] = refresh] /\ UNCHANGED <<refresh, cyc>>
    BY <1>3 DEF RefreshOnce, Await
  <2>2. Active' = Active /\ refresh \in Active
    BY <1>3, <2>1 DEF FlightInv, MemoryInv, SingleFlight, Active
  <2>3. SingleFlight'
    BY <1>1, <1>3, <2>1, <2>2 DEF FlightInv, MemoryInv, SingleFlight
  <2>4. QED
    BY <1>1, <2>1, <2>3 DEF FlightInv, MemoryInv
<1>4. QED
  BY <1>2, <1>3
(***************************************************************************)
(* What becomes of the tokens.                                             *)
(***************************************************************************)
(* When nobody works any more, what is in the store must be good by itself. *)
LEMMA RestingTokens ==
  ASSUME TokenInv, \A c \in Callers : cyc'[c].stage = "off", UNCHANGED <<file, cli>>,
         Rotates /\ cli \in live => cli \in live', ~Rotates => live \subseteq live',
         Rotates => Kept'
  PROVE  TokenInv' /\ NativeInv'
<1>1. Rotates => Rotating'
  BY DEF TokenInv, Rotating, Reads, Holds, Working, Holding
<1>2. ~Rotates => Static'
  BY DEF TokenInv, Static, Working
<1>3. QED
  BY <1>1, <1>2 DEF TokenInv, NativeInv

(* A step that neither the store nor the server takes part in.              *)
SameToken(r, s) ==
  \/ r.stage \notin Holding /\ s.stage \notin Working
  \/ r.stage \notin Holding /\ s.stage \in Working \ Holding /\ s.base = file
  \/ /\ r.stage \in Working /\ s.stage \in Working /\ (r.stage \in Holding <=> s.stage \in Holding)
     /\ s.base = r.base /\ s.tok = r.tok

LEMMA SteadyTokens ==
  ASSUME TokenInv, FileInv, UNCHANGED <<file, issued, live, cli, lost>>,
         \A o \in Callers : cyc'[o] = cyc[o] \/ SameToken(cyc[o], cyc'[o])
  PROVE  TokenInv'
<1>1. ASSUME Rotates PROVE Rotating'
  <2>1. Rotating /\ file.rt <= issued
    BY <1>1 DEF TokenInv, FileInv
  <2>2. ASSUME NEW o \in Callers
        PROVE  Reads(cyc[o])' /\ Holds(cyc[o])' /\ (Owes(cyc[o]) => Owes(cyc[o])')
    <3>1. CASE cyc'[o] = cyc[o]
      BY <2>1, <3>1 DEF Rotating, Reads, Holds, Owes
    <3>2. CASE SameToken(cyc[o], cyc'[o])
      <4>1. cli # file.rt /\ Reads(cyc[o]) /\ Holds(cyc[o])
        BY <2>1 DEF Rotating
      <4>2. QED
        BY <2>1, <3>2, <4>1 DEF SameToken, Reads, Holds, Owes, Working, Holding
    <3>3. QED
      BY <3>1, <3>2
  <2>3. QED
    BY <2>1, <2>2 DEF Rotating, Kept
<1>2. ASSUME ~Rotates PROVE Static'
  BY <1>2 DEF TokenInv, Static, SameToken, Working, Holding
<1>3. QED
  BY <1>1, <1>2 DEF TokenInv

LEMMA SameBounds ==
  ASSUME FlightInv, UNCHANGED fileVars
  PROVE  /\ FileInv' /\ issued' = issued /\ file' = file /\ live' = live /\ cli' = cli /\ issued \in Nat
         /\ issued <= issued' /\ issued' \in Nat
<1>1. FileInv /\ issued \in Nat
  BY FileFacts DEF FlightInv
<1>2. UNCHANGED <<file, issued, live, cli>>
  BY DEF fileVars
<1>3. FileInv'
  BY <1>1, <1>2 DEF FileInv, FileTypeOK
<1>4. QED
  BY <1>1, <1>2, <1>3

(* The clock goes on, and the manager keeps its bounds.                     *)
LEMMA FlightParts ==
  ASSUME FileInv', MemoryInv', issued \in Nat, issued <= issued', FlightInv, UNCHANGED clock, lost' \in BOOLEAN
  PROVE  FlightInv'
<1>1. issued' \in Nat
  BY FileFacts, ServerAssumption DEF FileInv, FileTypeOK, Tokens
<1>2. soon' \in 0 .. issued' /\ over' \in 0 .. soon'
  BY <1>1 DEF FlightInv, ClockInv, clock
<1>3. QED
  BY <1>2 DEF FlightInv, ClockInv

(* A refresh ends: in an error, or with the token it has found.             *)
LEMMA EndIInv ==
  ASSUME IInv, UNCHANGED <<fileVars, clock>>, lost' \in BOOLEAN,
         NEW o \in Callers, cyc[o].stage # "off", NEW t \in 0 .. issued, End(o, t),
         Rotates => lost' \/ (~Owes(cyc[o]) /\ lost' = lost)
  PROVE  IInv'
<1>1. FlightInv /\ TokenInv
  BY DEF IInv
<1>2. FileInv' /\ UNCHANGED <<file, issued, live, cli>> /\ issued \in Nat /\ issued <= issued' /\ issued' \in Nat
  BY <1>1, SameBounds
<1>3. MemoryInv' /\ \A c \in Callers : cyc'[c].stage = "off"
  <2>1. t \in 0 .. issued'
    BY <1>2
  <2>2. QED
    BY <1>1, <1>2, <2>1, EndMemory
<1>4. Rotates => Kept'
  <2>1. SUFFICES ASSUME Rotates, ~lost' PROVE Kept'
    BY DEF Kept
  <2>2. lost' = lost /\ ~Owes(cyc[o])
    BY <2>1
  <2>3. \A c \in Callers : ~Owes(cyc[c])
    BY <1>1, <2>2, OthersOff DEF Owes, Holding
  <2>4. Kept
    BY <1>1, <2>1, <2>3 DEF TokenInv, Rotating
  <2>5. QED
    BY <1>2, <2>2, <2>4 DEF Kept
<1>5. TokenInv' /\ NativeInv'
  BY <1>1, <1>2, <1>3, <1>4, RestingTokens
<1>6. FlightInv'
  BY <1>1, <1>2, <1>3, FlightParts
<1>7. QED
  BY <1>5, <1>6 DEF IInv

(* A refresh goes on, and the server has nothing to do with it.             *)
LEMMA ProceedIInv ==
  ASSUME IInv, UNCHANGED <<fileVars, clock, lost>>,
         NEW o \in Callers, cyc[o].stage # "off",
         NEW r \in Cycle, r.stage # "off", Sound(r, issued), Proceed(o, r), SameToken(cyc[o], r),
         r.stage = "write" => file.at = r.base.at \/ Expired(file)
  PROVE  IInv'
<1>1. FlightInv /\ TokenInv /\ FileInv
  BY DEF IInv, FlightInv
<1>2. FileInv' /\ UNCHANGED <<file, issued, live, cli>> /\ issued \in Nat /\ issued <= issued' /\ issued' \in Nat
  BY <1>1, SameBounds
<1>3. MemoryInv' /\ \A c \in Callers : cyc'[c] = IF c = o THEN r ELSE cyc[c]
  <2>1. Sound(r, issued')
    BY <1>2
  <2>2. QED
    BY <1>1, <1>2, <2>1, ProceedMemory
<1>4. TokenInv'
  <2>1. \A c \in Callers : cyc'[c] = cyc[c] \/ SameToken(cyc[c], cyc'[c])
    BY <1>3
  <2>2. lost' = lost
    OBVIOUS
  <2>3. QED
    BY <1>1, <1>2, <2>1, <2>2, SteadyTokens
<1>5. NativeInv'
  <2>1. over' = over /\ file' = file
    BY <1>2 DEF clock
  <2>2. QED
    BY <1>1, <1>3, <2>1, OthersOff DEF NativeInv, Expired
<1>6. lost' \in BOOLEAN
  BY <1>1 DEF FlightInv
<1>7. FlightInv'
  BY <1>1, <1>2, <1>3, <1>6, FlightParts
<1>8. QED
  BY <1>4, <1>5, <1>7 DEF IInv

LEMMA CycleFacts ==
  ASSUME IInv, NEW o \in Callers
  PROVE  /\ FlightInv /\ FileInv /\ lost \in BOOLEAN /\ file.at \in 0 .. issued
         /\ cyc[o] \in Cycle /\ Sound(cyc[o], issued) /\ cyc[o].tok \in 0 .. issued /\ 0 \in 0 .. issued
<1>1. FlightInv /\ FileInv /\ lost \in BOOLEAN
  BY DEF IInv, FlightInv
<1>2. cyc[o] \in Cycle /\ Sound(cyc[o], issued)
  BY <1>1 DEF FlightInv, MemoryInv
<1>3. issued \in Nat /\ file.at \in Nat /\ file.at <= issued
  BY <1>1, FileFacts DEF FileInv
<1>4. QED
  BY <1>1, <1>2, <1>3 DEF Cycle, Sound

(* Before the server is asked, and after it has refused, nothing is owed.   *)
LEMMA EndEarly ==
  ASSUME IInv, UNCHANGED <<fileVars, clock, lost>>,
         NEW o \in Callers, cyc[o].stage \in {"start", "call", "refused"},
         End(o, 0) \/ End(o, file.at)
  PROVE  IInv'
<1>1. lost' \in BOOLEAN /\ lost' = lost /\ cyc[o].stage # "off" /\ ~Owes(cyc[o])
  BY CycleFacts DEF Owes, Holding
<1>2. file.at \in 0 .. issued /\ 0 \in 0 .. issued
  BY CycleFacts
<1>3. QED
  BY <1>1, <1>2, EndIInv

LEMMA AskIInv ==
  ASSUME IInv, UNCHANGED <<fileVars, clock, lost>>,
         NEW o \in Callers, cyc[o].stage \in {"start", "refused"},
         NEW attempt \in 0 .. 1, Ask(o, attempt)
  PROVE  IInv'
<1>1. CASE file.kind = "good"
  <2> DEFINE r == [Off EXCEPT !.stage = "call", !.base = file, !.attempt = attempt]
  <2>1. Proceed(o, r)
    BY <1>1 DEF Ask
  <2>2. file \in File /\ issued \in Nat
    BY CycleFacts, FileFacts
  <2>3. r \in Cycle /\ r.stage = "call" /\ r.base = file /\ r.tok = 0
    BY <2>2, OffFields DEF Cycle, Stage
  <2> HIDE DEF r
  <2>4. SameToken(cyc[o], r) /\ Sound(r, issued)
    BY <2>2, <2>3 DEF SameToken, Working, Holding, Sound
  <2>5. QED
    BY <2>1, <2>3, <2>4, ProceedIInv
<1>2. CASE file.kind # "good"
  BY <1>2, EndEarly DEF Ask
<1>3. QED
  BY <1>1, <1>2

(***************************************************************************)
(* The steps of a refresh.                                                 *)
(***************************************************************************)
LEMMA StartIInv ==
  ASSUME IInv, NEW o \in Callers, Start(o)
  PROVE  IInv'
<1>1. cyc[o].stage = "start" /\ UNCHANGED <<fileVars, clock, lost>>
  BY DEF Start
<1>2. End(o, 0) \/ End(o, file.at) \/ Ask(o, 0)
  BY DEF Start
<1>3. 0 \in 0 .. 1
  OBVIOUS
<1>4. QED
  BY <1>1, <1>2, <1>3, EndEarly, AskIInv

LEMMA RefusedIInv ==
  ASSUME IInv, NEW o \in Callers, Refused(o) \/ RefusedSettle(o) \/ Unreachable(o)
  PROVE  IInv'
<1>1. UNCHANGED <<fileVars, clock, lost>>
  BY DEF Refused, RefusedSettle, Unreachable
<1>2. CASE Refused(o)
  <2> DEFINE r == [cyc[o] EXCEPT !.stage = "refused"]
  <2>1. Proceed(o, r) /\ cyc[o].stage = "call"
    BY <1>2 DEF Refused
  <2>2. cyc[o] \in Cycle /\ Sound(cyc[o], issued)
    BY CycleFacts
  <2>3. r \in Cycle /\ r.stage = "refused" /\ r.base = cyc[o].base /\ r.tok = cyc[o].tok
    BY <2>2 DEF Cycle, Stage
  <2> HIDE DEF r
  <2>4. SameToken(cyc[o], r) /\ Sound(r, issued)
    BY <2>1, <2>2, <2>3 DEF SameToken, Working, Holding, Sound
  <2>5. QED
    BY <1>1, <2>1, <2>3, <2>4, ProceedIInv
<1>3. CASE RefusedSettle(o)
  <2>1. cyc[o].stage = "refused"
    BY <1>3 DEF RefusedSettle
  <2>2. End(o, 0) \/ End(o, file.at) \/ (cyc[o].attempt = 0 /\ Ask(o, cyc[o].attempt + 1))
    BY <1>3 DEF RefusedSettle
  <2>3. 0 + 1 \in 0 .. 1
    OBVIOUS
  <2>4. QED
    BY <1>1, <2>1, <2>2, <2>3, EndEarly, AskIInv
<1>4. CASE Unreachable(o)
  BY <1>1, <1>4, EndEarly DEF Unreachable
<1>5. QED
  BY <1>2, <1>3, <1>4

(* A grant adds one token, and uses up at most the one presented.           *)
LEMMA GrantFacts ==
  ASSUME FileInv, NEW r, Grant(r), UNCHANGED <<file, cli>>
  PROVE  /\ FileInv' /\ issued \in Nat /\ issued' = issued + 1 /\ issued <= issued' /\ issued' \in Tokens
         /\ issued' \notin live
<1>1. /\ issued \in Nat /\ issued' = issued + 1 /\ issued < MaxTokens /\ issued' \in Tokens
      /\ live \subseteq 1 .. issued /\ cli \in 0 .. issued /\ file.at \in Nat /\ file.rt \in Nat
  BY FileFacts, ServerAssumption DEF Grant, Tokens
<1>2. live' \subseteq live \cup {issued'}
  BY DEF Grant
<1>3. live' \subseteq 1 .. issued'
  <2>1. ASSUME NEW x \in live' PROVE x \in 1 .. issued'
    <3>1. x \in 1 .. issued \/ x = issued'
      BY <1>1, <1>2, <2>1
    <3>2. QED
      BY <1>1, <3>1
  <2>2. QED
    BY <2>1
<1>4. cli' \in 0 .. issued' /\ file'.at <= issued' /\ file'.rt <= issued'
  BY <1>1 DEF FileInv
<1>5. QED
  BY <1>1, <1>3, <1>4 DEF FileInv, FileTypeOK

(* A refresh is granted a token: the one it presents is used up.            *)
LEMMA AnsweredTokens ==
  ASSUME IInv, NEW o \in Callers, cyc[o].stage = "call", Grant(cyc[o].base.rt), UNCHANGED <<file, cli, lost>>,
         cyc'[o].stage = "answered", cyc'[o].base = cyc[o].base, cyc'[o].tok = issued + 1,
         \A c \in Callers : c # o => cyc'[c] = cyc[c] /\ cyc[c].stage = "off"
  PROVE  TokenInv'
<1>1. /\ issued \in Nat /\ issued' = issued + 1 /\ file.rt \in Nat /\ cli \in 0 .. issued
      /\ live \subseteq 1 .. issued /\ file.rt <= issued /\ TokenInv
  BY FileFacts DEF IInv, FlightInv, FileInv, Grant
<1>2. cyc[o].base.rt \in Nat
  BY CycleFacts DEF Cycle, File, Tokens
<1>3. ASSUME Rotates PROVE Rotating'
  <2>1. /\ file.rt # cli /\ (cli # 0 => cli \in live)
        /\ Reads(cyc[o]) /\ (Kept \/ \E c \in Callers : Owes(cyc[c]))
    BY <1>1, <1>3 DEF TokenInv, Rotating
  <2>2. live' = (live \ {cyc[o].base.rt}) \cup {issued + 1}
    BY <1>1, <1>3 DEF Grant
  <2>3. cyc[o].base.rt # cli /\ cyc[o].base.rt <= issued
        /\ (file.rt = cyc[o].base.rt => file.at = cyc[o].base.at)
    BY <2>1 DEF Reads, Working
  <2>4. Kept
    <3>1. \A c \in Callers : ~Owes(cyc[c])
      BY DEF Owes, Holding
    <3>2. QED
      BY <2>1, <3>1
  <2>5. \A c \in Callers : Reads(cyc[c])' /\ Holds(cyc[c])'
    <3>1. Reads(cyc[o])' /\ Holds(cyc[o])'
      BY <1>1, <1>2, <2>2, <2>3 DEF Reads, Holds
    <3>2. \A c \in Callers : c # o => cyc'[c].stage = "off"
      OBVIOUS
    <3>3. QED
      BY <3>1, <3>2 DEF Reads, Holds, Working, Holding
  <2>6. Kept' \/ Owes(cyc[o])'
    <3>1. CASE file.rt = cyc[o].base.rt
      BY <3>1 DEF Owes, Holding
    <3>2. CASE file.rt # cyc[o].base.rt
      BY <2>2, <2>4, <3>2 DEF Kept
    <3>3. QED
      BY <3>1, <3>2
  <2>7. cli # 0 => cli \in live'
    BY <2>1, <2>2, <2>3
  <2>8. QED
    BY <2>1, <2>5, <2>6, <2>7 DEF Rotating
<1>4. ASSUME ~Rotates PROVE Static'
  BY <1>1, <1>4 DEF TokenInv, Static, Grant, Working
<1>5. QED
  BY <1>3, <1>4 DEF TokenInv

LEMMA AnsweredIInv ==
  ASSUME IInv, NEW o \in Callers, Answered(o)
  PROVE  IInv'
<1> DEFINE r == [cyc[o] EXCEPT !.stage = "answered", !.tok = issued']
<1>1. /\ cyc[o].stage = "call" /\ Grant(cyc[o].base.rt) /\ Proceed(o, r)
      /\ UNCHANGED <<file, cli, lost>> /\ UNCHANGED clock
  BY DEF Answered
<1>2. FlightInv /\ FileInv /\ lost \in BOOLEAN /\ cyc[o] \in Cycle
  BY CycleFacts
<1>3. FileInv' /\ issued \in Nat /\ issued' = issued + 1 /\ issued <= issued' /\ issued' \in Tokens
  BY <1>1, <1>2, GrantFacts
<1>4. issued' \in Nat /\ issued' \in 0 .. MaxTokens /\ issued' # 0
  BY <1>3, ServerAssumption DEF Tokens
<1>5. r \in Cycle /\ r.stage = "answered" /\ r.base = cyc[o].base /\ r.tok = issued'
  BY <1>2, <1>4 DEF Cycle, Stage
<1> HIDE DEF r
<1>6. Sound(r, issued')
  BY <1>4, <1>5 DEF Sound
<1>7. MemoryInv' /\ \A c \in Callers : cyc'[c] = IF c = o THEN r ELSE cyc[c]
  BY <1>1, <1>2, <1>3, <1>4, <1>5, <1>6, ProceedMemory
<1>8. cyc'[o] = r /\ \A c \in Callers : c # o => cyc'[c] = cyc[c] /\ cyc[c].stage = "off"
  BY <1>1, <1>2, <1>7, OthersOff
<1>9. TokenInv'
  BY <1>1, <1>3, <1>5, <1>8, AnsweredTokens
<1>10. NativeInv'
  BY <1>5, <1>8 DEF NativeInv
<1>11. FlightInv'
  <2>1. lost' \in BOOLEAN
    BY <1>1, <1>2
  <2>2. QED
    BY <1>1, <1>2, <1>3, <1>7, <2>1, FlightParts
<1>12. QED
  BY <1>9, <1>10, <1>11 DEF IInv

(* The server has used up the token and nobody got the new one.             *)
LEMMA AnswerLostIInv ==
  ASSUME IInv, NEW o \in Callers, AnswerLost(o)
  PROVE  IInv'
<1>1. /\ cyc[o].stage = "call" /\ Grant(cyc[o].base.rt) /\ End(o, 0) /\ lost' = (lost \/ Rotates)
      /\ UNCHANGED <<file, cli>> /\ UNCHANGED clock
  BY DEF AnswerLost
<1>2. FlightInv /\ FileInv /\ TokenInv
  BY DEF IInv, FlightInv
<1>3. FileInv' /\ issued \in Nat /\ issued <= issued' /\ issued' \in Nat
  BY <1>1, <1>2, GrantFacts
<1>4. MemoryInv' /\ \A c \in Callers : cyc'[c].stage = "off"
  <2>1. 0 \in 0 .. issued'
    BY <1>3
  <2>2. QED
    BY <1>1, <1>2, <1>3, <2>1, EndMemory
<1>5. lost' \in BOOLEAN
  BY <1>1
<1>6. /\ Rotates /\ cli \in live => cli \in live'
      /\ ~Rotates => live \subseteq live'
  <2>1. Rotates => cyc[o].base.rt # cli
    BY <1>1, <1>2 DEF TokenInv, Rotating, Reads, Working
  <2>2. QED
    BY <1>1, <2>1 DEF Grant
<1>7. Rotates => Kept'
  BY <1>1 DEF Kept
<1>8. TokenInv' /\ NativeInv'
  BY <1>1, <1>2, <1>4, <1>6, <1>7, RestingTokens
<1>9. FlightInv'
  BY <1>1, <1>2, <1>3, <1>4, <1>5, FlightParts
<1>10. QED
  BY <1>8, <1>9 DEF IInv

(* What was stored meanwhile is adopted, or about to be replaced.           *)
LEMMA AnsweredSettleIInv ==
  ASSUME IInv, NEW o \in Callers, AnsweredSettle(o)
  PROVE  IInv'
<1>1. cyc[o].stage = "answered" /\ UNCHANGED <<fileVars, clock>>
  BY DEF AnsweredSettle
<1>2. cyc[o] \in Cycle /\ Sound(cyc[o], issued) /\ lost \in BOOLEAN /\ file.at \in 0 .. issued /\ 0 \in 0 .. issued
  BY CycleFacts
<1>3. CASE ~Readable(file)
  <2>1. End(o, 0) /\ lost' = (lost \/ Rotates)
    BY <1>3 DEF AnsweredSettle
  <2>2. lost' \in BOOLEAN /\ (Rotates => lost')
    BY <2>1
  <2>3. QED
    BY <1>1, <1>2, <2>1, <2>2, EndIInv
<1>4. CASE Readable(file) /\ Replaced(o)
  <2>1. End(o, file.at) /\ lost' = lost
    BY <1>4 DEF AnsweredSettle
  <2>2. Rotates => ~Owes(cyc[o])
    BY <1>1, <1>4 DEF IInv, TokenInv, Rotating, Reads, Working, Owes, Replaced
  <2>3. QED
    BY <1>1, <1>2, <2>1, <2>2, EndIInv
<1>5. CASE Readable(file) /\ ~Replaced(o)
  <2> DEFINE r == [cyc[o] EXCEPT !.stage = "write"]
  <2>1. Proceed(o, r) /\ lost' = lost
    BY <1>5 DEF AnsweredSettle
  <2>2. r \in Cycle /\ r.stage = "write" /\ r.base = cyc[o].base /\ r.tok = cyc[o].tok
    BY <1>2 DEF Cycle, Stage
  <2> HIDE DEF r
  <2>3. SameToken(cyc[o], r) /\ Sound(r, issued)
    BY <1>1, <1>2, <2>2 DEF SameToken, Working, Holding, Sound
  <2>4. file.at = r.base.at \/ Expired(file)
    BY <1>5, <2>2 DEF Replaced
  <2>5. QED
    BY <1>1, <2>1, <2>2, <2>3, <2>4, ProceedIInv
<1>6. QED
  BY <1>3, <1>4, <1>5

(* The grant reaches the store, or is lost where the server rotates.        *)
LEMMA WriteIInv ==
  ASSUME IInv, NEW o \in Callers, Write(o)
  PROVE  IInv'
<1>1. PICK written \in BOOLEAN, reported \in BOOLEAN :
        /\ file' = IF written
                   THEN [kind |-> "good", at |-> cyc[o].tok, last |-> issued,
                         rt |-> IF Rotates THEN cyc[o].tok ELSE cyc[o].base.rt]
                   ELSE file
        /\ lost' = (lost \/ (Rotates /\ ~written))
        /\ End(o, IF reported THEN cyc[o].tok ELSE 0)
  BY DEF Write
<1>2. cyc[o].stage = "write" /\ UNCHANGED <<issued, live, cli>> /\ UNCHANGED clock
  BY DEF Write
<1>3. /\ FlightInv /\ FileInv /\ TokenInv /\ lost \in BOOLEAN /\ 0 \in 0 .. issued
      /\ cyc[o] \in Cycle /\ Sound(cyc[o], issued) /\ cyc[o].tok \in 0 .. issued
  BY CycleFacts DEF IInv
<1>4. /\ issued \in Nat /\ issued \in Tokens /\ issued <= MaxTokens /\ MaxTokens \in Nat
      /\ live \subseteq 1 .. issued /\ file \in File
  BY <1>3, FileFacts
<1>5. cyc[o].tok \in Tokens /\ cyc[o].tok <= issued
  <2>1. cyc[o].tok # 0
    BY <1>2, <1>3 DEF Sound, Holding
  <2>2. QED
    BY <1>3, <1>4, <2>1 DEF Tokens
<1>6. MemoryInv' /\ \A c \in Callers : cyc'[c].stage = "off"
  <2>1. issued' \in Nat /\ issued <= issued' /\ (IF reported THEN cyc[o].tok ELSE 0) \in 0 .. issued'
    BY <1>2, <1>3, <1>4
  <2>2. cyc[o].stage # "off"
    BY <1>2
  <2>3. QED
    BY <1>1, <1>3, <2>1, <2>2, EndMemory
<1>7. lost' \in BOOLEAN
  BY <1>1
<1>8. NativeInv'
  BY <1>6 DEF NativeInv
<1>9. FileInv' /\ TokenInv'
  <2>1. CASE ~written
    <3>1. file' = file
      BY <1>1, <2>1
    <3>2. FileInv'
      BY <1>2, <1>3, <3>1 DEF FileInv, FileTypeOK
    <3>3. Rotates => Kept'
      BY <1>1, <2>1 DEF Kept
    <3>4. QED
      BY <1>2, <1>3, <1>6, <3>1, <3>2, <3>3, RestingTokens
  <2>2. CASE written
    <3> DEFINE next == IF Rotates THEN cyc[o].tok ELSE cyc[o].base.rt
    <3>1. next \in live
      <4>1. CASE Rotates
        BY <1>2, <1>3, <4>1 DEF TokenInv, Rotating, Holds, Holding
      <4>2. CASE ~Rotates
        BY <1>2, <1>3, <4>2 DEF TokenInv, Static, Working
      <4>3. QED
        BY <4>1, <4>2
    <3>2. file' = [kind |-> "good", at |-> cyc[o].tok, last |-> issued, rt |-> next]
      BY <1>1, <2>2
    <3>3. Rotates => next # cli
      BY <1>2, <1>3 DEF TokenInv, Rotating, Holds, Holding
    <3> HIDE DEF next
    <3>4. next \in Tokens /\ next <= issued
      BY <1>4, <3>1 DEF Tokens
    <3>5. file' \in File /\ file'.rt = next /\ file'.at = cyc[o].tok
      BY <1>4, <1>5, <3>2, <3>4 DEF File
    <3>6. FileInv'
      BY <1>2, <1>3, <1>5, <3>4, <3>5 DEF FileInv, FileTypeOK
    <3>7. Rotates => Rotating'
      BY <1>2, <1>3, <1>6, <3>1, <3>3, <3>5 DEF TokenInv, Rotating, Reads, Holds, Kept, Working, Holding
    <3>8. ~Rotates => Static'
      BY <1>2, <1>6, <3>1, <3>5 DEF Static, Working
    <3>9. QED
      BY <3>6, <3>7, <3>8 DEF TokenInv
  <2>3. QED
    BY <2>1, <2>2
<1>10. FlightInv'
  <2>1. issued <= issued'
    BY <1>2, <1>4
  <2>2. QED
    BY <1>2, <1>3, <1>4, <1>6, <1>7, <1>9, <2>1, FlightParts
<1>11. QED
  BY <1>8, <1>9, <1>10 DEF IInv

(***************************************************************************)
(* The steps of the callers.                                               *)
(***************************************************************************)
(* A caller has nothing to do with the tokens: at most it starts a refresh. *)
LEMMA CallerStep ==
  ASSUME IInv, UNCHANGED <<fileVars, clock, lost>>, MemoryInv',
         \A o \in Callers : cyc'[o] = cyc[o] \/ (cyc[o].stage = "off" /\ cyc'[o].stage = "start")
  PROVE  IInv'
<1>1. FlightInv /\ TokenInv /\ FileInv /\ lost' \in BOOLEAN
  BY DEF IInv, FlightInv
<1>2. FileInv' /\ UNCHANGED <<file, issued, live, cli>> /\ issued \in Nat /\ issued <= issued' /\ issued' \in Nat
  BY <1>1, SameBounds
<1>3. TokenInv'
  <2>1. \A o \in Callers : cyc'[o] = cyc[o] \/ SameToken(cyc[o], cyc'[o])
    BY DEF SameToken, Working, Holding
  <2>2. lost' = lost
    OBVIOUS
  <2>3. QED
    BY <1>1, <1>2, <2>1, <2>2, SteadyTokens
<1>4. NativeInv'
  <2>1. over' = over /\ file' = file
    BY <1>2 DEF clock
  <2>2. QED
    BY <2>1 DEF IInv, NativeInv, Expired
<1>5. FlightInv'
  BY <1>1, <1>2, FlightParts
<1>6. QED
  BY <1>3, <1>4, <1>5 DEF IInv

(* Going anywhere but to wait.                                              *)
LEMMA GotoFlight ==
  ASSUME FlightInv, NEW c \in Callers, NEW where \in {"idle", "get", "gotten", "force", "forced"},
         Goto(c, where), UNCHANGED <<refresh, cyc, joined>>
  PROVE  /\ SingleFlight'
         /\ pc' \in [Callers -> {"idle", "get", "gotten", "force", "forced", "waiting"}]
<1>1. pc' = [pc EXCEPT ![c] = where] /\ where # "waiting"
  BY DEF Goto
<1>2. Active' = Active
  BY DEF Active
<1>3. pc' \in [Callers -> {"idle", "get", "gotten", "force", "forced", "waiting"}]
  BY <1>1 DEF FlightInv, MemoryInv
<1>4. \A o \in Callers : pc'[o] = "waiting" => pc[o] = "waiting"
  BY <1>1 DEF FlightInv, MemoryInv
<1>5. QED
  BY <1>2, <1>3, <1>4 DEF FlightInv, MemoryInv, SingleFlight

LEMMA CallIInv ==
  ASSUME IInv, NEW c \in Callers, Call(c) \/ StoreRead(c)
  PROVE  IInv'
<1>1. UNCHANGED <<fileVars, clock, lost>> /\ UNCHANGED <<refresh, lastAccess, cyc>>
  BY DEF Call, GetCredentials, ForceRefresh, StoreRead
<1>2. FlightInv /\ FileInv
  BY DEF IInv, FlightInv
<1>3. issued' = issued /\ issued \in Nat
  BY <1>1, <1>2, SameBounds
<1>4. /\ SingleFlight' /\ pc' \in [Callers -> {"idle", "get", "gotten", "force", "forced", "waiting"}]
      /\ joined' \in [Callers -> Callers \cup {"none"}]
  <2>1. ASSUME NEW where \in {"idle", "get", "gotten", "force", "forced"}, Goto(c, where), UNCHANGED joined
        PROVE  /\ SingleFlight' /\ pc' \in [Callers -> {"idle", "get", "gotten", "force", "forced", "waiting"}]
               /\ joined' \in [Callers -> Callers \cup {"none"}]
    <3>1. UNCHANGED <<refresh, cyc, joined>>
      BY <1>1, <2>1
    <3>2. QED
      BY <1>2, <2>1, <3>1, GotoFlight DEF FlightInv, MemoryInv
  <2>2. CASE Await(c, refresh) /\ refresh # "none"
    <3>1. pc' = [pc EXCEPT ![c] = "waiting"] /\ joined' = [joined EXCEPT ![c] = refresh]
      BY <2>2 DEF Await, Goto
    <3>2. Active' = Active /\ refresh \in Active
      BY <1>1, <1>2, <2>2 DEF FlightInv, MemoryInv, SingleFlight, Active
    <3>3. QED
      BY <1>1, <1>2, <3>1, <3>2 DEF FlightInv, MemoryInv, SingleFlight
  <2>3. QED
    BY <2>1, <2>2 DEF Call, GetCredentials, ForceRefresh, StoreRead
<1>5. got' \in [Callers -> 0 .. issued] /\ cooldown' \in BOOLEAN
  <2>1. got' = got \/ got' = [got EXCEPT ![c] = 0]
    BY DEF Call, GetCredentials, ForceRefresh, StoreRead
  <2>2. 0 \in 0 .. issued
    BY <1>3
  <2>3. got' \in [Callers -> 0 .. issued]
    BY <1>2, <2>1, <2>2 DEF FlightInv, MemoryInv
  <2>4. cooldown' = cooldown \/ cooldown' = TRUE
    BY DEF Call, GetCredentials, ForceRefresh, StoreRead
  <2>5. cooldown' \in BOOLEAN
    BY <1>2, <2>4 DEF FlightInv, MemoryInv
  <2>6. QED
    BY <2>3, <2>5
<1>6. snap' \in [Callers -> File] /\ \A o \in Callers : snap'[o].at <= issued
  <2>1. snap' = snap \/ snap' = [snap EXCEPT ![c] = file]
    BY DEF Call, GetCredentials, ForceRefresh, StoreRead
  <2>2. file \in File /\ file.at <= issued
    BY <1>2 DEF FileInv, FileTypeOK
  <2>3. QED
    BY <1>2, <2>1, <2>2 DEF FlightInv, MemoryInv
<1>7. MemoryInv'
  BY <1>1, <1>2, <1>3, <1>4, <1>5, <1>6 DEF FlightInv, MemoryInv
<1>8. QED
  BY <1>1, <1>7, CallerStep

LEMMA SettleIInv ==
  ASSUME IInv, NEW c \in Callers, GetSettle(c) \/ ForceSettle(c)
  PROVE  IInv'
<1>1. /\ UNCHANGED <<fileVars, clock, lost>> /\ UNCHANGED cooldown
      /\ snap' = [snap EXCEPT ![c] = NoSnap]
  BY DEF GetSettle, ForceSettle
<1>2. FlightInv /\ FileInv
  BY DEF IInv, FlightInv
<1>3. issued' = issued /\ issued \in Nat
  BY <1>1, <1>2, SameBounds
<1>4. snap[c] \in File /\ snap[c].at <= issued /\ snap[c].at \in Nat
  BY <1>2, ServerAssumption DEF FlightInv, MemoryInv, File, Tokens
<1>5. snap' \in [Callers -> File] /\ \A o \in Callers : snap'[o].at <= issued
  <2>1. NoSnap \in File /\ NoSnap.at = 1
    BY ServerAssumption DEF NoSnap, File, Tokens
  <2>2. 1 <= issued
    BY <1>2, <1>3, FileFacts
  <2>3. QED
    BY <1>1, <1>2, <2>1, <2>2 DEF FlightInv, MemoryInv
<1>6. ASSUME Goto(c, "idle"), UNCHANGED <<joined, refresh, cyc>>,
             got' \in [Callers -> 0 .. issued], lastAccess' \in 0 .. issued
      PROVE  IInv'
  <2>1. /\ SingleFlight' /\ pc' \in [Callers -> {"idle", "get", "gotten", "force", "forced", "waiting"}]
    BY <1>2, <1>6, GotoFlight
  <2>2. MemoryInv'
    BY <1>1, <1>2, <1>3, <1>5, <1>6, <2>1 DEF FlightInv, MemoryInv
  <2>3. QED
    BY <1>1, <1>6, <2>2, CallerStep
<1>7. CASE Failed(c) /\ UNCHANGED <<joined, refresh, cyc>>
  <2>1. 0 \in 0 .. issued
    BY <1>3
  <2>2. got' \in [Callers -> 0 .. issued] /\ lastAccess' \in 0 .. issued
    BY <1>2, <1>7, <2>1 DEF Failed, FlightInv, MemoryInv
  <2>3. QED
    BY <1>6, <1>7, <2>2 DEF Failed
<1>8. CASE Served(c, snap[c].at) /\ UNCHANGED <<joined, refresh, cyc>>
  <2>1. snap[c].at \in 0 .. issued
    BY <1>3, <1>4
  <2>2. got' \in [Callers -> 0 .. issued] /\ lastAccess' \in 0 .. issued
    BY <1>2, <1>8, <2>1 DEF Served, FlightInv, MemoryInv
  <2>3. QED
    BY <1>6, <1>8, <2>2 DEF Served
<1>9. CASE RefreshOnce(c, snap[c])
  <2>1. /\ SingleFlight' /\ refresh' \in Callers \cup {"none"}
        /\ pc' \in [Callers -> {"idle", "get", "gotten", "force", "forced", "waiting"}]
        /\ joined' \in [Callers -> Callers \cup {"none"}]
        /\ cyc' \in [Callers -> Cycle] /\ \A o \in Callers : Sound(cyc'[o], issued)
        /\ \A o \in Callers : cyc'[o] = cyc[o] \/ (cyc[o].stage = "off" /\ cyc'[o].stage = "start")
    BY <1>2, <1>4, <1>9, RefreshOnceMemory
  <2>2. UNCHANGED <<got, lastAccess>>
    BY <1>9 DEF RefreshOnce
  <2>3. MemoryInv'
    BY <1>1, <1>2, <1>3, <1>5, <2>1, <2>2 DEF FlightInv, MemoryInv
  <2>4. QED
    BY <1>1, <2>1, <2>3, CallerStep
<1>10. QED
  BY <1>7, <1>8, <1>9 DEF GetSettle, ForceSettle

(***************************************************************************)
(* The environment.                                                        *)
(***************************************************************************)
LEMMA MemoryKept ==
  ASSUME FlightInv, UNCHANGED memory, issued' \in Nat, issued <= issued'
  PROVE  MemoryInv'
<1>1. UNCHANGED <<refresh, cooldown, lastAccess, pc, snap, joined, got, cyc>>
  BY DEF memory, callerVars
<1>2. SingleFlight'
  BY <1>1 DEF FlightInv, MemoryInv, SingleFlight, Active
<1>3. QED
  BY <1>1, <1>2, GrowingBounds DEF FlightInv, MemoryInv

LEMMA ExpireIInv ==
  ASSUME IInv, NEW t \in Tokens, Expire(t)
  PROVE  IInv'
<1>1. /\ UNCHANGED fileVars /\ UNCHANGED memory /\ lost' = lost /\ t <= issued
      /\ (soon < t /\ soon' = t /\ over' = over) \/ (over < t /\ t <= soon /\ over' = t /\ soon' = soon)
  BY DEF Expire
<1>2. FlightInv /\ TokenInv /\ FileInv /\ ClockInv /\ lost' \in BOOLEAN
  BY <1>1 DEF IInv, FlightInv
<1>3. FileInv' /\ UNCHANGED <<file, issued, live, cli>> /\ issued \in Nat /\ issued <= issued' /\ issued' \in Nat
  BY <1>1, <1>2, SameBounds
<1>4. t \in Nat /\ soon \in Nat /\ over \in Nat /\ over <= soon /\ soon <= issued
  BY <1>2, <1>3, ServerAssumption DEF Tokens, ClockInv
<1>5. ClockInv' /\ over <= over' /\ over' \in Nat
  BY <1>1, <1>3, <1>4 DEF ClockInv
<1>6. MemoryInv'
  BY <1>1, <1>2, <1>3, MemoryKept
<1>7. cyc' = cyc
  BY <1>1 DEF memory
<1>8. TokenInv'
  BY <1>1, <1>2, <1>3, <1>7, SteadyTokens
<1>9. NativeInv'
  <2>1. Expired(file) => Expired(file)'
    <3>1. file.at \in Nat
      BY <1>2, FileFacts
    <3>2. QED
      BY <1>3, <1>4, <1>5, <3>1 DEF Expired
  <2>2. QED
    BY <1>3, <1>7, <2>1 DEF IInv, NativeInv
<1>10. QED
  BY <1>2, <1>3, <1>5, <1>6, <1>8, <1>9 DEF IInv, FlightInv

(* What leaves tokens, clock and refreshes alone.                           *)
LEMMA StillIInv ==
  ASSUME IInv, CooldownEnds \/ UNCHANGED vars
  PROVE  IInv'
<1>1. /\ UNCHANGED <<fileVars, clock, lost>> /\ UNCHANGED <<refresh, lastAccess, pc, snap, joined, got, cyc>>
      /\ cooldown' = FALSE \/ cooldown' = cooldown
  BY DEF CooldownEnds, vars, memory, callerVars
<1>2. FlightInv
  BY DEF IInv
<1>3. issued' = issued
  BY <1>1, <1>2, SameBounds
<1>4. SingleFlight' /\ cooldown' \in BOOLEAN
  BY <1>1, <1>2 DEF FlightInv, MemoryInv, SingleFlight, Active
<1>5. MemoryInv'
  BY <1>1, <1>2, <1>3, <1>4 DEF FlightInv, MemoryInv
<1>6. QED
  BY <1>1, <1>5, CallerStep

(* Claude Code is granted a token of its own.                               *)
LEMMA CliGrantIInv ==
  ASSUME IInv, CliRefresh \/ CliLogin, UNCHANGED <<clock, memory, lost>>
  PROVE  IInv'
<1>1. /\ issued < MaxTokens /\ issued' = issued + 1 /\ cli' = issued + 1 /\ file' = file
      /\ live' \subseteq live \cup {issued + 1}
      /\ Rotates => (live \ {file.rt}) \cup {issued + 1} \subseteq live'
      /\ ~Rotates => live \subseteq live'
  BY DEF CliRefresh, CliLogin, Grant
<1>2. /\ FlightInv /\ FileInv /\ TokenInv /\ lost' \in BOOLEAN /\ cyc' = cyc
  BY DEF IInv, FlightInv, memory
<1>3. /\ issued \in Nat /\ MaxTokens \in Nat /\ file.at \in Nat /\ file.rt \in Nat /\ file.rt # 0
      /\ live \subseteq 1 .. issued /\ cli \in 0 .. issued /\ file.rt <= issued /\ file.at <= issued
  BY <1>2, FileFacts DEF FileInv
<1>4. issued' \in Tokens /\ issued' \in Nat /\ issued <= issued'
  BY <1>1, <1>3 DEF Tokens
<1>5. FileInv'
  <2>1. ASSUME NEW x \in live' PROVE x \in 1 .. issued'
    <3>1. x \in 1 .. issued \/ x = issued + 1
      BY <1>1, <1>3, <2>1
    <3>2. QED
      BY <1>1, <1>3, <3>1
  <2>2. cli' \in 0 .. issued' /\ file'.at <= issued' /\ file'.rt <= issued'
    BY <1>1, <1>3
  <2>3. live' \subseteq 1 .. issued'
    BY <2>1
  <2>4. QED
    BY <1>1, <1>2, <1>4, <2>2, <2>3 DEF FileInv, FileTypeOK
<1>6. ASSUME Rotates PROVE Rotating'
  <2>1. \A o \in Callers : Reads(cyc[o]) /\ Holds(cyc[o])
    BY <1>2, <1>6 DEF TokenInv, Rotating
  <2>2. ASSUME NEW o \in Callers PROVE Reads(cyc[o])' /\ Holds(cyc[o])'
    <3>1. cyc[o].base.rt \in Nat /\ cyc[o].tok \in 0 .. issued
      BY CycleFacts, ServerAssumption DEF Cycle, File, Tokens
    <3>2. Reads(cyc[o])'
      BY <1>1, <1>2, <1>3, <2>1, <3>1 DEF Reads
    <3>3. Holds(cyc[o])'
      BY <1>1, <1>2, <1>3, <1>6, <2>1, <3>1 DEF Holds
    <3>4. QED
      BY <3>2, <3>3
  <2>3. file'.rt # cli' /\ cli' # 0 /\ cli' \in live'
    BY <1>1, <1>3, <1>6
  <2>4. QED
    BY <2>2, <2>3 DEF Rotating, Kept
<1>7. ASSUME ~Rotates PROVE Static'
  BY <1>1, <1>2, <1>7 DEF TokenInv, Static
<1>8. NativeInv'
  BY <1>1, <1>2 DEF clock, IInv, NativeInv, Expired
<1>9. MemoryInv'
  BY <1>2, <1>4, MemoryKept
<1>10. FlightInv'
  BY <1>2, <1>3, <1>4, <1>5, <1>9, FlightParts
<1>11. QED
  BY <1>6, <1>7, <1>8, <1>10 DEF IInv, TokenInv

(* Claude Code brings its token to the store.                               *)
LEMMA CliWriteIInv ==
  ASSUME IInv, Quiet, CliWrite, lost' = (lost /\ file'.rt \notin live), UNCHANGED <<clock, memory>>
  PROVE  IInv'
<1>1. /\ cli # 0 /\ cli' = 0 /\ UNCHANGED <<issued, live>>
      /\ file' = [kind |-> "good", at |-> cli, last |-> cli, rt |-> IF cli \in live THEN cli ELSE file.rt]
  BY DEF CliWrite
<1>2. /\ FlightInv /\ FileInv /\ TokenInv /\ lost \in BOOLEAN /\ cyc' = cyc
  BY DEF IInv, FlightInv, memory
<1>3. /\ issued \in Nat /\ issued <= MaxTokens /\ MaxTokens \in Nat /\ file.rt \in Tokens /\ file.rt <= issued
      /\ live \subseteq 1 .. issued /\ cli \in 0 .. issued
  BY <1>2, FileFacts DEF FileInv
<1>4. cli \in Tokens /\ cli <= issued
  BY <1>1, <1>3 DEF Tokens
<1>5. file' \in File /\ file'.at = cli /\ file'.rt = IF cli \in live THEN cli ELSE file.rt
  BY <1>1, <1>3, <1>4 DEF File
<1>6. FileInv'
  <2>1. cli' \in 0 .. issued' /\ file'.at <= issued' /\ file'.rt <= issued'
    BY <1>1, <1>3, <1>4, <1>5
  <2>2. QED
    BY <1>1, <1>2, <1>5, <2>1 DEF FileInv, FileTypeOK
<1>7. ASSUME Rotates PROVE Rotating'
  <2>1. cli \in live /\ \A o \in Callers : Reads(cyc[o]) /\ Holds(cyc[o])
    BY <1>1, <1>2, <1>7 DEF TokenInv, Rotating
  <2>2. file'.rt = cli
    BY <1>5, <2>1
  <2>3. ASSUME NEW o \in Callers PROVE Reads(cyc[o])' /\ Holds(cyc[o])'
    <3>1. cyc[o].base.rt # 0 /\ (cyc[o].stage \in Holding => cyc[o].tok # 0)
      BY CycleFacts, ServerAssumption DEF Cycle, File, Tokens, Sound
    <3>2. QED
      BY <1>1, <1>2, <2>1, <2>2, <3>1 DEF Reads, Holds
  <2>4. QED
    BY <1>1, <2>1, <2>2, <2>3 DEF Rotating, Kept
<1>8. ASSUME ~Rotates PROVE Static'
  BY <1>1, <1>2, <1>5, <1>8 DEF TokenInv, Static
<1>9. NativeInv'
  BY <1>2 DEF Quiet, NativeInv
<1>10. lost' \in BOOLEAN /\ issued' \in Nat /\ issued <= issued'
  BY <1>1, <1>3
<1>11. MemoryInv'
  BY <1>2, <1>10, MemoryKept
<1>12. FlightInv'
  BY <1>2, <1>3, <1>6, <1>10, <1>11, FlightParts
<1>13. QED
  BY <1>7, <1>8, <1>9, <1>12 DEF IInv, TokenInv

(* The store is locked, damaged or edited by hand.                          *)
LEMMA DamageIInv ==
  ASSUME IInv, Quiet, Damage, UNCHANGED <<clock, memory, lost>>
  PROVE  IInv'
<1>1. UNCHANGED <<issued, live, cli>> /\ \E k \in {"partial", "unreadable"} : file' = [file EXCEPT !.kind = k]
  BY DEF Damage
<1>2. FlightInv /\ FileInv /\ TokenInv /\ lost' \in BOOLEAN /\ cyc' = cyc /\ lost' = lost
  BY DEF IInv, FlightInv, memory
<1>3. file' \in File /\ file'.at = file.at /\ file'.rt = file.rt /\ issued \in Nat
  BY <1>1, <1>2, FileFacts DEF File
<1>4. FileInv' /\ issued' \in Nat /\ issued <= issued'
  BY <1>1, <1>2, <1>3 DEF FileInv, FileTypeOK
<1>5. TokenInv'
  BY <1>1, <1>2, <1>3 DEF TokenInv, Rotating, Static, Reads, Holds, Owes, Kept
<1>6. NativeInv'
  BY <1>2 DEF Quiet, NativeInv
<1>7. MemoryInv'
  BY <1>2, <1>4, MemoryKept
<1>8. FlightInv'
  BY <1>2, <1>3, <1>4, <1>7, FlightParts
<1>9. QED
  BY <1>5, <1>6, <1>8 DEF IInv

(* Every step keeps the invariant.                                          *)
LEMMA NextIInv ==
  ASSUME IInv, [Next]_vars
  PROVE  IInv'
<1>1. CASE Cli
  <2>1. UNCHANGED <<clock, memory>>
    BY <1>1 DEF Cli
  <2>2. QED
    BY <1>1, <2>1, CliGrantIInv, CliWriteIInv, DamageIInv DEF Cli
<1>2. ASSUME NEW c \in Callers, Call(c) \/ Step(c) PROVE IInv'
  BY <1>2, CallIInv, SettleIInv, StartIInv, AnsweredIInv, AnswerLostIInv, RefusedIInv,
     AnsweredSettleIInv, WriteIInv DEF Step, PerformRefresh
<1>3. QED
  BY <1>1, <1>2, ExpireIInv, StillIInv DEF Next

(***************************************************************************)
(* The theorems.                                                           *)
(***************************************************************************)
(* The strengthened invariant holds throughout.                             *)
THEOREM Inductive == Spec => []IInv
<1>1. Init => IInv
  BY InitIInv
<1>2. IInv /\ [Next]_vars => IInv'
  BY NextIInv
<1>3. QED
  BY <1>1, <1>2, PTL DEF Spec

(* Concurrent requests never cost the login of Claude Code: they share one  *)
(* refresh, whatever Claude Code does meanwhile, and what a refresh leaves  *)
(* in the store can be refreshed again unless its answer was lost, its      *)
(* write failed or the store was locked.                                    *)
THEOREM LoginKept == Spec => []RefreshIsSafe
<1>1. IInv => TypeOK /\ SingleFlight
  <2> SUFFICES ASSUME IInv PROVE TypeOK /\ SingleFlight
    OBVIOUS
  <2>1. FlightInv /\ FileInv /\ ClockInv /\ MemoryInv
    BY DEF IInv, FlightInv
  <2>2. {cooldown, lost} \subseteq BOOLEAN
    BY <2>1 DEF FlightInv, MemoryInv
  <2>3. cyc \in [Callers -> [stage : Stage, base : File, attempt : 0 .. 1, tok : 0 .. issued]]
    <3>1. ASSUME NEW o \in Callers PROVE cyc[o] \in [stage : Stage, base : File, attempt : 0 .. 1, tok : 0 .. issued]
      BY CycleFacts DEF Cycle
    <3>2. QED
      BY <2>1, <3>1 DEF MemoryInv
  <2>4. QED
    BY <2>1, <2>2, <2>3 DEF FileInv, ClockInv, MemoryInv, TypeOK
<1>2. IInv => StoredTokenLive
  <2> SUFFICES ASSUME TokenInv, ~lost, cli = 0, \A o \in Callers : cyc[o].stage \notin {"answered", "write"}
               PROVE  file.rt \in live
    BY DEF IInv, StoredTokenLive
  <2>1. CASE Rotates
    BY <2>1 DEF TokenInv, Rotating, Kept, Owes, Holding
  <2>2. CASE ~Rotates
    BY <2>2 DEF TokenInv, Static
  <2>3. QED
    BY <2>1, <2>2
<1>3. QED
  BY <1>1, <1>2, Inductive, PTL DEF RefreshIsSafe

(* If Claude Code does not write between performRefresh()'s last read and   *)
(* its write, a refresh never overwrites an unexpired credential that was   *)
(* stored while it ran.                                                     *)
THEOREM RotationKept == ASSUME ~CliRaces PROVE Spec => NativeRotationKept
<1>1. IInv => \A o \in Callers : cyc[o].stage = "write" => file.at = cyc[o].base.at \/ Expired(file)
  BY DEF IInv, NativeInv
<1>2. IInv /\ [Next]_vars =>
        [\A o \in Callers :
           (cyc[o].stage = "write" /\ file' # file /\ cyc'[o].stage = "off" /\ ~Expired(file))
             => file.at = cyc[o].base.at]_vars
  BY <1>1
<1>3. QED
  BY <1>2, Inductive, PTL DEF Spec, NativeRotationKept
=================================================================================
