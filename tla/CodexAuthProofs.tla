---------------------------- MODULE CodexAuthProofs ----------------------------
(***************************************************************************)
(* The safety properties of CodexAuth for any set of callers and any       *)
(* number of grants.                                                       *)
(***************************************************************************)
EXTENDS CodexAuth, TLAPS

(***************************************************************************)
(* The inductive invariant.  That the owner of the cycle in flight is the  *)
(* only one who runs it, and that everybody who waits waits for him, holds *)
(* the two halves of SingleFlight together.  What TypeOK says of tokens    *)
(* and attempts rests on what each stage of a cycle has established.       *)
(***************************************************************************)
Cycle == [stage : Stage, base : 0 .. MaxTokens, last : 0 .. MaxTokens,
          attempt : 0 .. 1, tok : 0 .. MaxTokens]

(* A cycle that asks has a refresh token, one that was granted has an       *)
(* access token, and one that re-reads the file is on its first attempt.    *)
Sound(r, limit) ==
  /\ r.tok <= limit
  /\ r.stage \in {"call", "reread", "persist", "write"} => r.base \in Tokens
  /\ r.stage \in {"persist", "write"} => r.tok # 0
  /\ r.stage = "reread" => r.attempt = 0

FileInv ==
  /\ FileTypeOK
  /\ file.at <= issued

MemoryInv ==
  /\ cached \in 0 .. issued
  /\ inflight \in Callers \cup {"none"}
  /\ cooldown \in BOOLEAN
  /\ forced \in {"never", "running", "ok", "error"}
  /\ pc \in [Callers -> {"idle", "reading", "loaded", "waiting"}]
  /\ snap \in [Callers -> File]
  /\ \A c \in Callers : snap[c].at <= issued
  /\ joined \in [Callers -> Callers \cup {"none"}]
  /\ cyc \in [Callers -> Cycle]
  /\ \A c \in Callers : Sound(cyc[c], issued)
  /\ SingleFlight
  /\ SuccessIsCached

(* A write finds the refresh token on disk that its cycle has used, unless  *)
(* the file has changed behind the last look at it.                         *)
BaseOnDisk ==
  \A o \in Callers : cyc[o].stage = "write" => file.rt = cyc[o].base \/ overtaken

IInv ==
  /\ FileInv
  /\ MemoryInv
  /\ BaseOnDisk
  /\ expiry \in 0 .. issued
  /\ lost \in BOOLEAN /\ overtaken \in BOOLEAN

LEMMA InitIInv == Init => IInv
<1> SUFFICES ASSUME Init PROVE IInv
  OBVIOUS
<1> USE ServerAssumption
<1>1. 1 \in Tokens
  BY DEF Tokens
<1>2. FileInv
  BY <1>1 DEF Init, FileInit, FileInv, FileTypeOK, File, Tokens
<1>3. NoSnap \in File /\ NoSnap.at = 1
  BY <1>1 DEF NoSnap, File
<1>4. Idle \in Cycle /\ Sound(Idle, issued) /\ Idle.stage = "off"
  BY DEF Init, FileInit, Idle, Cycle, Stage, Sound
<1>5. \A c \in Callers : cyc[c] = Idle /\ snap[c] = NoSnap /\ pc[c] = "idle"
  BY DEF Init
<1>6. SingleFlight
  BY <1>4, <1>5 DEF Init, SingleFlight, Active
<1>7. MemoryInv
  <2>1. /\ cached \in 0 .. issued /\ inflight \in Callers \cup {"none"}
        /\ forced \in {"never", "running", "ok", "error"} /\ SuccessIsCached
    <3>1. cached = 0 /\ issued = 1 /\ inflight = "none" /\ forced = "never"
      BY DEF Init, FileInit
    <3>2. QED
      BY <3>1 DEF SuccessIsCached
  <2>0. cooldown \in BOOLEAN
    BY DEF Init
  <2>2. /\ pc \in [Callers -> {"idle", "reading", "loaded", "waiting"}]
        /\ joined \in [Callers -> Callers \cup {"none"}]
    BY DEF Init
  <2>3. snap \in [Callers -> File] /\ \A c \in Callers : snap[c].at <= issued
    BY <1>3, <1>5 DEF Init, FileInit
  <2>4. cyc \in [Callers -> Cycle] /\ \A c \in Callers : Sound(cyc[c], issued)
    BY <1>4, <1>5 DEF Init
  <2>5. QED
    BY <1>6, <2>0, <2>1, <2>2, <2>3, <2>4 DEF MemoryInv
<1>8. BaseOnDisk
  BY <1>4, <1>5 DEF BaseOnDisk
<1>9. expiry \in 0 .. issued
  <2>1. expiry = 0 /\ issued = 1
    BY DEF Init, FileInit
  <2>2. QED
    BY <2>1
<1>10. lost \in BOOLEAN /\ overtaken \in BOOLEAN
  BY DEF Init
<1>11. QED
  BY <1>2, <1>7, <1>8, <1>9, <1>10 DEF IInv

(***************************************************************************)
(* The three ways in which a step changes the memory of the manager.       *)
(***************************************************************************)
(* The promise settles: nobody runs a cycle, nobody waits.                  *)
LEMMA EndCycleMemory ==
  ASSUME MemoryInv, issued \in Nat, issued' \in Nat, issued <= issued',
         NEW o \in Callers, cyc[o].stage # "off",
         NEW how \in {"ok", "error"}, NEW token \in 0 .. issued', how = "ok" => token # 0,
         EndCycle(o, how, token)
  PROVE  /\ MemoryInv'
         /\ \A c \in Callers : cyc'[c].stage = "off"
<1>1. inflight = o /\ Active = {o}
  BY DEF MemoryInv, SingleFlight, Active
<1>2. cyc' = [cyc EXCEPT ![o] = Idle] /\ Idle \in Cycle /\ Idle.stage = "off" /\ Sound(Idle, issued')
  <2>1. Idle \in Cycle /\ Idle.stage = "off" /\ Sound(Idle, issued')
    BY ServerAssumption DEF Idle, Cycle, Stage, Sound
  <2>2. QED
    BY <2>1 DEF EndCycle
<1>3. cyc' \in [Callers -> Cycle] /\ \A c \in Callers : cyc'[c].stage = "off" /\ Sound(cyc'[c], issued')
  <2>1. ASSUME NEW c \in Callers PROVE cyc'[c].stage = "off" /\ Sound(cyc'[c], issued')
    <3>1. CASE c = o
      BY <1>2, <3>1 DEF MemoryInv
    <3>2. CASE c # o
      <4>1. cyc'[c] = cyc[c] /\ cyc[c].stage = "off" /\ cyc[c] \in Cycle /\ cyc[c].tok <= issued
        BY <1>1, <1>2, <3>2 DEF MemoryInv, Active, Sound
      <4>2. QED
        BY <4>1 DEF Sound, Cycle
    <3>3. QED
      BY <3>1, <3>2
  <2>2. QED
    BY <1>2, <2>1 DEF MemoryInv
<1>4. inflight' = "none" /\ Active' = {}
  BY <1>3 DEF EndCycle, Active
<1>5. \A c \in Callers : pc'[c] # "waiting"
  BY <1>1 DEF EndCycle, MemoryInv, SingleFlight
<1>6. /\ pc' \in [Callers -> {"idle", "reading", "loaded", "waiting"}]
      /\ joined' \in [Callers -> Callers \cup {"none"}]
      /\ forced' \in {"never", "running", "ok", "error"}
      /\ cached' \in 0 .. issued'
  BY DEF EndCycle, MemoryInv
<1>7. UNCHANGED <<cooldown, snap>> /\ \A c \in Callers : snap[c].at <= issued'
  BY DEF EndCycle, MemoryInv, File, Tokens
<1>8. SuccessIsCached'
  BY <1>6, <1>7 DEF EndCycle, MemoryInv, SuccessIsCached
<1>9. SingleFlight'
  BY <1>4, <1>5 DEF SingleFlight
<1>10. QED
  BY <1>3, <1>4, <1>6, <1>7, <1>8, <1>9 DEF MemoryInv

(* The owner goes on with his cycle.                                        *)
LEMMA ProceedMemory ==
  ASSUME MemoryInv, issued \in Nat, issued' \in Nat, issued <= issued',
         NEW o \in Callers, cyc[o].stage # "off",
         NEW r \in Cycle, r.stage # "off", Sound(r, issued'),
         Proceed(o, r)
  PROVE  /\ MemoryInv'
         /\ cyc'[o] = r
         /\ \A c \in Callers \ {o} : cyc'[c].stage = "off"
<1>1. inflight = o /\ Active = {o}
  BY DEF MemoryInv, SingleFlight, Active
<1>2. cyc' = [cyc EXCEPT ![o] = r] /\ UNCHANGED <<cached, inflight, cooldown, forced, pc, snap, joined>>
  BY DEF Proceed, callerVars
<1>3. cyc' \in [Callers -> Cycle] /\ cyc'[o] = r
  BY <1>2 DEF MemoryInv
<1>4. ASSUME NEW c \in Callers \ {o} PROVE cyc'[c] = cyc[c] /\ cyc[c].stage = "off"
  BY <1>1, <1>2 DEF MemoryInv, Active
<1>5. ASSUME NEW c \in Callers PROVE Sound(cyc'[c], issued')
  <2>1. CASE c = o
    BY <1>3, <2>1
  <2>2. CASE c # o
    <3>1. cyc[c].tok <= issued /\ cyc[c] \in Cycle
      BY DEF MemoryInv, Sound
    <3>2. QED
      BY <1>4, <2>2, <3>1 DEF Sound, Cycle
  <2>3. QED
    BY <2>1, <2>2
<1>6. Active' = Active
  BY <1>1, <1>3, <1>4 DEF Active
<1>7. SingleFlight' /\ SuccessIsCached'
  BY <1>2, <1>6 DEF MemoryInv, SingleFlight, SuccessIsCached
<1>8. cached \in 0 .. issued' /\ \A c \in Callers : snap[c].at <= issued'
  BY DEF MemoryInv, File, Tokens
<1>9. QED
  BY <1>2, <1>3, <1>4, <1>5, <1>7, <1>8 DEF MemoryInv

(* A caller awaits the cycle in flight or starts one.                       *)
LEMMA JoinFlight ==
  ASSUME MemoryInv, NEW c \in Callers, Join(c)
  PROVE  /\ SingleFlight'
         /\ inflight' \in Callers \cup {"none"}
         /\ pc' \in [Callers -> {"idle", "reading", "loaded", "waiting"}]
         /\ joined' \in [Callers -> Callers \cup {"none"}]
         /\ cyc' \in [Callers -> Cycle]
         /\ \A o \in Callers : Sound(cyc'[o], issued) /\ (cyc'[o].stage = "write" => cyc'[o] = cyc[o])
<1>1. pc' = [pc EXCEPT ![c] = "waiting"]
  BY DEF Join
<1>2. CASE inflight = "none"
  <2>1. /\ inflight' = c /\ joined' = [joined EXCEPT ![c] = c]
        /\ cyc' = [cyc EXCEPT ![c].stage = "start"]
    BY <1>2 DEF Join
  <2>2. Active = {} /\ \A o \in Callers : cyc[o].stage = "off" /\ pc[o] # "waiting"
    BY <1>2 DEF MemoryInv, SingleFlight, Active
  <2>3. cyc[c] \in Cycle
    BY DEF MemoryInv
  <2>4. cyc'[c] = [cyc[c] EXCEPT !.stage = "start"] /\ \A o \in Callers \ {c} : cyc'[o] = cyc[o]
    BY <2>1 DEF MemoryInv
  <2>5. cyc'[c] \in Cycle /\ cyc'[c].stage = "start" /\ cyc'[c].tok = cyc[c].tok
    BY <2>3, <2>4 DEF Cycle, Stage
  <2>6. cyc' \in [Callers -> Cycle]
    BY <2>1, <2>3, <2>4, <2>5 DEF MemoryInv
  <2>7. Active' = {c}
    <3>1. \A o \in Callers : cyc'[o].stage # "off" <=> o = c
      BY <2>2, <2>4, <2>5
    <3>2. QED
      BY <3>1 DEF Active
  <2>8. SingleFlight'
    BY <1>1, <2>1, <2>2, <2>7, CallersAssumption DEF MemoryInv, SingleFlight
  <2>9. ASSUME NEW o \in Callers
        PROVE  Sound(cyc'[o], issued) /\ (cyc'[o].stage = "write" => cyc'[o] = cyc[o])
    <3>1. CASE o = c
      BY <2>5, <3>1 DEF MemoryInv, Sound
    <3>2. CASE o # c
      BY <2>4, <3>2 DEF MemoryInv
    <3>3. QED
      BY <3>1, <3>2
  <2>10. QED
    BY <1>1, <2>1, <2>6, <2>8, <2>9 DEF MemoryInv
<1>3. CASE inflight # "none"
  <2>1. joined' = [joined EXCEPT ![c] = inflight] /\ UNCHANGED <<inflight, cyc>>
    BY <1>3 DEF Join
  <2>2. Active' = Active /\ inflight \in Active
    BY <1>3, <2>1 DEF MemoryInv, SingleFlight, Active
  <2>3. SingleFlight'
    BY <1>1, <1>3, <2>1, <2>2 DEF MemoryInv, SingleFlight
  <2>4. QED
    BY <1>1, <2>1, <2>3 DEF MemoryInv
<1>4. QED
  BY <1>2, <1>3

(***************************************************************************)
(* The steps.                                                              *)
(***************************************************************************)
LEMMA FileFacts ==
  ASSUME FileInv
  PROVE  issued \in Nat /\ issued \in Tokens /\ file.at \in Tokens /\ file.rt \in Tokens /\ file.last \in Tokens
BY ServerAssumption DEF FileInv, FileTypeOK, File, Tokens

LEMMA EndCycleIInv ==
  ASSUME IInv, FileInv', issued <= issued', expiry' = expiry, lost' \in BOOLEAN /\ overtaken' \in BOOLEAN,
         NEW o \in Callers, cyc[o].stage # "off",
         NEW how \in {"ok", "error"}, NEW token \in 0 .. issued', how = "ok" => token # 0,
         EndCycle(o, how, token)
  PROVE  IInv'
<1>1. issued \in Nat /\ issued' \in Nat
  BY FileFacts, ServerAssumption DEF IInv, FileInv, FileTypeOK, Tokens
<1>2. MemoryInv' /\ \A c \in Callers : cyc'[c].stage = "off"
  BY <1>1, EndCycleMemory DEF IInv
<1>3. BaseOnDisk'
  BY <1>2 DEF BaseOnDisk
<1>4. expiry' \in 0 .. issued'
  BY <1>1 DEF IInv
<1>5. QED
  BY <1>2, <1>3, <1>4 DEF IInv

LEMMA ProceedIInv ==
  ASSUME IInv, FileInv', issued <= issued', UNCHANGED <<file, expiry, lost, overtaken>>,
         NEW o \in Callers, cyc[o].stage # "off",
         NEW r \in Cycle, r.stage # "off", Sound(r, issued'), Proceed(o, r),
         r.stage = "write" => file.rt = r.base
  PROVE  IInv'
<1>1. issued \in Nat /\ issued' \in Nat
  BY FileFacts, ServerAssumption DEF IInv, FileInv, FileTypeOK, Tokens
<1>2. MemoryInv' /\ cyc'[o] = r /\ \A c \in Callers \ {o} : cyc'[c].stage = "off"
  BY <1>1, ProceedMemory DEF IInv
<1>3. BaseOnDisk'
  BY <1>2 DEF BaseOnDisk
<1>4. expiry' \in 0 .. issued' /\ lost' \in BOOLEAN /\ overtaken' \in BOOLEAN
  <2>1. expiry' \in 0 .. issued'
    BY <1>1 DEF IInv
  <2>2. lost' \in BOOLEAN /\ overtaken' \in BOOLEAN
    BY DEF IInv
  <2>3. QED
    BY <2>1, <2>2
<1>5. QED
  BY <1>2, <1>3, <1>4 DEF IInv

LEMMA GrantFacts ==
  ASSUME FileInv, NEW r, Grant(r), UNCHANGED <<file, cli>>
  PROVE  FileInv' /\ issued' = issued + 1 /\ issued < MaxTokens /\ issued' \in Tokens
<1>1. issued \in Nat /\ issued' = issued + 1 /\ issued < MaxTokens /\ issued' \in Tokens
  BY FileFacts, ServerAssumption DEF Grant, Tokens
<1>2. live' \subseteq 1 .. issued'
  <2>1. live \subseteq 1 .. issued /\ live' \subseteq live \cup {issued'}
    BY DEF Grant, FileInv, FileTypeOK
  <2>2. ASSUME NEW x \in live' PROVE x \in 1 .. issued'
    <3>1. x \in 1 .. issued \/ x = issued'
      BY <2>1, <2>2
    <3>2. QED
      BY <1>1, <3>1 DEF Tokens
  <2>3. QED
    BY <2>2
<1>3. cli' \in 0 .. issued' /\ file'.at <= issued'
  BY <1>1, FileFacts DEF FileInv, FileTypeOK, Tokens
<1>4. QED
  BY <1>1, <1>2, <1>3 DEF FileInv, FileTypeOK

(* What a cycle holds that is under way.                                    *)
LEMMA CycleFacts ==
  ASSUME IInv, NEW o \in Callers
  PROVE  /\ cyc[o] \in Cycle
         /\ Sound(cyc[o], issued)
         /\ cyc[o].tok \in 0 .. issued
BY FileFacts DEF IInv, MemoryInv, Cycle, Sound

LEMMA RefreshIInv ==
  ASSUME IInv, NEW o \in Callers, Refresh(o)
  PROVE  IInv'
<1>0. issued \in Nat /\ MaxTokens \in Nat /\ issued <= MaxTokens /\ FileInv
  BY FileFacts, ServerAssumption DEF IInv, Tokens
<1>1. cyc[o] \in Cycle /\ Sound(cyc[o], issued) /\ cyc[o].tok \in 0 .. issued
  BY CycleFacts
<1>2. ASSUME UNCHANGED fileVars PROVE FileInv' /\ issued' = issued /\ file' = file
  BY <1>0, <1>2 DEF fileVars, FileInv, FileTypeOK
<1>3. ASSUME UNCHANGED fileVars, UNCHANGED <<expiry, lost, overtaken>>, cyc[o].stage # "off", Fails(o) PROVE IInv'
  <2>1. lost' \in BOOLEAN /\ overtaken' \in BOOLEAN
    BY <1>3 DEF IInv
  <2>2. QED
    BY <1>0, <1>2, <1>3, <2>1, EndCycleIInv DEF Fails
<1>4. CASE InitialRead(o)
  <2>1. CASE Readable(file)
    <3> DEFINE r == [cyc[o] EXCEPT !.stage = "call", !.base = file.rt, !.last = file.last]
    <3>1. Proceed(o, r) /\ UNCHANGED <<fileVars, expiry, lost, overtaken>> /\ cyc[o].stage # "off"
      BY <1>4, <2>1 DEF InitialRead
    <3>2. file.rt \in Tokens /\ file.last \in Tokens /\ Tokens \subseteq 0 .. MaxTokens
      BY <1>0, FileFacts DEF Tokens
    <3>3. r \in Cycle /\ r.stage = "call" /\ r.base = file.rt /\ r.tok = cyc[o].tok
      BY <1>1, <3>2 DEF Cycle, Stage
    <3> HIDE DEF r
    <3>4. Sound(r, issued)
      BY <1>1, <3>2, <3>3 DEF Sound
    <3>5. QED
      BY <1>0, <1>2, <3>1, <3>3, <3>4, ProceedIInv
  <2>2. CASE ~Readable(file)
    BY <1>3, <1>4, <2>2 DEF InitialRead
  <2>3. QED
    BY <2>1, <2>2
<1>5. CASE Granted(o)
  <2> DEFINE r == [cyc[o] EXCEPT !.stage = "persist", !.tok = issued']
  <2>1. /\ Proceed(o, r) /\ cyc[o].stage = "call" /\ Grant(cyc[o].base)
        /\ UNCHANGED <<file, cli, expiry, lost, overtaken>>
    BY <1>5 DEF Granted
  <2>2. FileInv' /\ issued' = issued + 1 /\ issued' \in Tokens
    BY <1>0, <2>1, GrantFacts
  <2>6. issued' \in 0 .. MaxTokens /\ issued' # 0 /\ issued' <= issued'
    BY <1>0, <2>2 DEF Tokens
  <2>7. r \in Cycle /\ r.stage = "persist" /\ r.base = cyc[o].base /\ r.tok = issued'
    BY <1>1, <2>6 DEF Cycle, Stage
  <2> HIDE DEF r
  <2>3. Sound(r, issued')
    BY <1>1, <2>1, <2>6, <2>7 DEF Sound
  <2>4. issued <= issued' /\ cyc[o].stage # "off"
    BY <1>0, <2>1, <2>2
  <2>5. QED
    BY <2>1, <2>2, <2>3, <2>4, <2>7, ProceedIInv
<1>6. CASE GrantLost(o)
  <2>1. /\ EndCycle(o, "error", 0) /\ cyc[o].stage = "call" /\ Grant(cyc[o].base)
        /\ UNCHANGED <<file, cli, expiry, overtaken>> /\ lost' \in BOOLEAN /\ overtaken' \in BOOLEAN
    BY <1>6 DEF GrantLost, Fails, IInv
  <2>2. FileInv' /\ issued <= issued' /\ 0 \in 0 .. issued'
    BY <1>0, <2>1, GrantFacts DEF Tokens
  <2>3. QED
    BY <2>1, <2>2, EndCycleIInv
<1>7. CASE Unreachable(o)
  BY <1>3, <1>7 DEF Unreachable
<1>8. CASE InvalidGrant(o)
  <2>1. CASE cyc[o].attempt = 0
    <3> DEFINE r == [cyc[o] EXCEPT !.stage = "reread"]
    <3>1. Proceed(o, r) /\ UNCHANGED <<fileVars, expiry, lost, overtaken>> /\ cyc[o].stage = "call"
      BY <1>8, <2>1 DEF InvalidGrant
    <3>2. r \in Cycle /\ r.stage = "reread" /\ Sound(r, issued)
      BY <1>0, <1>1, <2>1, <3>1 DEF Cycle, Stage, Sound
    <3> HIDE DEF r
    <3>3. QED
      BY <1>0, <1>2, <3>1, <3>2, ProceedIInv
  <2>2. CASE cyc[o].attempt # 0
    BY <1>3, <1>8, <2>2 DEF InvalidGrant
  <2>3. QED
    BY <2>1, <2>2
<1>9. CASE Reread(o)
  <2>1. CASE Readable(file) /\ file.rt # cyc[o].base
    <3> DEFINE r == [cyc[o] EXCEPT !.stage = "call", !.base = file.rt, !.last = file.last, !.attempt = @ + 1]
    <3>1. Proceed(o, r) /\ UNCHANGED <<fileVars, expiry, lost, overtaken>> /\ cyc[o].stage = "reread"
      BY <1>9, <2>1 DEF Reread
    <3>2. file.rt \in Tokens /\ file.last \in Tokens /\ Tokens \subseteq 0 .. MaxTokens
          /\ cyc[o].attempt = 0 /\ cyc[o].attempt + 1 \in 0 .. 1
      <4>1. file.rt \in Tokens /\ file.last \in Tokens /\ Tokens \subseteq 0 .. MaxTokens
        BY <1>0, FileFacts DEF Tokens
      <4>2. cyc[o].attempt = 0
        BY <1>1, <3>1 DEF Sound
      <4>3. QED
        BY <4>1, <4>2
    <3>3. r \in Cycle /\ r.stage = "call" /\ r.base = file.rt /\ r.tok = cyc[o].tok
      BY <1>1, <3>2 DEF Cycle, Stage
    <3> HIDE DEF r
    <3>4. Sound(r, issued)
      BY <1>1, <3>2, <3>3 DEF Sound
    <3>5. QED
      BY <1>0, <1>2, <3>1, <3>3, <3>4, ProceedIInv
  <2>2. CASE ~(Readable(file) /\ file.rt # cyc[o].base)
    BY <1>3, <1>9, <2>2 DEF Reread
  <2>3. QED
    BY <2>1, <2>2
<1>10. ASSUME UNCHANGED <<fileVars, expiry, overtaken>>, cyc[o].stage = "persist",
              NEW claims \in BOOLEAN, FromMemory(o, claims)
       PROVE  IInv'
  <2>0. lost' \in BOOLEAN /\ overtaken' \in BOOLEAN
    BY <1>10 DEF FromMemory, IInv
  <2>1. EndCycle(o, "ok", cyc[o].tok) \/ EndCycle(o, "error", 0)
    BY <1>10 DEF FromMemory, Fails
  <2>2. /\ cyc[o].tok # 0 /\ cyc[o].stage # "off" /\ FileInv' /\ expiry' = expiry
        /\ issued <= issued' /\ cyc[o].tok \in 0 .. issued' /\ 0 \in 0 .. issued'
    <3>1. FileInv' /\ issued' = issued /\ expiry' = expiry
      BY <1>2, <1>10
    <3>2. cyc[o].tok # 0 /\ cyc[o].stage # "off"
      BY <1>1, <1>10 DEF Sound
    <3>3. issued <= issued' /\ cyc[o].tok \in 0 .. issued' /\ 0 \in 0 .. issued'
      BY <1>0, <1>1, <3>1
    <3>4. QED
      BY <3>1, <3>2, <3>3
  <2>3. CASE EndCycle(o, "ok", cyc[o].tok)
    BY <2>0, <2>2, <2>3, EndCycleIInv
  <2>4. CASE EndCycle(o, "error", 0)
    BY <2>0, <2>2, <2>4, EndCycleIInv
  <2>5. QED
    BY <2>1, <2>3, <2>4
<1>11. CASE PersistUnreadable(o)
  BY <1>10, <1>11 DEF PersistUnreadable
<1>12. CASE PersistNewer(o)
  <2>1. CASE file.kind = "good"
    <3>1. EndCycle(o, "ok", file.at) /\ UNCHANGED <<fileVars, expiry, lost, overtaken>> /\ cyc[o].stage # "off"
      BY <1>12, <2>1 DEF PersistNewer
    <3>2. file.at \in 0 .. issued /\ file.at # 0
      BY <1>0, FileFacts DEF FileInv, Tokens
    <3>3. lost' \in BOOLEAN /\ overtaken' \in BOOLEAN
      BY <3>1 DEF IInv
    <3>4. QED
      BY <1>0, <1>2, <3>1, <3>2, <3>3, EndCycleIInv
  <2>2. CASE file.kind # "good"
    BY <1>10, <1>12, <2>2 DEF PersistNewer
  <2>3. QED
    BY <2>1, <2>2
<1>13. CASE PersistMerge(o)
  <2> DEFINE r == [cyc[o] EXCEPT !.stage = "write"]
  <2>1. /\ Proceed(o, r) /\ UNCHANGED <<fileVars, expiry, lost, overtaken>>
        /\ cyc[o].stage = "persist" /\ file.rt = cyc[o].base
    BY <1>13 DEF PersistMerge, FileIsNewer
  <2>2. r \in Cycle /\ r.stage = "write" /\ Sound(r, issued) /\ r.base = cyc[o].base
    BY <1>0, <1>1, <2>1 DEF Cycle, Stage, Sound
  <2> HIDE DEF r
  <2>3. QED
    BY <1>0, <1>2, <2>1, <2>2, ProceedIInv
<1>14. CASE Write(o)
  <2>1. PICK claims \in BOOLEAN, written \in BOOLEAN :
          /\ file' = IF written
                     THEN [kind |-> IF claims THEN "good" ELSE "partial", at |-> cyc[o].tok,
                           rt |-> IF Rotates THEN cyc[o].tok ELSE cyc[o].base, last |-> issued]
                     ELSE file
          /\ lost' = (lost \/ (Rotates /\ ~written))
          /\ IF claims THEN EndCycle(o, "ok", cyc[o].tok) ELSE Fails(o)
    BY <1>14 DEF Write
  <2>2. UNCHANGED <<issued, live, cli, expiry>> /\ cyc[o].stage = "write"
    BY <1>14 DEF Write
  <2>3. cyc[o].tok \in Tokens /\ cyc[o].base \in Tokens /\ issued \in Tokens
    BY <1>0, <1>1, <2>2, FileFacts DEF Sound, Tokens
  <2>4. file' \in File /\ file'.at <= issued
    <3>1. CASE written
      BY <1>0, <1>1, <2>1, <2>3, <3>1 DEF File
    <3>2. CASE ~written
      BY <1>0, <2>1, <3>2 DEF FileInv, FileTypeOK
    <3>3. QED
      BY <3>1, <3>2
  <2>5. FileInv' /\ issued' = issued
    BY <1>0, <2>2, <2>4 DEF FileInv, FileTypeOK
  <2>6. lost' \in BOOLEAN /\ overtaken' \in BOOLEAN
    BY <1>14, <2>1 DEF Write
  <2>7. CASE EndCycle(o, "ok", cyc[o].tok)
    <3>1. cyc[o].tok # 0 /\ issued <= issued' /\ cyc[o].tok \in 0 .. issued'
      BY <1>0, <1>1, <2>3, <2>5 DEF Tokens
    <3>2. QED
      BY <2>2, <2>5, <2>6, <2>7, <3>1, EndCycleIInv
  <2>8. CASE EndCycle(o, "error", 0)
    <3>1. issued <= issued' /\ 0 \in 0 .. issued'
      BY <1>0, <2>5
    <3>2. QED
      BY <2>2, <2>5, <2>6, <2>8, <3>1, EndCycleIInv
  <2>9. QED
    BY <2>1, <2>7, <2>8 DEF Fails
<1>15. QED
  BY <1>4, <1>5, <1>6, <1>7, <1>8, <1>9, <1>11, <1>12, <1>13, <1>14 DEF Refresh

(* A caller reads the file, decides, or asks for a forced refresh.          *)
LEMMA CallerIInv ==
  ASSUME IInv, NEW c \in Callers,
         GetFromFile(c) \/ ServeCooldown(c) \/ ForceRefresh(c) \/ LoadRead(c) \/ LoadSettle(c)
  PROVE  IInv'
<1>0. issued \in Nat /\ FileInv /\ MemoryInv /\ file \in File /\ file.at <= issued
  BY FileFacts DEF IInv, FileInv, FileTypeOK
<1>1. NoSnap \in File /\ NoSnap.at <= issued
  BY <1>0, FileFacts, ServerAssumption DEF NoSnap, File, Tokens
<1>2. UNCHANGED <<fileVars, expiry, lost, overtaken>>
  BY DEF GetFromFile, ServeCooldown, ForceRefresh, LoadRead, LoadSettle, vars
<1>3. FileInv' /\ issued' = issued /\ file' = file
  BY <1>0, <1>2 DEF fileVars, FileInv, FileTypeOK
<1>4. expiry' \in 0 .. issued'
  BY <1>2, <1>3 DEF IInv
<1>5. lost' \in BOOLEAN /\ overtaken' \in BOOLEAN
  BY <1>2 DEF IInv
<1>6. ASSUME UNCHANGED cyc PROVE BaseOnDisk'
  BY <1>2, <1>3, <1>6 DEF IInv, BaseOnDisk
<1>7. ASSUME NEW s \in File, s.at <= issued, snap' = [snap EXCEPT ![c] = s]
      PROVE  snap' \in [Callers -> File] /\ \A d \in Callers : snap'[d].at <= issued'
  BY <1>0, <1>3, <1>7 DEF MemoryInv
<1>8. ASSUME MemoryInv', BaseOnDisk' PROVE IInv'
  BY <1>3, <1>4, <1>5, <1>8 DEF IInv
<1>9. CASE GetFromFile(c)
  <2>1. pc' = [pc EXCEPT ![c] = "reading"]
        /\ UNCHANGED <<cached, inflight, cooldown, forced, snap, joined, cyc>>
    BY <1>9 DEF GetFromFile
  <2>2. SingleFlight' /\ SuccessIsCached'
    BY <1>0, <2>1 DEF MemoryInv, SingleFlight, Active, SuccessIsCached
  <2>3. MemoryInv'
    BY <1>0, <1>3, <2>1, <2>2 DEF MemoryInv
  <2>4. QED
    BY <1>6, <1>8, <2>1, <2>3
<1>10. CASE LoadRead(c)
  <2>1. pc' = [pc EXCEPT ![c] = "loaded"] /\ snap' = [snap EXCEPT ![c] = file]
        /\ UNCHANGED <<cached, inflight, cooldown, forced, joined, cyc>>
    BY <1>10 DEF LoadRead
  <2>2. SingleFlight' /\ SuccessIsCached'
    BY <1>0, <2>1 DEF MemoryInv, SingleFlight, Active, SuccessIsCached
  <2>3. snap' \in [Callers -> File] /\ \A d \in Callers : snap'[d].at <= issued'
    BY <1>0, <1>7, <2>1
  <2>4. MemoryInv'
    BY <1>0, <1>3, <2>1, <2>2, <2>3 DEF MemoryInv
  <2>5. QED
    BY <1>6, <1>8, <2>1, <2>4
<1>11. CASE ServeCooldown(c)
  <2>1. UNCHANGED vars
    BY <1>11 DEF ServeCooldown
  <2>2. UNCHANGED <<memory, fileVars>>
    BY <2>1 DEF vars
  <2>3. SingleFlight' /\ SuccessIsCached'
    BY <1>0, <2>2 DEF memory, callerVars, MemoryInv, SingleFlight, Active, SuccessIsCached
  <2>4. MemoryInv'
    BY <1>0, <1>3, <2>2, <2>3 DEF memory, callerVars, MemoryInv
  <2>5. cyc' = cyc
    BY <2>2 DEF memory
  <2>6. QED
    BY <1>6, <1>8, <2>4, <2>5
<1>12. ASSUME Join(c) PROVE BaseOnDisk' /\ \A o \in Callers : Sound(cyc'[o], issued')
  <2>1. \A o \in Callers : Sound(cyc'[o], issued) /\ (cyc'[o].stage = "write" => cyc'[o] = cyc[o])
    BY <1>0, <1>12, JoinFlight
  <2>2. BaseOnDisk'
    BY <1>2, <1>3, <2>1 DEF IInv, BaseOnDisk
  <2>3. QED
    BY <1>3, <2>1, <2>2
<1>13. CASE ForceRefresh(c)
  <2>1. cooldown' = TRUE /\ cached' = 0 /\ forced' = "running" /\ Join(c) /\ UNCHANGED snap
    BY <1>13 DEF ForceRefresh
  <2>2. /\ SingleFlight' /\ inflight' \in Callers \cup {"none"}
        /\ pc' \in [Callers -> {"idle", "reading", "loaded", "waiting"}]
        /\ joined' \in [Callers -> Callers \cup {"none"}]
        /\ cyc' \in [Callers -> Cycle]
    BY <1>0, <2>1, JoinFlight
  <2>3. SuccessIsCached' /\ forced' \in {"never", "running", "ok", "error"}
    BY <2>1 DEF SuccessIsCached
  <2>4. cached' \in 0 .. issued'
    BY <1>0, <1>3, <2>1
  <2>5. cooldown' \in BOOLEAN
    BY <2>1
  <2>6. snap' \in [Callers -> File] /\ \A d \in Callers : snap'[d].at <= issued'
    BY <1>0, <1>3, <2>1 DEF MemoryInv
  <2>7. MemoryInv'
    BY <1>12, <2>1, <2>2, <2>3, <2>4, <2>5, <2>6 DEF MemoryInv
  <2>8. QED
    BY <1>8, <1>12, <2>1, <2>7
<1>14. CASE LoadSettle(c)
  <2>1. snap' = [snap EXCEPT ![c] = NoSnap] /\ UNCHANGED <<cooldown, forced>>
    BY <1>14 DEF LoadSettle
  <2>2. snap' \in [Callers -> File] /\ \A d \in Callers : snap'[d].at <= issued'
    BY <1>1, <1>7, <2>1
  <2>3. CASE Join(c) /\ UNCHANGED cached
    <3>1. /\ SingleFlight' /\ inflight' \in Callers \cup {"none"}
          /\ pc' \in [Callers -> {"idle", "reading", "loaded", "waiting"}]
          /\ joined' \in [Callers -> Callers \cup {"none"}]
          /\ cyc' \in [Callers -> Cycle]
      BY <1>0, <2>3, JoinFlight
    <3>2. SuccessIsCached'
      BY <1>0, <2>1, <2>3 DEF MemoryInv, SuccessIsCached
    <3>3. MemoryInv'
      BY <1>0, <1>3, <1>12, <2>1, <2>2, <2>3, <3>1, <3>2 DEF MemoryInv
    <3>4. QED
      BY <1>8, <1>12, <2>3, <3>3
  <2>4. CASE /\ Returns(c) /\ UNCHANGED <<inflight, joined, cyc>>
             /\ cached' = cached \/ cached' = snap[c].at
    <3>1. pc' = [pc EXCEPT ![c] = "idle"]
      BY <2>4 DEF Returns
    <3>2. snap[c].at \in 0 .. issued /\ snap[c].at # 0
      <4>1. snap[c].at \in Tokens /\ snap[c].at <= issued
        BY <1>0 DEF MemoryInv, File
      <4>2. QED
        BY <1>0, <4>1, ServerAssumption DEF Tokens
    <3>3. cached' \in 0 .. issued'
      BY <1>0, <1>3, <2>4, <3>2 DEF MemoryInv
    <3>4. SingleFlight'
      BY <1>0, <2>4, <3>1 DEF MemoryInv, SingleFlight, Active
    <3>5. SuccessIsCached'
      BY <1>0, <2>1, <2>4, <3>2 DEF MemoryInv, SuccessIsCached
    <3>6. MemoryInv'
      BY <1>0, <1>3, <2>1, <2>2, <2>4, <3>1, <3>3, <3>4, <3>5 DEF MemoryInv
    <3>7. QED
      BY <1>6, <1>8, <2>4, <3>6
  <2>5. QED
    BY <1>14, <2>3, <2>4 DEF LoadSettle
<1>15. QED
  BY <1>9, <1>10, <1>11, <1>13, <1>14

(* The memory of the manager does not depend on what happens to the file.   *)
LEMMA MemoryKept ==
  ASSUME IInv, issued' \in Nat, issued <= issued', UNCHANGED <<expiry, memory>>
  PROVE  MemoryInv' /\ expiry' \in 0 .. issued'
<1>0. issued \in Nat /\ MemoryInv
  BY FileFacts DEF IInv
<1>1. UNCHANGED <<cached, inflight, cooldown, forced, pc, snap, joined, cyc>>
  BY DEF memory, callerVars
<1>2. \A c \in Callers : snap'[c].at <= issued'
  <2>1. ASSUME NEW c \in Callers PROVE snap[c].at <= issued'
    <3>1. snap[c].at \in Nat /\ snap[c].at <= issued
      BY <1>0, ServerAssumption DEF MemoryInv, File, Tokens
    <3>2. QED
      BY <1>0, <3>1
  <2>2. QED
    BY <1>1, <2>1
<1>3. \A c \in Callers : Sound(cyc'[c], issued')
  <2>1. ASSUME NEW c \in Callers PROVE Sound(cyc[c], issued')
    <3>1. cyc[c].tok \in Nat /\ Sound(cyc[c], issued)
      BY <1>0, CycleFacts
    <3>2. QED
      BY <1>0, <3>1 DEF Sound
  <2>2. QED
    BY <1>1, <2>1
<1>4. SingleFlight' /\ SuccessIsCached'
  BY <1>0, <1>1 DEF MemoryInv, SingleFlight, Active, SuccessIsCached
<1>5. cached' \in 0 .. issued' /\ expiry' \in 0 .. issued'
  BY <1>0, <1>1 DEF IInv, MemoryInv
<1>6. QED
  BY <1>0, <1>1, <1>2, <1>3, <1>4, <1>5 DEF MemoryInv

(* The CLI refreshes, logs in and writes the file, or the file is damaged.  *)
LEMMA CliIInv ==
  ASSUME IInv, Cli
  PROVE  IInv'
<1>0. /\ issued \in Nat /\ MaxTokens \in Nat /\ issued \in Tokens /\ FileInv
      /\ file \in File /\ file.at <= issued /\ live \subseteq 1 .. issued /\ cli \in 0 .. issued
  BY FileFacts, ServerAssumption DEF IInv, FileInv, FileTypeOK
<1>1. UNCHANGED <<expiry, memory>>
  BY DEF Cli
<1>2. cyc' = cyc
  BY <1>1 DEF memory
<1>3. ASSUME FileInv', issued <= issued', lost' \in BOOLEAN /\ overtaken' \in BOOLEAN, 
             file' # file /\ (\E o \in Callers : cyc[o].stage = "write") => overtaken',
             overtaken => overtaken'
      PROVE  IInv'
  <2>1. issued' \in Nat
    BY <1>3, ServerAssumption DEF FileInv, FileTypeOK, Tokens
  <2>2. MemoryInv' /\ expiry' \in 0 .. issued'
    BY <1>1, <1>3, <2>1, MemoryKept
  <2>3. BaseOnDisk'
    <3>1. CASE file' = file
      BY <1>2, <1>3, <3>1 DEF IInv, BaseOnDisk
    <3>2. CASE file' # file
      BY <1>2, <1>3, <3>2 DEF BaseOnDisk
    <3>3. QED
      BY <3>1, <3>2
  <2>4. QED
    BY <1>3, <2>2, <2>3 DEF IInv
<1>9. /\ file' # file /\ (\E o \in Callers : cyc[o].stage = "write") => overtaken'
      /\ overtaken => overtaken'
      /\ overtaken' \in BOOLEAN
  BY DEF Cli, IInv
<1>4. ASSUME CliRefresh \/ CliLogin, UNCHANGED lost PROVE IInv'
  <2>1. issued < MaxTokens /\ issued' = issued + 1 /\ cli' = issued' /\ file' = file
        /\ live' \subseteq live \cup {issued'}
    BY <1>4 DEF CliRefresh, CliLogin, Grant
  <2>2. issued' \in Nat /\ issued' \in Tokens /\ issued <= issued' /\ file'.at <= issued' /\ cli' \in 0 .. issued'
    <3>1. file.at \in Nat
      BY <1>0 DEF File, Tokens
    <3>2. QED
      BY <1>0, <2>1, <3>1 DEF Tokens
  <2>3. live' \subseteq 1 .. issued'
    <3>1. ASSUME NEW x \in live' PROVE x \in 1 .. issued'
      <4>1. x \in 1 .. issued \/ x = issued'
        BY <1>0, <2>1, <3>1
      <4>2. QED
        BY <1>0, <2>1, <2>2, <4>1
    <3>2. QED
      BY <3>1
  <2>4. FileInv'
    BY <1>0, <2>1, <2>2, <2>3 DEF FileInv, FileTypeOK
  <2>5. lost' \in BOOLEAN /\ overtaken' \in BOOLEAN
    BY <1>4, <1>9 DEF IInv
  <2>6. QED
    BY <1>3, <1>9, <2>1, <2>2, <2>4, <2>5
<1>5. ASSUME CliWrite, lost' \in BOOLEAN PROVE IInv'
  <2>1. /\ cli # 0 /\ cli' = 0 /\ UNCHANGED <<issued, live>>
        /\ file' = [kind |-> "good", at |-> cli, last |-> cli, rt |-> IF cli \in live THEN cli ELSE file.rt]
    BY <1>5 DEF CliWrite
  <2>2. cli \in Tokens /\ cli <= issued
    BY <1>0, <2>1 DEF Tokens
  <2>3. file' \in File /\ file'.at <= issued
    BY <1>0, <2>1, <2>2 DEF File
  <2>4. FileInv' /\ issued <= issued'
    BY <1>0, <2>1, <2>3 DEF FileInv, FileTypeOK
  <2>5. QED
    BY <1>3, <1>5, <1>9, <2>4
<1>6. ASSUME Damage, UNCHANGED lost PROVE IInv'
  <2>1. /\ UNCHANGED <<issued, live, cli>>
        /\ \E k \in {"partial", "unreadable"} : file' = [file EXCEPT !.kind = k]
    BY <1>6 DEF Damage
  <2>2. file' \in File /\ file'.at = file.at
    BY <1>0, <2>1 DEF File
  <2>3. FileInv' /\ issued <= issued'
    BY <1>0, <2>1, <2>2 DEF FileInv, FileTypeOK
  <2>4. lost' \in BOOLEAN /\ overtaken' \in BOOLEAN
    BY <1>6, <1>9 DEF IInv
  <2>5. QED
    BY <1>3, <1>6, <1>9, <2>3, <2>4
<1>7. lost' = (lost /\ file'.rt \notin live) => lost' \in BOOLEAN
  OBVIOUS
<1>8. QED
  BY <1>4, <1>5, <1>6, <1>7 DEF Cli

(* After a restart nobody runs a cycle and nobody waits.                    *)
LEMMA RestartIInv ==
  ASSUME IInv, Restart
  PROVE  IInv'
<1>0. issued \in Nat /\ FileInv
  BY FileFacts DEF IInv
<1>1. FileInv' /\ issued' = issued /\ expiry' = expiry
  BY <1>0 DEF Restart, fileVars, FileInv, FileTypeOK
<1>2. NoSnap \in File /\ NoSnap.at <= issued'
  BY <1>0, <1>1, FileFacts, ServerAssumption DEF NoSnap, File, Tokens
<1>3. Idle \in Cycle /\ Idle.stage = "off" /\ Sound(Idle, issued')
  BY <1>0, <1>1, ServerAssumption DEF Idle, Cycle, Stage, Sound
<1>4. \A c \in Callers : cyc'[c] = Idle /\ snap'[c] = NoSnap /\ pc'[c] = "idle"
  BY DEF Restart
<1>5. SingleFlight' /\ SuccessIsCached'
  BY <1>3, <1>4 DEF Restart, SingleFlight, Active, SuccessIsCached
<1>6. cached' \in 0 .. issued' /\ inflight' \in Callers \cup {"none"}
      /\ forced' \in {"never", "running", "ok", "error"}
  BY <1>0, <1>1 DEF Restart
<1>7. cooldown' \in BOOLEAN /\ lost' \in BOOLEAN /\ overtaken' \in BOOLEAN
  BY DEF Restart
<1>8. /\ pc' \in [Callers -> {"idle", "reading", "loaded", "waiting"}]
      /\ joined' \in [Callers -> Callers \cup {"none"}]
      /\ snap' \in [Callers -> File] /\ \A c \in Callers : snap'[c].at <= issued'
      /\ cyc' \in [Callers -> Cycle] /\ \A c \in Callers : Sound(cyc'[c], issued')
  BY <1>2, <1>3, <1>4 DEF Restart
<1>9. MemoryInv'
  BY <1>5, <1>6, <1>7, <1>8 DEF MemoryInv
<1>10. BaseOnDisk'
  BY <1>3, <1>4 DEF BaseOnDisk
<1>11. expiry' \in 0 .. issued'
  BY <1>1 DEF IInv
<1>12. QED
  BY <1>1, <1>7, <1>9, <1>10, <1>11 DEF IInv

(* Every step keeps the invariant.                                          *)
LEMMA NextIInv ==
  ASSUME IInv, [Next]_vars
  PROVE  IInv'
<1>0. issued \in Nat /\ FileInv /\ MemoryInv
  BY FileFacts DEF IInv
<1>1. ASSUME NEW t \in Tokens, Expire(t) PROVE IInv'
  <2>1. UNCHANGED <<fileVars, memory, lost, overtaken>> /\ expiry' = t /\ t <= issued
    BY <1>1 DEF Expire
  <2>2. FileInv' /\ issued' = issued /\ file' = file
    BY <1>0, <2>1 DEF fileVars, FileInv, FileTypeOK
  <2>3. UNCHANGED <<cached, inflight, cooldown, forced, pc, snap, joined, cyc>>
    BY <2>1 DEF memory, callerVars
  <2>4. SingleFlight' /\ SuccessIsCached'
    BY <1>0, <2>3 DEF MemoryInv, SingleFlight, Active, SuccessIsCached
  <2>5. MemoryInv'
    BY <1>0, <2>2, <2>3, <2>4 DEF MemoryInv
  <2>6. BaseOnDisk'
    BY <2>1, <2>2, <2>3 DEF IInv, BaseOnDisk
  <2>7. expiry' \in 0 .. issued'
    BY <1>0, <2>1, <2>2, ServerAssumption DEF Tokens
  <2>8. lost' \in BOOLEAN /\ overtaken' \in BOOLEAN
    BY <2>1 DEF IInv
  <2>9. QED
    BY <2>2, <2>5, <2>6, <2>7, <2>8 DEF IInv
<1>2. CASE CooldownEnds
  <2>1. UNCHANGED <<fileVars, expiry, cached, inflight, forced, pc, snap, joined, cyc, lost, overtaken>>
    BY <1>2 DEF CooldownEnds, callerVars
  <2>2. FileInv' /\ issued' = issued /\ file' = file
    BY <1>0, <2>1 DEF fileVars, FileInv, FileTypeOK
  <2>3. SingleFlight'
    BY <1>0, <2>1 DEF MemoryInv, SingleFlight, Active
  <2>4. SuccessIsCached' /\ cooldown' \in BOOLEAN
    BY <1>2 DEF CooldownEnds, SuccessIsCached
  <2>5. MemoryInv'
    BY <1>0, <2>1, <2>2, <2>3, <2>4 DEF MemoryInv
  <2>6. BaseOnDisk'
    BY <2>1, <2>2 DEF IInv, BaseOnDisk
  <2>7. expiry' \in 0 .. issued'
    BY <2>1, <2>2 DEF IInv
  <2>8. lost' \in BOOLEAN /\ overtaken' \in BOOLEAN
    BY <2>1 DEF IInv
  <2>9. QED
    BY <2>2, <2>5, <2>6, <2>7, <2>8 DEF IInv
<1>3. CASE UNCHANGED vars
  <2>1. UNCHANGED <<fileVars, expiry, memory, lost, overtaken>>
    BY <1>3 DEF vars
  <2>2. FileInv' /\ issued' = issued /\ file' = file
    BY <1>0, <2>1 DEF fileVars, FileInv, FileTypeOK
  <2>3. MemoryInv' /\ expiry' \in 0 .. issued'
    BY <1>0, <2>1, <2>2, MemoryKept
  <2>4. BaseOnDisk'
    BY <2>1, <2>2 DEF IInv, BaseOnDisk, memory
  <2>5. lost' \in BOOLEAN /\ overtaken' \in BOOLEAN
    BY <2>1 DEF IInv
  <2>6. QED
    BY <2>2, <2>3, <2>4, <2>5 DEF IInv
<1>4. QED
  BY <1>1, <1>2, <1>3, CallerIInv, RefreshIInv, CliIInv, RestartIInv DEF Next, Step

(***************************************************************************)
(* The theorems.                                                           *)
(***************************************************************************)
(* The strengthened invariant holds throughout.                             *)
THEOREM Inductive == Spec => []IInv
<1>1. Init => IInv
  BY InitIInv
<1>2. IInv /\ [Next]_vars => IInv'
  BY NextIInv
<1>3. QED
  BY <1>1, <1>2, PTL DEF Spec

(* Every variable of the manager keeps its type: the token it serves was   *)
(* granted, and the second attempt of a refresh cycle is the last.         *)
THEOREM TypeCorrect == Spec => []TypeOK
<1>1. IInv => TypeOK
  <2> SUFFICES ASSUME IInv PROVE TypeOK
    OBVIOUS
  <2>1. {cooldown, lost, overtaken} \subseteq BOOLEAN
    BY DEF IInv, MemoryInv
  <2>2. QED
    BY <2>1 DEF IInv, FileInv, MemoryInv, TypeOK, Cycle
<1>2. QED
  BY <1>1, Inductive, PTL

(* One refresh cycle runs at a time and whoever waits waits for it: the    *)
(* promise in refreshInflight is cleared exactly when it settles.          *)
THEOREM OneFlight == Spec => []SingleFlight
<1>1. IInv => SingleFlight
  BY DEF IInv, MemoryInv
<1>2. QED
  BY <1>1, Inductive, PTL

(* The cooldown of a forced refresh that succeeded always finds a cached   *)
(* token to serve.                                                         *)
THEOREM CachedAfterSuccess == Spec => []SuccessIsCached
<1>1. IInv => SuccessIsCached
  BY DEF IInv, MemoryInv
<1>2. QED
  BY <1>1, Inductive, PTL

(* Over the awaits of a refresh cycle and its retry, no write of the        *)
(* manager replaces a refresh token but the one its cycle has used, unless  *)
(* the file was changed between persistTokens()'s re-read and its rename.   *)
THEOREM RotatedTokenStays == Spec => RotatedTokenKept
<1>1. IInv => \A o \in Callers : cyc[o].stage = "write" => file.rt = cyc[o].base \/ overtaken
  BY DEF IInv, BaseOnDisk
<1>2. IInv /\ [Next]_vars =>
        [\A o \in Callers : (cyc[o].stage = "write" /\ file' # file /\ cyc'[o].stage = "off")
           => file.rt = cyc[o].base \/ overtaken]_vars
  BY <1>1
<1>3. QED
  BY <1>2, Inductive, PTL DEF Spec, RotatedTokenKept

(***************************************************************************)
(* That no forced login is needed rests on more than SingleFlight: on what *)
(* has become of each refresh token the server has granted.                *)
(***************************************************************************)
Working == {"call", "reread", "persist", "write"}
Holding == {"persist", "write"}

(* The refresh token a cycle works with is the one on disk only while the   *)
(* file is the one it has read, and never the one the CLI is about to       *)
(* write.                                                                   *)
Reads(r) ==
  r.stage \in Working =>
    /\ r.base # cli /\ r.base <= issued
    /\ file.rt = r.base => file.last = r.last

(* What a cycle was granted nobody else knows of.                           *)
Holds(r) ==
  r.stage \in Holding => r.tok \in live /\ r.tok # file.rt /\ r.tok # cli

(* The token on disk is used up because this cycle has used it, and the     *)
(* file is the one it will replace.                                         *)
Owes(r) == r.stage \in Holding /\ file.rt = r.base /\ file.last <= r.last

(* The login is on disk, in the hands of the CLI, or known to be lost.      *)
Kept == lost \/ cli # 0 \/ file.rt \in live

(* A server that rotates: what is granted is used up by whoever presents    *)
(* it, and is held by one party at a time.                                  *)
Rotating ==
  /\ file.rt # cli /\ (cli # 0 => cli \in live)
  /\ \A o \in Callers : Reads(cyc[o]) /\ Holds(cyc[o])
  /\ Kept \/ \E o \in Callers : Owes(cyc[o])

(* A server that does not: nothing is ever used up.                         *)
Static ==
  /\ file.rt \in live
  /\ \A o \in Callers : cyc[o].stage \in Working => cyc[o].base \in live

TokenInv ==
  /\ file.rt <= issued
  /\ Rotates => Rotating
  /\ ~Rotates => Static

LEMMA InitTokenInv == Init => TokenInv
<1> SUFFICES ASSUME Init PROVE TokenInv
  OBVIOUS
<1>1. file.rt = 1 /\ issued = 1 /\ live = {1} /\ cli = 0
  BY DEF Init, FileInit
<1>2. \A o \in Callers : cyc[o].stage = "off"
  BY DEF Init, Idle
<1>3. QED
  BY <1>1, <1>2 DEF TokenInv, Rotating, Static, Reads, Holds, Owes, Kept, Working, Holding

(* Only the owner of the cycle in flight works.                             *)
LEMMA OthersOff ==
  ASSUME IInv, NEW o \in Callers, cyc[o].stage # "off"
  PROVE  \A c \in Callers : c # o => cyc[c].stage = "off"
<1>1. Active = {o}
  BY DEF IInv, MemoryInv, SingleFlight, Active
<1>2. QED
  BY <1>1 DEF Active

LEMMA AllOffAtEnd ==
  ASSUME IInv, NEW o \in Callers, cyc[o].stage # "off", cyc' = [cyc EXCEPT ![o] = Idle]
  PROVE  \A c \in Callers : cyc'[c].stage = "off"
<1>1. \A c \in Callers : cyc'[c] = IF c = o THEN Idle ELSE cyc[c]
  BY DEF IInv, MemoryInv
<1>2. QED
  BY <1>1, OthersOff DEF Idle

(* When nobody works any more, what is on disk must be good by itself.      *)
LEMMA RestingTokens ==
  ASSUME TokenInv, \A c \in Callers : cyc'[c].stage = "off", UNCHANGED <<file, cli>>,
         file'.rt <= issued', Rotates /\ cli \in live => cli \in live', ~Rotates => live \subseteq live',
         Rotates => Kept'
  PROVE  TokenInv'
<1>1. Rotates => Rotating'
  BY DEF TokenInv, Rotating, Reads, Holds, Working, Holding
<1>2. ~Rotates => Static'
  BY DEF TokenInv, Static, Working
<1>3. QED
  BY <1>1, <1>2 DEF TokenInv

(* A step that neither the file nor the server takes part in.               *)
SameToken(r, s) ==
  \/ r.stage \notin Holding /\ s.stage \notin Working
  \/ r.stage \notin Holding /\ s.stage \in Working \ Holding /\ s.base = file.rt /\ s.last = file.last
  \/ /\ r.stage \in Working /\ s.stage \in Working /\ (r.stage \in Holding <=> s.stage \in Holding)
     /\ s.base = r.base /\ s.last = r.last /\ s.tok = r.tok

LEMMA SteadyTokens ==
  ASSUME TokenInv, UNCHANGED <<file, issued, live, cli, lost>>,
         \A o \in Callers : cyc'[o] = cyc[o] \/ SameToken(cyc[o], cyc'[o])
  PROVE  TokenInv'
<1>1. ASSUME Rotates PROVE Rotating'
  <2>1. Rotating /\ file.rt <= issued
    BY <1>1 DEF TokenInv
  <2>2. ASSUME NEW o \in Callers
        PROVE  Reads(cyc[o])' /\ Holds(cyc[o])' /\ (Owes(cyc[o]) => Owes(cyc[o])')
    <3>1. CASE cyc'[o] = cyc[o]
      BY <2>1, <3>1 DEF Rotating, Reads, Holds, Owes
    <3>2. CASE SameToken(cyc[o], cyc'[o])
      <4>1. cli # file.rt /\ Reads(cyc[o]) /\ Holds(cyc[o])
        BY <2>1 DEF Rotating
      <4>2. QED
        BY <2>1, <3>2, <4>1 DEF SameToken, Reads, Holds, Owes, Working, Holding
    <3>3. QED
      BY <3>1, <3>2
  <2>3. QED
    BY <2>1, <2>2 DEF Rotating, Kept
<1>2. ASSUME ~Rotates PROVE Static'
  BY <1>2 DEF TokenInv, Static, SameToken, Working, Holding
<1>3. QED
  BY <1>1, <1>2 DEF TokenInv
(* A cycle is granted a token: the one it presents is used up.              *)
LEMMA GrantedTokens ==
  ASSUME IInv, TokenInv, NEW o \in Callers, Granted(o)
  PROVE  TokenInv'
<1>1. /\ cyc[o].stage = "call" /\ Grant(cyc[o].base) /\ UNCHANGED <<file, cli, lost>>
      /\ cyc' = [cyc EXCEPT ![o] = [cyc[o] EXCEPT !.stage = "persist", !.tok = issued']]
  BY DEF Granted, Proceed
<1>2. /\ issued \in Nat /\ issued' = issued + 1 /\ file.rt \in Nat /\ cli \in 0 .. issued
      /\ live \subseteq 1 .. issued
  BY <1>1, FileFacts, ServerAssumption DEF IInv, FileInv, FileTypeOK, Tokens, Grant
<1>3. /\ cyc[o] \in Cycle /\ cyc'[o].stage = "persist" /\ cyc'[o].tok = issued + 1
      /\ cyc'[o].base = cyc[o].base /\ cyc'[o].last = cyc[o].last
      /\ \A c \in Callers : c # o => cyc'[c] = cyc[c] /\ cyc[c].stage = "off"
  <2>1. cyc \in [Callers -> Cycle]
    BY DEF IInv, MemoryInv
  <2>2. /\ cyc'[o] = [cyc[o] EXCEPT !.stage = "persist", !.tok = issued'] /\ cyc[o] \in Cycle
        /\ \A c \in Callers : c # o => cyc'[c] = cyc[c]
    BY <1>1, <2>1
  <2>3. \A c \in Callers : c # o => cyc[c].stage = "off"
    BY <1>1, OthersOff
  <2>4. QED
    BY <1>2, <2>2, <2>3 DEF Cycle
<1>4. ASSUME Rotates PROVE Rotating'
  <2>1. /\ file.rt <= issued /\ file.rt # cli /\ (cli # 0 => cli \in live)
        /\ Reads(cyc[o]) /\ (Kept \/ \E c \in Callers : Owes(cyc[c]))
    BY <1>4 DEF TokenInv, Rotating
  <2>2. live' = (live \ {cyc[o].base}) \cup {issued + 1}
    BY <1>1, <1>2, <1>4 DEF Grant
  <2>3. cyc[o].base # cli /\ cyc[o].base \in Nat /\ cyc[o].base <= issued
        /\ (file.rt = cyc[o].base => file.last = cyc[o].last)
    BY <1>1, <1>3, <2>1 DEF Reads, Working, Cycle
  <2>4. Kept
    BY <1>1, <1>3, <2>1 DEF Owes, Holding
  <2>5. \A c \in Callers : Reads(cyc[c])' /\ Holds(cyc[c])'
    BY <1>1, <1>2, <1>3, <2>1, <2>2, <2>3 DEF Reads, Holds, Working, Holding
  <2>6. Kept' \/ Owes(cyc[o])'
    <3>1. CASE file.rt = cyc[o].base
      <4>1. file.last <= cyc[o].last
        BY <2>3, <3>1, FileFacts DEF IInv, Tokens
      <4>2. QED
        BY <1>1, <1>3, <3>1, <4>1 DEF Owes, Holding
    <3>2. CASE file.rt # cyc[o].base
      BY <1>1, <2>2, <2>4, <3>2 DEF Kept
    <3>3. QED
      BY <3>1, <3>2
  <2>7. cli # 0 => cli \in live'
    BY <2>1, <2>2, <2>3
  <2>8. QED
    BY <1>1, <2>1, <2>5, <2>6, <2>7 DEF Rotating
<1>5. ASSUME ~Rotates PROVE Static'
  BY <1>1, <1>3, <1>5 DEF TokenInv, Static, Grant, Working
<1>6. file'.rt <= issued'
  BY <1>1, <1>2 DEF TokenInv
<1>7. QED
  BY <1>4, <1>5, <1>6 DEF TokenInv

(* A cycle ends: in an error, with the token it was granted, or with the    *)
(* one it has found.                                                        *)
LEMMA EndedTokens ==
  ASSUME IInv, TokenInv, NEW o \in Callers, cyc[o].stage # "off", cyc' = [cyc EXCEPT ![o] = Idle],
         UNCHANGED fileVars, Rotates => lost' \/ (~Owes(cyc[o]) /\ lost' = lost)
  PROVE  TokenInv'
<1>1. \A c \in Callers : cyc'[c].stage = "off"
  BY AllOffAtEnd
<1>2. UNCHANGED <<file, issued, live, cli>>
  BY DEF fileVars
<1>3. Rotates => Kept'
  <2>1. SUFFICES ASSUME Rotates PROVE Kept'
    OBVIOUS
  <2>2. CASE lost'
    BY <2>2 DEF Kept
  <2>3. CASE ~lost'
    <3>1. lost' = lost /\ ~Owes(cyc[o])
      BY <2>1, <2>3
    <3>2. \A c \in Callers : ~Owes(cyc[c])
      BY <3>1, OthersOff DEF Owes, Holding
    <3>3. Kept
      BY <2>1, <3>2 DEF TokenInv, Rotating
    <3>4. QED
      BY <1>2, <3>1, <3>3 DEF Kept
  <2>4. QED
    BY <2>2, <2>3
<1>4. file'.rt <= issued'
  BY <1>2 DEF TokenInv
<1>5. QED
  BY <1>1, <1>2, <1>3, <1>4, RestingTokens
(* The cycle in flight.                                                     *)
LEMMA RefreshTokens ==
  ASSUME IInv, TokenInv, NEW o \in Callers, Refresh(o)
  PROVE  TokenInv'
<1>0. /\ issued \in Nat /\ file.rt \in Nat /\ file.last \in Nat /\ cli \in 0 .. issued /\ file.rt <= issued
      /\ cyc[o] \in Cycle /\ Sound(cyc[o], issued)
  BY FileFacts, CycleFacts, ServerAssumption DEF IInv, FileInv, FileTypeOK, Tokens, TokenInv
<1>1. ASSUME Fails(o), UNCHANGED fileVars, UNCHANGED lost, cyc[o].stage \in {"start", "call", "reread"} PROVE TokenInv'
  BY <1>1, EndedTokens DEF Fails, EndCycle, Owes, Holding
<1>2. ASSUME NEW r, Proceed(o, r), UNCHANGED fileVars, UNCHANGED lost, SameToken(cyc[o], r) PROVE TokenInv'
  <2>1. \A c \in Callers : cyc'[c] = IF c = o THEN r ELSE cyc[c]
    BY <1>2 DEF Proceed, IInv, MemoryInv
  <2>2. QED
    BY <1>2, <2>1, SteadyTokens DEF fileVars
<1>3. CASE InitialRead(o)
  <2>1. CASE Readable(file)
    <3> DEFINE r == [cyc[o] EXCEPT !.stage = "call", !.base = file.rt, !.last = file.last]
    <3>1. Proceed(o, r) /\ UNCHANGED fileVars /\ UNCHANGED lost /\ cyc[o].stage = "start"
      BY <1>3, <2>1 DEF InitialRead
    <3>2. r.stage = "call" /\ r.base = file.rt /\ r.last = file.last
      BY <1>0 DEF Cycle
    <3> HIDE DEF r
    <3>3. SameToken(cyc[o], r)
      BY <3>1, <3>2 DEF SameToken, Working, Holding
    <3>4. QED
      BY <1>2, <3>1, <3>3
  <2>2. CASE ~Readable(file)
    BY <1>1, <1>3, <2>2 DEF InitialRead
  <2>3. QED
    BY <2>1, <2>2
<1>4. CASE Granted(o)
  BY <1>4, GrantedTokens
<1>5. CASE GrantLost(o)
  <2>1. /\ cyc[o].stage = "call" /\ Grant(cyc[o].base) /\ cyc' = [cyc EXCEPT ![o] = Idle]
        /\ lost' = (lost \/ Rotates) /\ UNCHANGED <<file, cli>>
    BY <1>5 DEF GrantLost, Fails, EndCycle
  <2>2. \A c \in Callers : cyc'[c].stage = "off"
    BY <2>1, AllOffAtEnd
  <2>3. Rotates => cyc[o].base # cli
    BY <2>1 DEF TokenInv, Rotating, Reads, Working
  <2>4. /\ Rotates /\ cli \in live => cli \in live'
        /\ ~Rotates => live \subseteq live'
    BY <2>1, <2>3 DEF Grant
  <2>5. Rotates => Kept'
    BY <2>1 DEF Kept
  <2>6. file'.rt <= issued'
    <3>1. issued' = issued + 1 /\ file' = file
      BY <2>1 DEF Grant
    <3>2. QED
      BY <1>0, <3>1
  <2>7. QED
    BY <2>1, <2>2, <2>4, <2>5, <2>6, RestingTokens
<1>6. CASE Unreachable(o)
  BY <1>1, <1>6 DEF Unreachable
<1>7. CASE InvalidGrant(o)
  <2>1. CASE cyc[o].attempt = 0
    <3> DEFINE r == [cyc[o] EXCEPT !.stage = "reread"]
    <3>1. Proceed(o, r) /\ UNCHANGED fileVars /\ UNCHANGED lost /\ cyc[o].stage = "call"
      BY <1>7, <2>1 DEF InvalidGrant
    <3>2. r.stage = "reread" /\ r.base = cyc[o].base /\ r.last = cyc[o].last /\ r.tok = cyc[o].tok
      BY <1>0 DEF Cycle
    <3> HIDE DEF r
    <3>3. SameToken(cyc[o], r)
      BY <3>1, <3>2 DEF SameToken, Working, Holding
    <3>4. QED
      BY <1>2, <3>1, <3>3
  <2>2. CASE cyc[o].attempt # 0
    BY <1>1, <1>7, <2>2 DEF InvalidGrant
  <2>3. QED
    BY <2>1, <2>2
<1>8. CASE Reread(o)
  <2>1. CASE Readable(file) /\ file.rt # cyc[o].base
    <3> DEFINE r == [cyc[o] EXCEPT !.stage = "call", !.base = file.rt, !.last = file.last, !.attempt = @ + 1]
    <3>1. Proceed(o, r) /\ UNCHANGED fileVars /\ UNCHANGED lost /\ cyc[o].stage = "reread"
      BY <1>8, <2>1 DEF Reread
    <3>2. r.stage = "call" /\ r.base = file.rt /\ r.last = file.last
      BY <1>0 DEF Cycle
    <3> HIDE DEF r
    <3>3. SameToken(cyc[o], r)
      BY <3>1, <3>2 DEF SameToken, Working, Holding
    <3>4. QED
      BY <1>2, <3>1, <3>3
  <2>2. CASE ~(Readable(file) /\ file.rt # cyc[o].base)
    BY <1>1, <1>8, <2>2 DEF Reread
  <2>3. QED
    BY <2>1, <2>2
<1>9. CASE PersistUnreadable(o)
  <2>1. /\ cyc[o].stage = "persist" /\ file.kind = "unreadable" /\ cyc' = [cyc EXCEPT ![o] = Idle]
        /\ lost' = (lost \/ (Rotates /\ file.kind = "unreadable")) /\ UNCHANGED fileVars
    BY <1>9 DEF PersistUnreadable, FromMemory, Fails, EndCycle, Readable
  <2>2. QED
    BY <2>1, EndedTokens
<1>10. CASE PersistNewer(o)
  <2>1. /\ cyc[o].stage = "persist" /\ FileIsNewer(cyc[o]) /\ cyc' = [cyc EXCEPT ![o] = Idle]
        /\ lost' = lost \/ lost' = (lost \/ (Rotates /\ file.kind = "unreadable"))
        /\ Readable(file) /\ UNCHANGED fileVars
    BY <1>10 DEF PersistNewer, FromMemory, Fails, EndCycle
  <2>2. ~Owes(cyc[o])
    BY <1>0, <2>1 DEF FileIsNewer, Owes, Cycle
  <2>3. lost' = lost
    BY <2>1 DEF Readable, IInv
  <2>4. QED
    BY <2>1, <2>2, <2>3, EndedTokens
<1>11. CASE PersistMerge(o)
  <2> DEFINE r == [cyc[o] EXCEPT !.stage = "write"]
  <2>1. Proceed(o, r) /\ UNCHANGED fileVars /\ UNCHANGED lost /\ cyc[o].stage = "persist"
    BY <1>11 DEF PersistMerge
  <2>2. r.stage = "write" /\ r.base = cyc[o].base /\ r.last = cyc[o].last /\ r.tok = cyc[o].tok
    BY <1>0 DEF Cycle
  <2> HIDE DEF r
  <2>3. SameToken(cyc[o], r)
    BY <2>1, <2>2 DEF SameToken, Working, Holding
  <2>4. QED
    BY <1>2, <2>1, <2>3
<1>12. CASE Write(o)
  <2>1. PICK written \in BOOLEAN :
          /\ written => file'.rt = IF Rotates THEN cyc[o].tok ELSE cyc[o].base
          /\ ~written => file' = file
          /\ lost' = (lost \/ (Rotates /\ ~written))
    BY <1>12 DEF Write
  <2>2. /\ cyc[o].stage = "write" /\ cyc' = [cyc EXCEPT ![o] = Idle] /\ UNCHANGED <<issued, live, cli>>
    BY <1>12 DEF Write, Fails, EndCycle
  <2>3. \A c \in Callers : cyc'[c].stage = "off"
    BY <2>2, AllOffAtEnd
  <2>4. CASE ~written
    <3>1. Rotates => Kept'
      BY <2>1, <2>4 DEF Kept
    <3>2. QED
      BY <1>0, <2>1, <2>2, <2>3, <2>4, <3>1, RestingTokens
  <2>5. CASE written
    <3>1. ASSUME Rotates PROVE Rotating'
      <4>1. cyc[o].tok \in live /\ cyc[o].tok # cli /\ (cli # 0 => cli \in live)
        BY <2>2, <3>1 DEF TokenInv, Rotating, Holds, Holding
      <4>2. file'.rt = cyc[o].tok
        BY <2>1, <2>5, <3>1
      <4>3. QED
        BY <2>2, <2>3, <4>1, <4>2 DEF Rotating, Reads, Holds, Kept, Working, Holding
    <3>2. ASSUME ~Rotates PROVE Static'
      <4>1. cyc[o].base \in live
        BY <2>2, <3>2 DEF TokenInv, Static, Working
      <4>2. QED
        BY <2>1, <2>2, <2>3, <2>5, <3>2, <4>1 DEF Static, Working
    <3>3. file'.rt <= issued'
      <4>1. CASE Rotates
        BY <1>0, <2>1, <2>2, <2>5, <4>1 DEF Sound
      <4>2. CASE ~Rotates
        <5>1. file'.rt \in live
          BY <2>2, <3>2, <4>2 DEF Static
        <5>2. file'.rt \in 1 .. issued
          BY <5>1 DEF IInv, FileInv, FileTypeOK
        <5>3. QED
          BY <1>0, <2>2, <5>2
      <4>3. QED
        BY <4>1, <4>2
    <3>4. QED
      BY <3>1, <3>2, <3>3 DEF TokenInv
  <2>6. QED
    BY <2>4, <2>5
<1>13. QED
  BY <1>3, <1>4, <1>5, <1>6, <1>7, <1>8, <1>9, <1>10, <1>11, <1>12 DEF Refresh
(* The CLI rotates the token that is on disk, or brings a new one there.    *)
LEMMA CliTokens ==
  ASSUME IInv, TokenInv, Cli
  PROVE  TokenInv'
<1>0. /\ issued \in Nat /\ file.rt \in Nat /\ file.rt # 0 /\ cli \in 0 .. issued /\ file.rt <= issued /\ cyc' = cyc
      /\ file \in File
  BY FileFacts, ServerAssumption DEF IInv, FileInv, FileTypeOK, Tokens, TokenInv, Cli, memory
<1>1. ASSUME NEW o \in Callers, cyc[o].stage \in Working
      PROVE  cyc[o].base \in Nat /\ cyc[o].base # 0
  BY <1>1, CycleFacts, ServerAssumption DEF Sound, Working, Tokens
<1>2. ASSUME NEW o \in Callers, cyc[o].stage \in Holding
      PROVE  cyc[o].tok \in Nat /\ cyc[o].tok # 0 /\ cyc[o].tok <= issued
  BY <1>2, CycleFacts DEF Sound, Holding, Cycle
<1>3. ASSUME CliRefresh \/ CliLogin PROVE TokenInv'
  <2>1. /\ issued' = issued + 1 /\ cli' = issued + 1 /\ file' = file
        /\ Rotates => (live \ {file.rt}) \cup {issued + 1} \subseteq live'
        /\ ~Rotates => live \subseteq live'
    BY <1>3 DEF CliRefresh, CliLogin, Grant
  <2>2. ASSUME Rotates PROVE Rotating'
    <3>1. \A o \in Callers : Reads(cyc[o]) /\ Holds(cyc[o])
      BY <2>2 DEF TokenInv, Rotating
    <3>2. \A o \in Callers : Reads(cyc[o])'
      BY <1>0, <1>1, <2>1, <3>1 DEF Reads
    <3>3. \A o \in Callers : Holds(cyc[o])'
      BY <1>0, <1>2, <2>1, <2>2, <3>1 DEF Holds
    <3>4. file'.rt # cli' /\ cli' \in live' /\ cli' # 0
      BY <1>0, <2>1, <2>2
    <3>5. QED
      BY <3>2, <3>3, <3>4 DEF Rotating, Kept
  <2>3. ASSUME ~Rotates PROVE Static'
    BY <1>0, <2>1, <2>3 DEF TokenInv, Static
  <2>4. file'.rt <= issued'
    BY <1>0, <2>1
  <2>5. QED
    BY <2>2, <2>3, <2>4 DEF TokenInv
<1>4. ASSUME CliWrite PROVE TokenInv'
  <2>1. /\ cli # 0 /\ cli' = 0 /\ UNCHANGED <<issued, live>>
        /\ file'.rt = IF cli \in live THEN cli ELSE file.rt
    BY <1>4 DEF CliWrite
  <2>2. ASSUME Rotates PROVE Rotating'
    <3>1. cli \in live /\ \A o \in Callers : Reads(cyc[o]) /\ Holds(cyc[o])
      BY <2>1, <2>2 DEF TokenInv, Rotating
    <3>2. file'.rt = cli
      BY <2>1, <3>1
    <3>3. \A o \in Callers : Reads(cyc[o])' /\ Holds(cyc[o])'
      BY <1>0, <1>1, <1>2, <2>1, <3>1, <3>2 DEF Reads, Holds
    <3>4. QED
      BY <2>1, <3>1, <3>2, <3>3 DEF Rotating, Kept
  <2>3. ASSUME ~Rotates PROVE Static'
    BY <1>0, <2>1, <2>3 DEF TokenInv, Static
  <2>4. file'.rt <= issued'
    BY <1>0, <2>1
  <2>5. QED
    BY <2>2, <2>3, <2>4 DEF TokenInv
<1>5. ASSUME Damage, UNCHANGED lost PROVE TokenInv'
  <2>1. file'.rt = file.rt /\ file'.last = file.last /\ UNCHANGED <<issued, live, cli, lost, cyc>>
    BY <1>0, <1>5 DEF Damage, File
  <2>2. QED
    BY <2>1 DEF TokenInv, Rotating, Static, Reads, Holds, Owes, Kept
<1>6. QED
  BY <1>3, <1>4, <1>5 DEF Cli

(* A caller that starts a cycle has not read the file yet.                  *)
LEMMA CallerTokens ==
  ASSUME IInv, TokenInv, NEW c \in Callers,
         GetFromFile(c) \/ ServeCooldown(c) \/ ForceRefresh(c) \/ LoadRead(c) \/ LoadSettle(c)
  PROVE  TokenInv'
<1>1. UNCHANGED <<file, issued, live, cli, lost>>
  BY DEF GetFromFile, ServeCooldown, ForceRefresh, LoadRead, LoadSettle, vars, fileVars
<1>2. cyc' = cyc \/ (inflight = "none" /\ cyc' = [cyc EXCEPT ![c].stage = "start"])
  BY DEF GetFromFile, ServeCooldown, ForceRefresh, LoadRead, LoadSettle, Join, vars, memory
<1>3. CASE cyc' = cyc
  BY <1>1, <1>3, SteadyTokens
<1>4. CASE inflight = "none" /\ cyc' = [cyc EXCEPT ![c].stage = "start"]
  <2>1. cyc \in [Callers -> Cycle] /\ cyc[c].stage = "off"
    BY <1>4 DEF IInv, MemoryInv, SingleFlight, Active
  <2>2. cyc'[c].stage = "start"
    BY <1>4, <2>1 DEF Cycle
  <2>3. \A o \in Callers : cyc'[o] = cyc[o] \/ SameToken(cyc[o], cyc'[o])
    BY <1>4, <2>1, <2>2 DEF SameToken, Working, Holding
  <2>4. QED
    BY <1>1, <2>3, SteadyTokens
<1>5. QED
  BY <1>2, <1>3, <1>4

(* What was granted to a cycle that a restart cuts off is lost.             *)
LEMMA RestartTokens ==
  ASSUME IInv, TokenInv, Restart
  PROVE  TokenInv'
<1>1. /\ UNCHANGED <<file, issued, live, cli>>
      /\ lost' = (lost \/ (Rotates /\ \E o \in Callers : cyc[o].stage \in Holding))
      /\ \A o \in Callers : cyc'[o].stage = "off"
  BY DEF Restart, fileVars, Idle, Holding
<1>2. Rotates => Kept'
  BY <1>1 DEF TokenInv, Rotating, Kept, Owes
<1>3. file'.rt <= issued'
  BY <1>1 DEF TokenInv
<1>4. QED
  BY <1>1, <1>2, <1>3, RestingTokens

LEMMA NextTokenInv ==
  ASSUME IInv, TokenInv, [Next]_vars
  PROVE  TokenInv'
<1>1. ASSUME UNCHANGED <<fileVars, cyc, lost>> PROVE TokenInv'
  BY <1>1, SteadyTokens DEF fileVars
<1>2. ASSUME NEW t \in Tokens, Expire(t) PROVE TokenInv'
  BY <1>1, <1>2 DEF Expire, memory
<1>3. CASE CooldownEnds
  BY <1>1, <1>3 DEF CooldownEnds
<1>4. CASE UNCHANGED vars
  BY <1>1, <1>4 DEF vars, memory
<1>5. QED
  BY <1>2, <1>3, <1>4, CallerTokens, RefreshTokens, CliTokens, RestartTokens DEF Next, Step

(* No forced login: whatever the CLI does meanwhile, and whenever it does   *)
(* it, the refresh token on disk is one the server accepts, unless an       *)
(* answer was lost, a write failed, the file was unreadable or the relay    *)
(* was killed with a granted token in hand.                                 *)
THEOREM LoginKept == Spec => []DiskTokenLive
<1>1. IInv /\ TokenInv => DiskTokenLive
  <2> SUFFICES ASSUME TokenInv, ~lost, cli = 0, \A o \in Callers : cyc[o].stage \notin {"persist", "write"}
               PROVE  file.rt \in live
    BY DEF DiskTokenLive
  <2>1. CASE Rotates
    BY <2>1 DEF TokenInv, Rotating, Kept, Owes, Holding
  <2>2. CASE ~Rotates
    BY <2>2 DEF TokenInv, Static
  <2>3. QED
    BY <2>1, <2>2
<1>2. IInv /\ TokenInv /\ [Next]_vars => TokenInv'
  BY NextTokenInv
<1>3. QED
  BY InitTokenInv, <1>1, <1>2, Inductive, PTL DEF Spec
=================================================================================
