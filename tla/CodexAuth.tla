-------------------------------- MODULE CodexAuth --------------------------------
(***************************************************************************)
(* CodexAuthManager, src/src/codex-auth.ts: the cached access token, the   *)
(* single-flight refresh cycle, the cooldown of forced refreshes and the   *)
(* write-back of rotated tokens into a file the Codex CLI also writes.     *)
(*                                                                         *)
(* Each concurrent caller runs getCredentials() or forceRefresh(); the     *)
(* first that needs a refresh owns the cycle the others await.  A step is  *)
(* what runs between two awaits.                                           *)
(***************************************************************************)
EXTENDS CredentialFile, FiniteSets

CONSTANTS
  Callers     (* concurrent requests                                        *)

ASSUME CallersAssumption == "none" \notin Callers

VARIABLES
  cached,     (* the cached access token, or 0                              *)
  expiry,     (* the access tokens up to this one are within                *)
              (* REFRESH_MARGIN_MS of their expiry                          *)
  inflight,   (* the owner of refreshInflight, or "none"                    *)
  cooldown,   (* less than FORCE_REFRESH_COOLDOWN_MS since lastForcedRefresh *)
  forced,     (* HISTORY: how the last forced refresh went                  *)
  pc,         (* where each caller stands                                   *)
  snap,       (* the file as loadMaterial() of each caller read it          *)
  joined,     (* the owner of the cycle each caller awaits                  *)
  cyc,        (* the refresh cycle each caller owns                         *)
  lost,       (* HISTORY: a rotated refresh token exists nowhere on disk    *)
  overtaken   (* HISTORY: the file was changed by another program behind    *)
              (* persistTokens()'s re-read, before its rename               *)

callerVars == <<pc, snap, joined>>
memory == <<cached, inflight, cooldown, forced, callerVars, cyc>>
vars == <<fileVars, expiry, memory, lost, overtaken>>

NearExpiry(token) == token <= expiry
NoSnap == [kind |-> "unreadable", at |-> 1, rt |-> 1, last |-> 1]

Idle == [stage |-> "off", base |-> 0, last |-> 0, attempt |-> 0, tok |-> 0]
Stage == {"off", "start", "call", "reread", "persist", "write"}
Active == {c \in Callers : cyc[c].stage # "off"}

Init ==
  /\ FileInit
  /\ cached = 0 /\ expiry = 0 /\ inflight = "none"
  /\ cooldown = FALSE /\ forced = "never"
  /\ pc = [c \in Callers |-> "idle"]
  /\ snap = [c \in Callers |-> NoSnap]
  /\ joined = [c \in Callers |-> "none"]
  /\ cyc = [c \in Callers |-> Idle]
  /\ lost = FALSE /\ overtaken = FALSE

Returns(c) == pc' = [pc EXCEPT ![c] = "idle"]

(* MUTANT: every caller starts a cycle of its own.                         *)
JoinNobody(c) ==
  /\ pc' = [pc EXCEPT ![c] = "waiting"]
  /\ inflight' = c
  /\ joined' = [joined EXCEPT ![c] = c]
  /\ cyc' = [cyc EXCEPT ![c].stage = "start"]

(* refresh(): await the cycle in flight, or start one.                     *)
Join(c) ==
  /\ pc' = [pc EXCEPT ![c] = "waiting"]
  /\ IF inflight = "none"
     THEN /\ inflight' = c
          /\ joined' = [joined EXCEPT ![c] = c]
          /\ cyc' = [cyc EXCEPT ![c].stage = "start"]
     ELSE joined' = [joined EXCEPT ![c] = inflight] /\ UNCHANGED <<inflight, cyc>>

(***************************************************************************)
(* getCredentials() and forceRefresh()                                     *)
(***************************************************************************)
(* A cached token that is good for a while is returned at once, which      *)
(* changes nothing.                                                        *)
GetFromFile(c) ==
  /\ pc[c] = "idle"
  /\ cached = 0 \/ NearExpiry(cached)
  /\ pc' = [pc EXCEPT ![c] = "reading"]
  /\ UNCHANGED <<fileVars, expiry, cached, inflight, cooldown, forced, snap, joined, cyc, lost, overtaken>>

LoadRead(c) ==
  /\ pc[c] = "reading"
  /\ pc' = [pc EXCEPT ![c] = "loaded"]
  /\ snap' = [snap EXCEPT ![c] = file]
  /\ UNCHANGED <<fileVars, expiry, cached, inflight, cooldown, forced, joined, cyc, lost, overtaken>>

LoadSettle(c) ==
  /\ pc[c] = "loaded"
  /\ \/ /\ ~Readable(snap[c])
        /\ Returns(c)
        /\ UNCHANGED <<cached, inflight, joined, cyc>>
     \/ /\ snap[c].kind = "good" /\ ~NearExpiry(snap[c].at)
        /\ cached' = snap[c].at
        /\ Returns(c)
        /\ UNCHANGED <<inflight, joined, cyc>>
     \/ /\ Readable(snap[c])
        /\ snap[c].kind = "partial" \/ NearExpiry(snap[c].at)
        /\ Join(c)
        /\ UNCHANGED cached
  /\ snap' = [snap EXCEPT ![c] = NoSnap]
  /\ UNCHANGED <<fileVars, expiry, cooldown, forced, lost, overtaken>>

ServeCooldown(c) ==
  /\ pc[c] = "idle"
  /\ cooldown /\ cached # 0
  /\ UNCHANGED vars

ForceRefresh(c) ==
  /\ pc[c] = "idle"
  /\ ~cooldown \/ cached = 0
  /\ cooldown' = TRUE
  /\ cached' = 0
  /\ forced' = "running"
  /\ Join(c)
  /\ UNCHANGED <<fileVars, expiry, snap, lost, overtaken>>

(* MUTANT: only the owner of the cycle gets the result.                    *)
EndCycleForOwner(o, how, token) ==
  /\ cyc' = [cyc EXCEPT ![o] = Idle]
  /\ inflight' = "none"
  /\ pc' = [pc EXCEPT ![o] = "idle"]
  /\ joined' = [joined EXCEPT ![o] = "none"]
  /\ cached' = IF token = 0 THEN cached ELSE token
  /\ forced' = IF forced = "running" THEN how ELSE forced
  /\ UNCHANGED <<cooldown, snap>>

(***************************************************************************)
(* doRefresh() and persistTokens(), run by the owner of the cycle.         *)
(***************************************************************************)
(* The promise settles: finally() clears refreshInflight, then everybody   *)
(* who awaits it goes on.                                                  *)
EndCycle(o, how, token) ==
  LET awake == {c \in Callers : pc[c] = "waiting" /\ joined[c] = o} IN
  /\ cyc' = [cyc EXCEPT ![o] = Idle]
  /\ inflight' = "none"
  /\ pc' = [c \in Callers |-> IF c \in awake THEN "idle" ELSE pc[c]]
  /\ joined' = [c \in Callers |-> IF c \in awake THEN "none" ELSE joined[c]]
  /\ cached' = IF token = 0 THEN cached ELSE token
  /\ forced' = IF forced = "running" THEN how ELSE forced
  /\ UNCHANGED <<cooldown, snap>>

Fails(o) == EndCycle(o, "error", 0)

(* The cycle goes on with record r.                                        *)
Proceed(o, r) ==
  /\ cyc' = [cyc EXCEPT ![o] = r]
  /\ UNCHANGED <<cached, inflight, cooldown, forced, callerVars>>

InitialRead(o) ==
  /\ cyc[o].stage = "start"
  /\ IF Readable(file)
     THEN Proceed(o, [cyc[o] EXCEPT !.stage = "call", !.base = file.rt, !.last = file.last])
     ELSE Fails(o)
  /\ UNCHANGED <<fileVars, expiry, lost, overtaken>>

Granted(o) ==
  /\ cyc[o].stage = "call"
  /\ Grant(cyc[o].base)
  /\ Proceed(o, [cyc[o] EXCEPT !.stage = "persist", !.tok = issued'])
  /\ UNCHANGED <<file, cli, expiry, lost, overtaken>>

(* The server granted, but the answer is lost, late or unusable.           *)
GrantLost(o) ==
  /\ cyc[o].stage = "call"
  /\ Grant(cyc[o].base)
  /\ Fails(o)
  /\ lost' = (lost \/ Rotates)
  /\ UNCHANGED <<file, cli, expiry, overtaken>>

Unreachable(o) ==
  /\ cyc[o].stage = "call"
  /\ Fails(o)
  /\ UNCHANGED <<fileVars, expiry, lost, overtaken>>

InvalidGrant(o) ==
  /\ cyc[o].stage = "call"
  /\ cyc[o].base \notin live
  /\ IF cyc[o].attempt = 0
     THEN Proceed(o, [cyc[o] EXCEPT !.stage = "reread"])
     ELSE Fails(o)
  /\ UNCHANGED <<fileVars, expiry, lost, overtaken>>

(* A different refresh token on disk is worth another attempt.  The loop   *)
(* allows two: TypeOK says that the line after it is never reached.        *)
Reread(o) ==
  /\ cyc[o].stage = "reread"
  /\ IF Readable(file) /\ file.rt # cyc[o].base
     THEN Proceed(o, [cyc[o] EXCEPT !.stage = "call", !.base = file.rt, !.last = file.last, !.attempt = @ + 1])
     ELSE Fails(o)
  /\ UNCHANGED <<fileVars, expiry, lost, overtaken>>

(* MUTANT: the file is never found to be newer.                            *)
FileIsNeverNewer(r) == r.stage = "off"

FileIsNewer(r) == file.rt # r.base \/ file.last > r.last

(* MUTANT: a token served from memory is not cached.                       *)
FromMemoryUncached(o, claims) ==
  /\ IF claims THEN EndCycle(o, "ok", 0) ELSE Fails(o)
  /\ lost' = (lost \/ (Rotates /\ file.kind = "unreadable"))

(* claims: an account id is found for the granted access token.            *)
FromMemory(o, claims) ==
  /\ IF claims THEN EndCycle(o, "ok", cyc[o].tok) ELSE Fails(o)
  /\ lost' = (lost \/ (Rotates /\ file.kind = "unreadable"))

PersistUnreadable(o) ==
  /\ cyc[o].stage = "persist"
  /\ ~Readable(file)
  /\ \E claims \in BOOLEAN : FromMemory(o, claims)
  /\ UNCHANGED <<fileVars, expiry, overtaken>>

PersistNewer(o) ==
  /\ cyc[o].stage = "persist"
  /\ Readable(file) /\ FileIsNewer(cyc[o])
  /\ IF file.kind = "good"
     THEN EndCycle(o, "ok", file.at) /\ UNCHANGED lost
     ELSE \E claims \in BOOLEAN : FromMemory(o, claims)
  /\ UNCHANGED <<fileVars, expiry, overtaken>>

PersistMerge(o) ==
  /\ cyc[o].stage = "persist"
  /\ Readable(file) /\ ~FileIsNewer(cyc[o])
  /\ Proceed(o, [cyc[o] EXCEPT !.stage = "write"])
  /\ UNCHANGED <<fileVars, expiry, lost, overtaken>>

(* MUTANT: the merge keeps the old refresh token.                          *)
WriteOldRefreshToken(o) ==
  /\ cyc[o].stage = "write"
  /\ \E claims, written \in BOOLEAN :
       /\ file' = IF written
                  THEN [kind |-> IF claims THEN "good" ELSE "partial", at |-> cyc[o].tok,
                        rt |-> cyc[o].base, last |-> issued]
                  ELSE file
       /\ lost' = (lost \/ (Rotates /\ ~written))
       /\ IF claims THEN EndCycle(o, "ok", cyc[o].tok) ELSE Fails(o)
  /\ overtaken' = FALSE
  /\ UNCHANGED <<issued, live, cli, expiry>>

(* writeAtomic() of the merged file: renamed into place, or not at all.    *)
(* What is returned and cached does not depend on it.                      *)
Write(o) ==
  /\ cyc[o].stage = "write"
  /\ \E claims, written \in BOOLEAN :
       /\ file' = IF written
                  THEN [kind |-> IF claims THEN "good" ELSE "partial", at |-> cyc[o].tok,
                        rt |-> IF Rotates THEN cyc[o].tok ELSE cyc[o].base, last |-> issued]
                  ELSE file
       /\ lost' = (lost \/ (Rotates /\ ~written))
       /\ IF claims THEN EndCycle(o, "ok", cyc[o].tok) ELSE Fails(o)
  /\ overtaken' = FALSE
  /\ UNCHANGED <<issued, live, cli, expiry>>

Refresh(o) ==
  \/ InitialRead(o) \/ Granted(o) \/ GrantLost(o) \/ Unreachable(o) \/ InvalidGrant(o) \/ Reread(o)
  \/ PersistUnreadable(o) \/ PersistNewer(o) \/ PersistMerge(o) \/ Write(o)

(***************************************************************************)
(* The environment.                                                        *)
(***************************************************************************)
Expire(t) ==
  /\ expiry < t /\ t <= issued
  /\ expiry' = t
  /\ UNCHANGED <<fileVars, memory, lost, overtaken>>

CooldownEnds ==
  /\ cooldown
  /\ cooldown' = FALSE
  /\ UNCHANGED <<fileVars, expiry, cached, inflight, forced, callerVars, cyc, lost, overtaken>>

(* There is no lock: the CLI writes whenever it likes.                     *)
Cli ==
  /\ \/ CliRefresh /\ UNCHANGED lost
     \/ CliLogin /\ UNCHANGED lost
     \/ CliWrite /\ lost' = (lost /\ file'.rt \notin live)
     \/ Damage /\ UNCHANGED lost
  /\ overtaken' = (overtaken \/ (file' # file /\ \E o \in Callers : cyc[o].stage = "write"))
  /\ UNCHANGED <<expiry, memory>>

(* The relay is killed and started again.                                  *)
Restart ==
  /\ cached' = 0 /\ inflight' = "none"
  /\ cooldown' = FALSE /\ forced' = "never"
  /\ pc' = [c \in Callers |-> "idle"]
  /\ snap' = [c \in Callers |-> NoSnap]
  /\ joined' = [c \in Callers |-> "none"]
  /\ cyc' = [c \in Callers |-> Idle]
  /\ lost' = (lost \/ (Rotates /\ \E o \in Callers : cyc[o].stage \in {"persist", "write"}))
  /\ overtaken' = FALSE
  /\ UNCHANGED <<fileVars, expiry>>

Step(c) == LoadRead(c) \/ LoadSettle(c) \/ Refresh(c)

Next ==
  \/ \E c \in Callers : GetFromFile(c) \/ ServeCooldown(c) \/ ForceRefresh(c) \/ Step(c)
  \/ \E t \in Tokens : Expire(t)
  \/ CooldownEnds \/ Cli \/ Restart

(* File operations settle; the token endpoint answers or its 15 s timeout   *)
(* fires.                                                                   *)
Fairness == \A c \in Callers : WF_vars(LoadRead(c)) /\ WF_vars(LoadSettle(c)) /\ WF_vars(Refresh(c))

Spec == Init /\ [][Next]_vars /\ Fairness

-----------------------------------------------------------------------------
TypeOK ==
  /\ FileTypeOK
  /\ cached \in 0 .. issued
  /\ expiry \in 0 .. issued
  /\ inflight \in Callers \cup {"none"}
  /\ {cooldown, lost, overtaken} \subseteq BOOLEAN
  /\ forced \in {"never", "running", "ok", "error"}
  /\ pc \in [Callers -> {"idle", "reading", "loaded", "waiting"}]
  /\ snap \in [Callers -> File]
  /\ joined \in [Callers -> Callers \cup {"none"}]
  /\ cyc \in [Callers -> [stage : Stage, base : 0 .. MaxTokens, last : 0 .. MaxTokens,
                          attempt : 0 .. 1, tok : 0 .. MaxTokens]]

(* Two refresh cycles never run at once, so they cannot use up each other's *)
(* refresh token or race to rewrite the file; and whoever waits waits for   *)
(* the one that runs, so no promise is awaited that nothing settles.        *)
SingleFlight ==
  /\ Active = (IF inflight = "none" THEN {} ELSE {inflight})
  /\ \A c \in Callers : pc[c] = "waiting" => joined[c] \in Active

(* Whatever the CLI does meanwhile, a refresh cycle leaves a refresh token  *)
(* on disk that the server still accepts, unless its answer was lost, the   *)
(* write failed or the file was not readable: no forced re-login.           *)
DiskTokenLive ==
  (Readable(file) /\ ~lost /\ cli = 0 /\ \A o \in Callers : cyc[o].stage \notin {"persist", "write"})
    => file.rt \in live

(* Within the cooldown of a forced refresh that succeeded there is always a *)
(* cached token to serve, so no second one reaches the token endpoint.      *)
SuccessIsCached == (forced = "ok" /\ cooldown) => cached # 0

(* codex-auth.ts:227-228: "The cooldown only applies when we have a cached  *)
(* token - if the previous refresh produced no usable credential, we always *)
(* try again."  Not so: lastForcedRefreshMs is set before the refresh has   *)
(* succeeded, and another request may cache the rejected token again.       *)
FailureIsRetried == (forced = "error" /\ cooldown) => cached = 0

(* codex-auth.ts:384-385: "Another process refreshed while we were          *)
(* refreshing; its rotated refresh token must not be clobbered."  Over the  *)
(* awaits of a cycle, its retry included, a write replaces no refresh token *)
(* but the one it was obtained with, unless the file was changed behind the *)
(* last look at it.                                                         *)
RotatedTokenKept ==
  [][\A o \in Callers : (cyc[o].stage = "write" /\ file' # file /\ cyc'[o].stage = "off")
       => file.rt = cyc[o].base \/ overtaken]_vars

(* README.md:610: "If the Codex CLI rotates tokens concurrently, the newer  *)
(* file wins": the same without the exception.  Not so: what the CLI writes *)
(* between persistTokens()'s re-read and its rename is overwritten.         *)
NewerFileWins ==
  [][\A o \in Callers : (cyc[o].stage = "write" /\ file' # file /\ cyc'[o].stage = "off")
       => file.rt = cyc[o].base]_vars

(* Every call of getCredentials() and forceRefresh() returns.               *)
EveryCallReturns == \A c \in Callers : pc[c] # "idle" ~> pc[c] = "idle"

=================================================================================
