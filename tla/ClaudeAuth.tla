------------------------------- MODULE ClaudeAuth -------------------------------
(***************************************************************************)
(* ClaudeAuthManager, src/src/claude-auth.ts: no cache, every call reads   *)
(* the native credential store; one refresh at a time, which reads the     *)
(* store again before and after it asks the server; forced refreshes       *)
(* within the cooldown only read the store.                                *)
(*                                                                         *)
(* A step is what runs between two awaits.  The store is a file or the     *)
(* keychain; its writes are all or nothing.                                *)
(***************************************************************************)
EXTENDS CredentialFile, FiniteSets

CONSTANTS
  Callers,    (* concurrent requests                                        *)
  CliRaces    (* whether Claude Code may write between performRefresh()'s   *)
              (* last read and its write                                    *)

ASSUME RaceAssumption == CliRaces \in BOOLEAN
ASSUME CallersAssumption == "none" \notin Callers

VARIABLES
  soon,       (* access tokens up to this one expire within EXPIRY_SKEW_MS  *)
  over,       (* access tokens up to this one have expired                  *)
  refresh,    (* the owner of the refresh in flight, or "none"              *)
  cooldown,   (* less than FORCED_REFRESH_COOLDOWN_MS since lastForced      *)
  lastAccess, (* the access token served last, or 0                         *)
  pc,         (* where each caller stands                                   *)
  snap,       (* the store as each caller read it                           *)
  joined,     (* the owner of the refresh each caller awaits                *)
  got,        (* HISTORY: the access token each request was served last     *)
  cyc,        (* the refresh each caller owns                               *)
  lost        (* HISTORY: a rotated refresh token exists nowhere on disk    *)

clock == <<soon, over>>
callerVars == <<pc, snap, joined, got>>
memory == <<refresh, cooldown, lastAccess, callerVars, cyc>>
vars == <<fileVars, clock, memory, lost>>

Expired(f) == f.at <= over
NoSnap == [kind |-> "unreadable", at |-> 1, rt |-> 1, last |-> 1]
Off == [stage |-> "off", base |-> NoSnap, attempt |-> 0, tok |-> 0]
Stage == {"off", "start", "call", "answered", "refused", "write"}
Active == {c \in Callers : cyc[c].stage # "off"}

Init ==
  /\ FileInit
  /\ soon = 0 /\ over = 0
  /\ refresh = "none" /\ cooldown = FALSE /\ lastAccess = 0
  /\ pc = [c \in Callers |-> "idle"]
  /\ snap = [c \in Callers |-> NoSnap]
  /\ joined = [c \in Callers |-> "none"]
  /\ got = [c \in Callers |-> 0]
  /\ cyc = [c \in Callers |-> Off]
  /\ lost = FALSE

Goto(c, where) == pc' = [pc EXCEPT ![c] = where]

(* remember(): the caller gets access token t.                             *)
Served(c, t) ==
  /\ Goto(c, "idle")
  /\ got' = [got EXCEPT ![c] = t]
  /\ lastAccess' = t

Failed(c) ==
  /\ Goto(c, "idle")
  /\ got' = [got EXCEPT ![c] = 0]
  /\ UNCHANGED lastAccess

Await(c, o) ==
  /\ Goto(c, "waiting")
  /\ joined' = [joined EXCEPT ![c] = o]

(* refreshOnce(): join the refresh in flight or start one from what was    *)
(* read.                                                                   *)
RefreshOnce(c, initial) ==
  /\ IF refresh = "none"
     THEN /\ Await(c, c)
          /\ refresh' = c
          /\ cyc' = [cyc EXCEPT ![c] = [Off EXCEPT !.stage = "start", !.base = initial]]
     ELSE Await(c, refresh) /\ UNCHANGED <<refresh, cyc>>
  /\ UNCHANGED <<got, lastAccess>>

(***************************************************************************)
(* getCredentials() and forceRefresh()                                     *)
(***************************************************************************)
GetCredentials(c) ==
  /\ pc[c] = "idle"
  /\ Goto(c, "get")
  /\ got' = [got EXCEPT ![c] = 0]
  /\ UNCHANGED <<fileVars, clock, refresh, cooldown, lastAccess, snap, joined, cyc, lost>>

(* The upstream rejected the token the caller was served.                  *)
ForceRefresh(c) ==
  /\ pc[c] = "idle" /\ got[c] # 0
  /\ \/ /\ refresh # "none"
        /\ Await(c, refresh)
        /\ UNCHANGED cooldown
     \/ /\ refresh = "none" /\ cooldown
        /\ Goto(c, "get")
        /\ UNCHANGED <<cooldown, joined>>
     \/ /\ refresh = "none" /\ ~cooldown
        /\ cooldown' = TRUE
        /\ Goto(c, "force")
        /\ UNCHANGED joined
  /\ UNCHANGED <<fileVars, clock, refresh, lastAccess, snap, got, cyc, lost>>

StoreRead(c) ==
  /\ \/ pc[c] = "get" /\ Goto(c, "gotten")
     \/ pc[c] = "force" /\ Goto(c, "forced")
  /\ snap' = [snap EXCEPT ![c] = file]
  /\ UNCHANGED <<fileVars, clock, refresh, cooldown, lastAccess, joined, got, cyc, lost>>

Usable(f) == f.at > soon \/ (f.kind = "partial" /\ ~Expired(f))

GetSettle(c) ==
  /\ pc[c] = "gotten"
  /\ \/ /\ ~Readable(snap[c])
        /\ Failed(c)
        /\ UNCHANGED <<joined, refresh, cyc>>
     \/ /\ Readable(snap[c]) /\ Usable(snap[c])
        /\ Served(c, snap[c].at)
        /\ UNCHANGED <<joined, refresh, cyc>>
     \/ /\ Readable(snap[c]) /\ ~Usable(snap[c])
        /\ RefreshOnce(c, snap[c])
  /\ snap' = [snap EXCEPT ![c] = NoSnap]
  /\ UNCHANGED <<fileVars, clock, cooldown, lost>>

(* A token that is not the one served last was rotated by somebody else.   *)
Rotated(f) == lastAccess # 0 /\ f.at # lastAccess /\ ~Expired(f)

ForceSettle(c) ==
  /\ pc[c] = "forced"
  /\ \/ /\ ~Readable(snap[c])
        /\ Failed(c)
        /\ UNCHANGED <<joined, refresh, cyc>>
     \/ /\ Readable(snap[c]) /\ Rotated(snap[c])
        /\ Served(c, snap[c].at)
        /\ UNCHANGED <<joined, refresh, cyc>>
     \/ /\ Readable(snap[c]) /\ ~Rotated(snap[c])
        /\ RefreshOnce(c, snap[c])
  /\ snap' = [snap EXCEPT ![c] = NoSnap]
  /\ UNCHANGED <<fileVars, clock, cooldown, lost>>

(***************************************************************************)
(* performRefresh(), run by the owner of the refresh.                      *)
(***************************************************************************)
(* The promise settles: finally() clears it and everybody who awaits it    *)
(* goes on, with access token t or, when t = 0, an error.                  *)
End(o, t) ==
  LET awake == {c \in Callers : pc[c] = "waiting" /\ joined[c] = o} IN
  /\ cyc' = [cyc EXCEPT ![o] = Off]
  /\ refresh' = "none"
  /\ pc' = [c \in Callers |-> IF c \in awake THEN "idle" ELSE pc[c]]
  /\ got' = [c \in Callers |-> IF c \in awake THEN t ELSE got[c]]
  /\ joined' = [c \in Callers |-> IF c \in awake THEN "none" ELSE joined[c]]
  /\ lastAccess' = IF t = 0 THEN lastAccess ELSE t
  /\ UNCHANGED <<cooldown, snap>>

Proceed(o, r) ==
  /\ cyc' = [cyc EXCEPT ![o] = r]
  /\ UNCHANGED <<refresh, cooldown, lastAccess, callerVars>>

(* Somebody else's unexpired token is adopted.                             *)
Replaced(o) == file.at # cyc[o].base.at /\ ~Expired(file)

(* The loop asks the server with r, or gives up without a refresh token.   *)
Ask(o, attempt) ==
  IF file.kind = "good"
  THEN Proceed(o, [Off EXCEPT !.stage = "call", !.base = file, !.attempt = attempt])
  ELSE End(o, 0)

Start(o) ==
  /\ cyc[o].stage = "start"
  /\ CASE ~Readable(file) -> End(o, 0)
       [] Readable(file) /\ Replaced(o) -> End(o, file.at)
       [] OTHER -> Ask(o, 0)
  /\ UNCHANGED <<fileVars, clock, lost>>

Answered(o) ==
  /\ cyc[o].stage = "call"
  /\ Grant(cyc[o].base.rt)
  /\ Proceed(o, [cyc[o] EXCEPT !.stage = "answered", !.tok = issued'])
  /\ UNCHANGED <<file, cli, clock, lost>>

(* The server granted, but the answer is lost, late or malformed.          *)
AnswerLost(o) ==
  /\ cyc[o].stage = "call"
  /\ Grant(cyc[o].base.rt)
  /\ End(o, 0)
  /\ lost' = (lost \/ Rotates)
  /\ UNCHANGED <<file, cli, clock>>

Unreachable(o) ==
  /\ cyc[o].stage = "call"
  /\ End(o, 0)
  /\ UNCHANGED <<fileVars, clock, lost>>

(* An error status, because the refresh token was used up or otherwise.    *)
Refused(o) ==
  /\ cyc[o].stage = "call"
  /\ Proceed(o, [cyc[o] EXCEPT !.stage = "refused"])
  /\ UNCHANGED <<fileVars, clock, lost>>

RefusedSettle(o) ==
  /\ cyc[o].stage = "refused"
  /\ CASE ~Readable(file) -> End(o, 0)
       [] Readable(file) /\ Replaced(o) -> End(o, file.at)
       [] OTHER -> IF cyc[o].attempt = 0 /\ file.kind = "good" /\ file.rt # cyc[o].base.rt
                   THEN Ask(o, cyc[o].attempt + 1)
                   ELSE End(o, 0)
  /\ UNCHANGED <<fileVars, clock, lost>>

(* MUTANT: the store is written without looking at what it holds now.      *)
AnsweredSettleBlind(o) ==
  /\ cyc[o].stage = "answered"
  /\ \/ /\ ~Readable(file)
        /\ End(o, 0)
        /\ lost' = (lost \/ Rotates)
     \/ /\ Readable(file)
        /\ Proceed(o, [cyc[o] EXCEPT !.stage = "write"])
        /\ UNCHANGED lost
  /\ UNCHANGED <<fileVars, clock>>

AnsweredSettle(o) ==
  /\ cyc[o].stage = "answered"
  /\ \/ /\ ~Readable(file)
        /\ End(o, 0)
        /\ lost' = (lost \/ Rotates)
     \/ /\ Readable(file) /\ Replaced(o)
        /\ End(o, file.at)
        /\ UNCHANGED lost
     \/ /\ Readable(file) /\ ~Replaced(o)
        /\ Proceed(o, [cyc[o] EXCEPT !.stage = "write"])
        /\ UNCHANGED lost
  /\ UNCHANGED <<fileVars, clock>>

(* MUTANT: the old refresh token is written back.                          *)
WriteOldRefreshToken(o) ==
  /\ cyc[o].stage = "write"
  /\ \E written, reported \in BOOLEAN :
       /\ reported => written
       /\ file' = IF written
                  THEN [kind |-> "good", at |-> cyc[o].tok, last |-> issued, rt |-> cyc[o].base.rt]
                  ELSE file
       /\ lost' = (lost \/ (Rotates /\ ~written))
       /\ End(o, IF reported THEN cyc[o].tok ELSE 0)
  /\ UNCHANGED <<issued, live, cli, clock>>

(* A write that fails, or cannot be verified, ends in an error.            *)
Write(o) ==
  /\ cyc[o].stage = "write"
  /\ \E written, reported \in BOOLEAN :
       /\ reported => written
       /\ file' = IF written
                  THEN [kind |-> "good", at |-> cyc[o].tok, last |-> issued,
                        rt |-> IF Rotates THEN cyc[o].tok ELSE cyc[o].base.rt]
                  ELSE file
       /\ lost' = (lost \/ (Rotates /\ ~written))
       /\ End(o, IF reported THEN cyc[o].tok ELSE 0)
  /\ UNCHANGED <<issued, live, cli, clock>>

PerformRefresh(o) ==
  \/ Start(o) \/ Answered(o) \/ AnswerLost(o) \/ Unreachable(o) \/ Refused(o)
  \/ RefusedSettle(o) \/ AnsweredSettle(o) \/ Write(o)

(***************************************************************************)
(* The environment.                                                        *)
(***************************************************************************)
Expire(t) ==
  /\ t <= issued
  /\ \/ soon < t /\ soon' = t /\ UNCHANGED over
     \/ over < t /\ t <= soon /\ over' = t /\ UNCHANGED soon
  /\ UNCHANGED <<fileVars, memory, lost>>

CooldownEnds ==
  /\ cooldown
  /\ cooldown' = FALSE
  /\ UNCHANGED <<fileVars, clock, refresh, lastAccess, callerVars, cyc, lost>>

Quiet == CliRaces \/ \A o \in Callers : cyc[o].stage # "write"

Cli ==
  /\ \/ CliRefresh /\ UNCHANGED lost
     \/ CliLogin /\ UNCHANGED lost
     \/ Quiet /\ CliWrite /\ lost' = (lost /\ file'.rt \notin live)
     \/ Quiet /\ Damage /\ UNCHANGED lost
  /\ UNCHANGED <<clock, memory>>

Call(c) == GetCredentials(c) \/ ForceRefresh(c)
Step(c) == StoreRead(c) \/ GetSettle(c) \/ ForceSettle(c) \/ PerformRefresh(c)

Next ==
  \/ \E c \in Callers : Call(c) \/ Step(c)
  \/ \E t \in Tokens : Expire(t)
  \/ CooldownEnds \/ Cli

Spec == Init /\ [][Next]_vars

-----------------------------------------------------------------------------
TypeOK ==
  /\ FileTypeOK
  /\ soon \in 0 .. issued /\ over \in 0 .. soon
  /\ refresh \in Callers \cup {"none"}
  /\ {cooldown, lost} \subseteq BOOLEAN
  /\ lastAccess \in 0 .. issued
  /\ pc \in [Callers -> {"idle", "get", "gotten", "force", "forced", "waiting"}]
  /\ snap \in [Callers -> File]
  /\ joined \in [Callers -> Callers \cup {"none"}]
  /\ got \in [Callers -> 0 .. issued]
  /\ cyc \in [Callers -> [stage : Stage, base : File, attempt : 0 .. 1, tok : 0 .. issued]]

(* One refresh at a time, and whoever waits waits for the one that runs.    *)
SingleFlight ==
  /\ Active = (IF refresh = "none" THEN {} ELSE {refresh})
  /\ \A c \in Callers : pc[c] = "waiting" => joined[c] \in Active

(* A refresh leaves a refresh token in the store that the server accepts,   *)
(* unless its answer was lost, the write failed or the store was locked.    *)
StoredTokenLive ==
  (Readable(file) /\ ~lost /\ cli = 0 /\ \A o \in Callers : cyc[o].stage \notin {"answered", "write"})
    => file.rt \in live

(* Concurrent callers never cost the login: they share one refresh, and     *)
(* what it leaves in the store can be refreshed again.                      *)
RefreshIsSafe == TypeOK /\ SingleFlight /\ StoredTokenLive

(* test/unit/claude-auth.test.ts:33, "adopts external rotation after        *)
(* rejection without overwriting native credentials": a refresh never       *)
(* overwrites an unexpired credential that was stored while it ran.         *)
NativeRotationKept ==
  [][\A o \in Callers :
       (cyc[o].stage = "write" /\ file' # file /\ cyc'[o].stage = "off" /\ ~Expired(file))
         => file.at = cyc[o].base.at]_vars

=================================================================================
