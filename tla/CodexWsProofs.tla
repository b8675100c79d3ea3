------------------------------ MODULE CodexWsProofs ------------------------------
(***************************************************************************)
(* The safety properties of codex-ws.ts: of CodexUpgrade for any set of    *)
(* client sockets, of raw and of refreshable ones, and any limit, with the *)
(* proof that the upgrades use the budget the way it is meant to be used;  *)
(* and of CodexBridge for any set of streams, any number of Claude requests*)
(* and of upstream messages.  The invariant of the budget comes from       *)
(* WebSocketBudgetProofs.                                                  *)
(***************************************************************************)
EXTENDS CodexUpgrade, CodexBridge, SequenceTheorems, FiniteSetTheorems, TLAPS

BP == INSTANCE WebSocketBudgetProofs

(***************************************************************************)
(* The inductive invariant: that of the budget, and for each socket where  *)
(* its upgrade stands, who has to hear of its end and whether its client   *)
(* was answered.  The phase of the budget and the stage of the upgrade     *)
(* move in different components; that they keep step is what puts a socket *)
(* in one registry and keeps the second run() from queueing.               *)
(***************************************************************************)
Typed ==
  /\ stage \in [Sockets -> Stage]
  /\ up \in [Sockets -> Connection]
  /\ stale \in [Sockets -> Connection]
  /\ pending \subseteq Sockets /\ clients \subseteq Sockets /\ tunnels \subseteq Sockets
  /\ answers \in [Sockets -> Nat]

(* The stage of an upgrade that is still to run, or runs on, tells how far  *)
(* the budget has taken its socket.                                         *)
InStep(s) ==
  /\ stage[s] = "new" => phase[s] = "new"
  /\ phase[s] = "queued" => stage[s] = "line"
  /\ stage[s] \in {"auth", "dial", "refresh", "bridged"} => phase[s] = "started"

(* Which collection holds the socket, and that a living socket is in one.   *)
Registered(s) ==
  /\ s \in pending => phase[s] = "started" /\ stage[s] # "bridged"
  /\ s \in clients => phase[s] = "started" /\ stage[s] = "bridged"
  /\ s \in tunnels => phase[s] = "reentered"
  /\ (Open(s) /\ ~closed) =>
       /\ phase[s] = "started" => s \in pending \cup clients
       /\ phase[s] = "reentered" => s \in tunnels

(* Who closes the upstream connection when the client is gone.              *)
Followed(s) ==
  up[s] \in Live =>
    /\ sock[s] = "gone" => s \in clients
    /\ stage[s] = "bridged" => s \in clients

Unanswered == {"new", "line", "auth", "dial", "refresh", "rawDial", "dropped"}
AnsweredOnce(s) ==
  /\ answers[s] <= 1
  /\ stage[s] \in Unanswered => answers[s] = 0

Local(s) == InStep(s) /\ Registered(s) /\ Followed(s) /\ AnsweredOnce(s)

IInv ==
  /\ BP!IInv
  /\ Typed
  /\ \A s \in Sockets : Local(s)

(***************************************************************************)
(* The budget of CodexUpgrade is the one of WebSocketBudgetProofs.         *)
(***************************************************************************)
LEMMA SameInit == Budget!Init => BP!Init
BY DEF Budget!Init, BP!Init

LEMMA SameStep == [Budget!Next]_budgetVars => [BP!Next]_(BP!vars)
<1>1. ASSUME NEW S PROVE Budget!Destroy(S) = BP!Destroy(S)
  BY DEF Budget!Destroy, BP!Destroy
<1>2. ASSUME NEW q, NEW s PROVE Budget!Without(q, s) = BP!Without(q, s)
  BY DEF Budget!Without, BP!Without, Budget!ToSet, BP!ToSet, Budget!RemoveAt, BP!RemoveAt
<1>3. Budget!Waiting = BP!Waiting
  BY DEF Budget!Waiting, BP!Waiting, Budget!ToSet, BP!ToSet
<1>4. Budget!HasRoom = BP!HasRoom
  BY DEF Budget!HasRoom, BP!HasRoom, Budget!Cardinality, BP!Cardinality
<1>5. \A s \in Sockets : Budget!Run(s) = BP!Run(s)
  BY <1>1, <1>3 DEF Budget!Run, BP!Run, Budget!RunRefused, BP!RunRefused, Budget!RunReentrant,
    BP!RunReentrant, Budget!RunQueued, BP!RunQueued, Budget!MayRun, BP!MayRun
<1>6. Budget!Drain = BP!Drain
  BY <1>1, <1>4 DEF Budget!Drain, BP!Drain, Budget!DrainSkip, BP!DrainSkip, Budget!DrainStart,
    BP!DrainStart, Budget!DrainStop, BP!DrainStop
<1>7. \A s \in Sockets : Budget!SocketDestroyed(s) = BP!SocketDestroyed(s)
  BY <1>1 DEF Budget!SocketDestroyed, BP!SocketDestroyed
<1>8. \A s \in Sockets : Budget!SocketClose(s) = BP!SocketClose(s)
  BY <1>2 DEF Budget!SocketClose, BP!SocketClose
<1>9. Budget!Close = BP!Close
  BY <1>1, <1>3 DEF Budget!Close, BP!Close
<1>10. QED
  BY <1>5, <1>6, <1>7, <1>8, <1>9 DEF Budget!Next, BP!Next, BP!vars, budgetVars

(* The invariant of the budget is kept by each of its steps.                *)
LEMMA BudgetKept ==
  ASSUME BP!IInv, [Budget!Next]_budgetVars PROVE BP!IInv'
BY SlotAssumption, SameStep, BP!NextIInv

(* What the upgrades need to know of the budget.                            *)
BudgetSays ==
  /\ active \subseteq Sockets
  /\ closed \in BOOLEAN /\ draining \in BOOLEAN
  /\ sock \in [Sockets -> {"open", "destroyed", "gone"}]
  /\ phase \in [Sockets -> {"new", "refused", "queued", "started", "reentered"}]
  /\ waiting # <<>> => Head(waiting) \in Sockets /\ phase[Head(waiting)] = "queued"
  /\ \A s \in Sockets :
       /\ s \in active => phase[s] \in {"started", "reentered"}
       /\ (~closed /\ Open(s) /\ phase[s] \in {"started", "reentered"}) => s \in active

LEMMA BudgetFacts == BP!IInv => BudgetSays
<1> SUFFICES ASSUME BP!IInv PROVE BudgetSays
  OBVIOUS
<1>1. /\ active \subseteq Sockets /\ waiting \in Seq(Sockets) /\ BP!Distinct(waiting)
      /\ closed \in BOOLEAN /\ draining \in BOOLEAN
      /\ sock \in [Sockets -> {"open", "destroyed", "gone"}]
      /\ phase \in [Sockets -> {"new", "refused", "queued", "started", "reentered"}]
  BY DEF BP!IInv, BP!TypeOK, BP!SockState, BP!PhaseState
<1>2. ASSUME waiting # <<>> PROVE Head(waiting) \in Sockets /\ phase[Head(waiting)] = "queued"
  <2>1. Head(waiting) \in Sockets /\ Head(waiting) \in BP!ToSet(waiting)
    BY <1>1, <1>2, SlotAssumption, BP!TailOfLine
  <2>2. BP!InPlace(Head(waiting)) /\ Head(waiting) \in BP!Waiting
    BY <2>1 DEF BP!IInv, BP!Waiting
  <2>3. QED
    BY <2>1, <2>2 DEF BP!InPlace
<1>3. ASSUME NEW s \in Sockets
      PROVE  /\ s \in active => phase[s] \in {"started", "reentered"}
             /\ (~closed /\ Open(s) /\ phase[s] \in {"started", "reentered"}) => s \in active
  <2>1. BP!InPlace(s)
    BY DEF BP!IInv
  <2>2. QED
    BY <2>1 DEF BP!InPlace, Open
<1>4. QED
  BY <1>1, <1>2, <1>3 DEF BudgetSays

LEMMA InitIInv == Init => IInv
<1> SUFFICES ASSUME Init PROVE IInv
  OBVIOUS
<1>1. BP!IInv
  BY SlotAssumption, SameInit, BP!InitIInv DEF Init
<1>2. phase = [s \in Sockets |-> "new"] /\ sock = [s \in Sockets |-> "open"]
  BY DEF Init, Budget!Init
<1>3. Typed
  BY DEF Init, Typed, Stage, Connection
<1>4. ASSUME NEW s \in Sockets PROVE Local(s)
  BY <1>2 DEF Init, Local, InStep, Registered, Followed, AnsweredOnce, Live
<1>5. QED
  BY <1>1, <1>3, <1>4 DEF IInv

(***************************************************************************)
(* A step of one socket leaves the others as they are.                     *)
(***************************************************************************)
Same(t) ==
  /\ stage'[t] = stage[t] /\ up'[t] = up[t] /\ answers'[t] = answers[t]
  /\ phase'[t] = phase[t] /\ sock'[t] = sock[t]
  /\ (t \in pending' <=> t \in pending)
  /\ (t \in clients' <=> t \in clients)
  /\ (t \in tunnels' <=> t \in tunnels)

LEMMA OthersKept ==
  ASSUME \A t \in Sockets : Local(t), closed' = closed,
         NEW s \in Sockets, \A t \in Sockets \ {s} : Same(t), Local(s)'
  PROVE  \A t \in Sockets : Local(t)'
<1> SUFFICES ASSUME NEW t \in Sockets, t # s PROVE Local(t)'
  OBVIOUS
<1>1. Local(t) /\ Same(t)
  OBVIOUS
<1>2. QED
  BY <1>1 DEF Same, Local, InStep, Registered, Followed, AnsweredOnce, Open

(* A callback that moves the upgrade of one socket on, answers it or not,   *)
(* and touches neither the budget nor a registry.                           *)
LEMMA MovesOn ==
  ASSUME IInv, NEW s \in Sockets, UNCHANGED <<budgetVars, registries>>,
         NEW st \in Stage, stage' = [stage EXCEPT ![s] = st],
         NEW u \in Connection, up' = [up EXCEPT ![s] = u],
         stale' \in [Sockets -> Connection],
         Answer(s) \/ UNCHANGED answers,
         st = stage[s] \/ (st \notin {"new", "bridged"} /\ stage[s] \notin {"line", "bridged"}),
         st \in {"auth", "dial", "refresh"} => phase[s] = "started",
         st \in Unanswered => stage[s] \in Unanswered /\ UNCHANGED answers,
         stage[s] \in Unanswered \/ UNCHANGED answers,
         u \in Live => up[s] \in Live \/ (Open(s) /\ st # "bridged")
  PROVE  IInv'
<1>1. /\ UNCHANGED <<active, waiting, closed, draining, sock, phase>>
      /\ UNCHANGED <<pending, clients, tunnels>>
  BY DEF budgetVars, registries
<1>2. BP!IInv'
  BY BudgetKept DEF IInv
<1>3. answers' \in [Sockets -> Nat] /\ \A t \in Sockets \ {s} : answers'[t] = answers[t]
  BY DEF Answer, IInv, Typed
<1>4. Typed'
  BY <1>1, <1>3 DEF IInv, Typed
<1>5. \A t \in Sockets \ {s} : Same(t)
  BY <1>1, <1>3 DEF Same, IInv, Typed
<1>6. Local(s)'
  <2>1. Local(s) /\ stage'[s] = st /\ up'[s] = u
    BY DEF IInv, Typed
  <2>2. InStep(s)'
    BY <1>1, <2>1 DEF Local, InStep
  <2>3. Registered(s)'
    BY <1>1, <2>1 DEF Local, Registered, Open
  <2>4. Followed(s)'
    BY <1>1, <2>1 DEF Local, Followed, Open
  <2>5. AnsweredOnce(s)'
    <3>1. CASE UNCHANGED answers
      BY <2>1, <3>1 DEF Local, AnsweredOnce
    <3>2. CASE Answer(s) /\ ~UNCHANGED answers
      <4>1. answers'[s] \in {answers[s], answers[s] + 1}
        BY <3>2 DEF Answer, IInv, Typed
      <4>2. answers[s] = 0 /\ st \notin Unanswered
        BY <2>1, <3>2 DEF Local, AnsweredOnce
      <4>3. QED
        BY <2>1, <4>1, <4>2 DEF AnsweredOnce
    <3>3. QED
      BY <3>1, <3>2
  <2>6. QED
    BY <2>2, <2>3, <2>4, <2>5 DEF Local
<1>7. \A t \in Sockets : Local(t)'
  BY <1>1, <1>5, <1>6, OthersKept DEF IInv
<1>8. QED
  BY <1>2, <1>4, <1>7 DEF IInv

(* The steps of a socket's upgrade that only move it on.                    *)
Moves(s) ==
  \/ TurnAway(s) \/ HeadersTooLate(s) \/ Dial(s) \/ Reject(s)
  \/ Unauthorized(s) \/ Unexpected(s) \/ RelayEnds(s) \/ UpstreamError(s)
  \/ RawUpgraded(s) \/ RawUnexpected(s) \/ RawFail(s)
  \/ UpstreamClosed(s) \/ StaleClosed(s)

LEMMA MovesIInv ==
  ASSUME IInv, NEW s \in Sockets, Moves(s) PROVE IInv'
<1>0. /\ Local(s) /\ stage[s] \in Stage /\ up[s] \in Connection
      /\ [stage EXCEPT ![s] = stage[s]] = stage /\ [up EXCEPT ![s] = up[s]] = up
      /\ stale \in [Sockets -> Connection]
  BY DEF IInv, Typed
<1>1. UNCHANGED <<budgetVars, registries>>
  BY DEF Moves, TurnAway, HeadersTooLate, Dial, Reject, Unauthorized, Unexpected, RelayEnds,
         UpstreamError, RawUpgraded, RawUnexpected, RawFail, UpstreamClosed, StaleClosed
<1>2. stale' \in [Sockets -> Connection]
  BY <1>0 DEF Moves, TurnAway, HeadersTooLate, Dial, Reject, Unauthorized, Unexpected, RelayEnds,
         UpstreamError, RawUpgraded, RawUnexpected, RawFail, UpstreamClosed, StaleClosed,
         Becomes, Connection
<1>3. CASE TurnAway(s)
  BY <1>0, <1>1, <1>2, <1>3, MovesOn DEF TurnAway, Becomes, Stage, Unanswered
<1>4. CASE HeadersTooLate(s)
  BY <1>0, <1>1, <1>2, <1>4, MovesOn DEF HeadersTooLate, Awaiting, Becomes, Stage, Unanswered
<1>5. CASE Dial(s)
  BY <1>0, <1>1, <1>2, <1>5, MovesOn
    DEF Dial, Awaiting, StillWanted, Becomes, Stage, Connection, Unanswered, Local, InStep
<1>6. CASE Reject(s)
  BY <1>0, <1>1, <1>2, <1>6, MovesOn DEF Reject, Awaiting, Becomes, Stage, Unanswered
<1>7. CASE Unauthorized(s)
  BY <1>0, <1>1, <1>2, <1>7, MovesOn
    DEF Unauthorized, Dialing, Becomes, Stage, Connection, Live, Unanswered, Local, InStep
<1>8. CASE Unexpected(s)
  BY <1>0, <1>1, <1>2, <1>8, MovesOn DEF Unexpected, Dialing, Becomes, Stage, Unanswered
<1>9. CASE RelayEnds(s)
  BY <1>0, <1>1, <1>2, <1>9, MovesOn DEF RelayEnds, Becomes, Connection, Live, Unanswered
<1>10. CASE UpstreamError(s)
  BY <1>0, <1>1, <1>2, <1>10, MovesOn
    DEF UpstreamError, Dialing, Becomes, Stage, Connection, Live, Unanswered
<1>11. CASE RawUpgraded(s)
  BY <1>0, <1>1, <1>2, <1>11, MovesOn
    DEF RawUpgraded, DialingRaw, Becomes, Stage, Connection, Live, Unanswered
<1>12. CASE RawUnexpected(s)
  BY <1>0, <1>1, <1>2, <1>12, MovesOn
    DEF RawUnexpected, DialingRaw, Becomes, Stage, Connection, Live, Unanswered
<1>13. CASE RawFail(s)
  BY <1>0, <1>1, <1>2, <1>13, MovesOn
    DEF RawFail, DialingRaw, Becomes, Stage, Connection, Live, Unanswered
<1>14. CASE UpstreamClosed(s)
  <2>1. CASE stage[s] = "dial"
    BY <1>0, <1>1, <1>2, <1>14, <2>1, MovesOn
      DEF UpstreamClosed, Becomes, Stage, Connection, Live, Unanswered
  <2>2. CASE stage[s] # "dial"
    BY <1>0, <1>1, <1>2, <1>14, <2>2, MovesOn
      DEF UpstreamClosed, Becomes, Connection, Live, Unanswered, Local, InStep
  <2>3. QED
    BY <2>1, <2>2
<1>15. CASE StaleClosed(s)
  BY <1>0, <1>1, <1>2, <1>15, MovesOn DEF StaleClosed, Becomes, Unanswered, Local, InStep
<1>16. QED
  BY <1>3, <1>4, <1>5, <1>6, <1>7, <1>8, <1>9, <1>10, <1>11, <1>12, <1>13, <1>14, <1>15 DEF Moves

(***************************************************************************)
(* The steps that also move the budget or a registry.                      *)
(***************************************************************************)
(* A step of the budget inside a step of an upgrade.                        *)
LEMMA BudgetStep ==
  ASSUME BP!IInv, Budget!Next PROVE BP!IInv'
BY BudgetKept

LEMMA UpgradeIInv ==
  ASSUME IInv, NEW s \in Sockets, Upgrade(s) PROVE IInv'
<1>0. BudgetSays /\ Local(s)
  BY BudgetFacts DEF IInv
<1>1. /\ stage[s] = "new" /\ phase[s] = "new" /\ Budget!Run(s)
      /\ stage' = [stage EXCEPT ![s] = IF phase'[s] = "refused" THEN "dropped" ELSE "line"]
      /\ UNCHANGED <<up, stale, pending, clients, tunnels, answers>>
  BY <1>0 DEF Upgrade, Becomes, registries, Local, InStep
<1>2. BP!IInv'
  BY <1>1, BudgetStep DEF Budget!Next, IInv
<1>3. s \notin active
  BY <1>0, <1>1 DEF BudgetSays
<1>4. /\ closed' = closed
      /\ \E v \in {"refused", "queued"} : phase' = [phase EXCEPT ![s] = v]
      /\ \A t \in Sockets : t # s => sock'[t] = sock[t]
      /\ sock'[s] = "gone" <=> sock[s] = "gone"
  <2>1. CASE Budget!RunRefused(s)
    BY <1>0, <1>1, <2>1 DEF Budget!RunRefused, Budget!Destroy, BudgetSays
  <2>2. CASE Budget!RunQueued(s)
    BY <2>2 DEF Budget!RunQueued
  <2>3. QED
    BY <1>1, <1>3, <2>1, <2>2 DEF Budget!Run, Budget!RunReentrant
<1>5. Typed'
  BY <1>1 DEF IInv, Typed, Stage
<1>6. \A t \in Sockets \ {s} : Same(t)
  BY <1>0, <1>1, <1>4 DEF Same, IInv, Typed, BudgetSays
<1>7. Local(s)'
  <2>1. stage'[s] \in {"dropped", "line"} /\ phase'[s] \in {"refused", "queued"}
    BY <1>0, <1>1, <1>4 DEF IInv, Typed, BudgetSays
  <2>2. QED
    BY <1>0, <1>1, <1>4, <2>1
      DEF Local, InStep, Registered, Followed, AnsweredOnce, Unanswered, Open, Live
<1>8. QED
  BY <1>2, <1>4, <1>5, <1>6, <1>7, OthersKept DEF IInv

LEMMA DrainIInv ==
  ASSUME IInv, Drain PROVE IInv'
<1>0. BudgetSays
  BY BudgetFacts DEF IInv
<1>1. BP!IInv'
  BY BudgetStep DEF Drain, Admitted, DrainGoesOn, Budget!Next, Budget!Drain, IInv
<1>2. CASE Admitted
  <2>0. PICK h : h = Head(waiting)
    OBVIOUS
  <2>1. /\ waiting # <<>> /\ sock[h] = "open" /\ phase' = [phase EXCEPT ![h] = "started"]
        /\ closed' = closed /\ sock' = sock
        /\ stage' = [stage EXCEPT ![h] = "auth"] /\ pending' = pending \cup {h}
        /\ UNCHANGED <<up, stale, clients, tunnels, answers>>
    BY <1>2, <2>0 DEF Admitted, Budget!DrainStart, Becomes
  <2>2. h \in Sockets /\ phase[h] = "queued"
    BY <1>0, <2>0, <2>1 DEF BudgetSays
  <2>3. Typed'
    BY <2>1, <2>2 DEF IInv, Typed, Stage
  <2>4. \A t \in Sockets \ {h} : Same(t)
    BY <1>0, <2>1 DEF Same, IInv, Typed, BudgetSays
  <2>5. Local(h)'
    <3>1. /\ stage'[h] = "auth" /\ phase'[h] = "started" /\ h \in pending'
          /\ h \notin clients' /\ h \notin tunnels' /\ sock'[h] = "open"
      BY <1>0, <2>1, <2>2 DEF IInv, Typed, BudgetSays, Local, Registered
    <3>2. answers[h] = 0 /\ answers'[h] = answers[h]
      BY <2>1, <2>2 DEF IInv, Local, InStep, AnsweredOnce, Unanswered
    <3>3. QED
      BY <3>1, <3>2 DEF Local, InStep, Registered, Followed, AnsweredOnce, Unanswered
  <2>6. QED
    BY <1>1, <2>1, <2>2, <2>3, <2>4, <2>5, OthersKept DEF IInv
<1>3. CASE DrainGoesOn
  <2>1. /\ UNCHANGED <<closed, sock, phase>>
        /\ UNCHANGED <<stage, up, stale, pending, clients, tunnels, answers>>
    BY <1>3 DEF DrainGoesOn, Budget!DrainSkip, Budget!DrainStop, registries
  <2>2. Typed' /\ \A t \in Sockets : Local(t)'
    BY <2>1 DEF IInv, Typed, Local, InStep, Registered, Followed, AnsweredOnce, Open
  <2>3. QED
    BY <1>1, <2>2 DEF IInv
<1>4. QED
  BY <1>2, <1>3 DEF Drain

(* The raw passthrough calls run() for a socket that holds its slot, so it  *)
(* never queues behind itself; its registration moves on in the same step.  *)
LEMMA DialRawIInv ==
  ASSUME IInv, NEW s \in Sockets, DialRaw(s) PROVE IInv'
<1>0. BudgetSays /\ Local(s)
  BY BudgetFacts DEF IInv
<1>1. /\ stage[s] \in {"auth", "refresh"} /\ ~closed /\ Open(s) /\ Budget!Run(s)
      /\ stage' = [stage EXCEPT ![s] = "rawDial"] /\ up' = [up EXCEPT ![s] = "connecting"]
      /\ pending' = pending \ {s} /\ tunnels' = tunnels \cup {s}
      /\ UNCHANGED <<stale, clients, answers>>
  BY DEF DialRaw, Awaiting, StillWanted, Becomes
<1>2. BP!IInv'
  BY <1>1, BudgetStep DEF Budget!Next, IInv
<1>3. phase[s] = "started" /\ s \in active
  BY <1>0, <1>1 DEF Local, InStep, BudgetSays
<1>4. UNCHANGED <<closed, sock>> /\ phase' = [phase EXCEPT ![s] = "reentered"]
  BY <1>1, <1>3 DEF Budget!Run, Budget!RunRefused, Budget!RunReentrant, Budget!RunQueued, Open
<1>5. Typed'
  BY <1>1 DEF IInv, Typed, Stage, Connection
<1>6. \A t \in Sockets \ {s} : Same(t)
  BY <1>0, <1>1, <1>4 DEF Same, IInv, Typed, BudgetSays
<1>7. Local(s)'
  <2>1. /\ stage'[s] = "rawDial" /\ phase'[s] = "reentered" /\ sock'[s] = "open"
        /\ s \in tunnels' /\ s \notin pending' /\ s \notin clients'
        /\ answers'[s] = answers[s] /\ answers[s] = 0
    BY <1>0, <1>1, <1>4
      DEF IInv, Typed, BudgetSays, Local, Registered, AnsweredOnce, Unanswered, Open
  <2>2. QED
    BY <2>1 DEF Local, InStep, Registered, Followed, AnsweredOnce
<1>8. QED
  BY <1>2, <1>4, <1>5, <1>6, <1>7, OthersKept DEF IInv

LEMMA UpstreamOpenIInv ==
  ASSUME IInv, NEW s \in Sockets, UpstreamOpen(s) PROVE IInv'
<1>0. /\ Local(s) /\ stage[s] = "dial" /\ up[s] = "connecting" /\ phase[s] = "started"
      /\ [stage EXCEPT ![s] = stage[s]] = stage
      /\ UNCHANGED budgetVars /\ UNCHANGED stale /\ stale \in [Sockets -> Connection]
  BY DEF UpstreamOpen, Dialing, IInv, Typed, Local, InStep
<1>1. CASE ~Open(s)
  BY <1>0, <1>1, MovesOn DEF UpstreamOpen, Becomes, Stage, Connection, Live, Unanswered
<1>2. CASE /\ Open(s) /\ up' = [up EXCEPT ![s] = "open"] /\ stage' = [stage EXCEPT ![s] = "bridged"]
           /\ pending' = pending \ {s} /\ clients' = clients \cup {s} /\ Answer(s)
           /\ UNCHANGED tunnels
  <2>1. UNCHANGED <<active, waiting, closed, draining, sock, phase>>
    BY <1>0 DEF budgetVars
  <2>2. BP!IInv'
    BY <1>0, BudgetKept DEF IInv
  <2>3. answers' = [answers EXCEPT ![s] = answers[s] + 1] /\ answers[s] = 0
    BY <1>0, <1>2 DEF Answer, Local, AnsweredOnce, Unanswered
  <2>4. Typed'
    BY <1>0, <1>2, <2>3 DEF IInv, Typed, Stage, Connection
  <2>5. \A t \in Sockets \ {s} : Same(t)
    BY <1>2, <2>1, <2>3 DEF Same, IInv, Typed
  <2>6. Local(s)'
    <3>1. /\ stage'[s] = "bridged" /\ phase'[s] = "started" /\ s \in clients' /\ s \notin pending'
          /\ s \notin tunnels' /\ answers'[s] = 1
      BY <1>0, <1>2, <2>1, <2>3 DEF IInv, Typed, Local, Registered
    <3>2. QED
      BY <3>1 DEF Local, InStep, Registered, Followed, AnsweredOnce, Unanswered
  <2>7. QED
    BY <2>1, <2>2, <2>4, <2>5, <2>6, OthersKept DEF IInv
<1>3. CASE /\ Open(s) /\ up' = [up EXCEPT ![s] = "open"] /\ stage' = [stage EXCEPT ![s] = "rejected"]
           /\ Answer(s) /\ UNCHANGED registries
  BY <1>0, <1>3, MovesOn DEF Stage, Connection, Live, Unanswered
<1>4. QED
  BY <1>1, <1>2, <1>3 DEF UpstreamOpen, Becomes, registries

(* A socket that is torn down keeps everything until its 'close'.           *)
LEMMA TornDown ==
  ASSUME IInv, NEW s \in Sockets, BP!IInv', UNCHANGED <<closed, phase>>,
         sock' = Budget!Destroy({s}),
         UNCHANGED <<stage, stale, pending, clients, tunnels, answers>>,
         up' = up \/ up' = [up EXCEPT ![s] = "closed"]
  PROVE  IInv'
<1>0. BudgetSays /\ Local(s)
  BY BudgetFacts DEF IInv
<1>1. /\ \A t \in Sockets : t # s => sock'[t] = sock[t]
      /\ sock'[s] = "gone" <=> sock[s] = "gone"
      /\ sock'[s] # "open"
  BY <1>0 DEF Budget!Destroy, BudgetSays
<1>2. Typed' /\ up'[s] \in {up[s], "closed"}
  BY DEF IInv, Typed, Connection
<1>3. \A t \in Sockets \ {s} : Same(t)
  BY <1>1 DEF Same, IInv, Typed
<1>4. Local(s)'
  BY <1>0, <1>1, <1>2 DEF Local, InStep, Registered, Followed, AnsweredOnce, Open, Live
<1>5. QED
  BY <1>2, <1>3, <1>4, OthersKept DEF IInv

LEMMA SocketDestroyedIInv ==
  ASSUME IInv, NEW s \in Sockets, SocketDestroyed(s) PROVE IInv'
<1>1. BP!IInv'
  BY BudgetStep DEF SocketDestroyed, Budget!Next, IInv
<1>2. QED
  BY <1>1, TornDown DEF SocketDestroyed, Budget!SocketDestroyed, registries

(* The passthrough tears down the client of a broken connection: for the    *)
(* budget its socket is destroyed, or was already.                          *)
LEMMA RawLostBudget ==
  ASSUME BudgetSays, NEW s \in Sockets, RawLost(s)
  PROVE  [Budget!Next]_budgetVars
<1>1. /\ ~draining /\ sock' = Budget!Destroy({s})
      /\ UNCHANGED <<active, waiting, closed, draining, phase>>
  BY DEF RawLost
<1>2. CASE sock[s] = "open"
  BY <1>1, <1>2 DEF Budget!Next, Budget!SocketDestroyed
<1>3. CASE sock[s] # "open"
  <2>1. sock' = sock
    BY <1>1, <1>3 DEF Budget!Destroy, BudgetSays
  <2>2. QED
    BY <1>1, <2>1 DEF budgetVars
<1>4. QED
  BY <1>2, <1>3

LEMMA RawLostIInv ==
  ASSUME IInv, NEW s \in Sockets, RawLost(s) PROVE IInv'
<1>1. BP!IInv'
  BY RawLostBudget, BudgetFacts, BudgetKept DEF IInv
<1>2. QED
  BY <1>1, TornDown DEF RawLost, Becomes, registries

LEMMA SocketCloseIInv ==
  ASSUME IInv, NEW s \in Sockets, SocketClose(s) PROVE IInv'
<1>0. BudgetSays /\ Local(s)
  BY BudgetFacts DEF IInv
<1>1. BP!IInv'
  BY BudgetStep DEF SocketClose, Budget!Next, IInv
<1>2. /\ sock' = [sock EXCEPT ![s] = "gone"] /\ UNCHANGED <<closed, phase>>
      /\ pending' = pending \ {s} /\ tunnels' = tunnels \ {s}
      /\ up' = [up EXCEPT ![s] = IF stage[s] = "bridged" THEN up[s] ELSE Closing(up[s])]
      /\ UNCHANGED <<stage, stale, clients, answers>>
  BY DEF SocketClose, Budget!SocketClose, Becomes
<1>3. Typed'
  BY <1>2 DEF IInv, Typed, Closing, Connection
<1>4. \A t \in Sockets \ {s} : Same(t)
  BY <1>0, <1>2 DEF Same, IInv, Typed, BudgetSays
<1>5. Local(s)'
  <2>1. sock'[s] = "gone" /\ s \notin pending' /\ s \notin tunnels'
    BY <1>0, <1>2 DEF BudgetSays
  <2>2. up'[s] \in Live => stage[s] = "bridged" /\ up[s] \in Live
    BY <1>2 DEF IInv, Typed, Closing, Live, Connection
  <2>3. QED
    BY <1>0, <1>2, <2>1, <2>2 DEF Local, InStep, Registered, Followed, AnsweredOnce, Open
<1>6. QED
  BY <1>1, <1>2, <1>3, <1>4, <1>5, OthersKept DEF IInv

LEMMA ClientCloseIInv ==
  ASSUME IInv, NEW s \in Sockets, ClientClose(s) PROVE IInv'
<1>1. /\ sock[s] = "gone" /\ clients' = clients \ {s} /\ up' = [up EXCEPT ![s] = Closing(up[s])]
      /\ UNCHANGED <<active, waiting, closed, draining, sock, phase>>
      /\ UNCHANGED <<stage, stale, pending, tunnels, answers>>
  BY DEF ClientClose, Becomes, budgetVars
<1>2. BP!IInv'
  BY <1>1, BudgetKept DEF IInv, budgetVars
<1>3. Typed'
  BY <1>1 DEF IInv, Typed, Closing, Connection
<1>4. \A t \in Sockets \ {s} : Same(t)
  BY <1>1 DEF Same, IInv, Typed
<1>5. Local(s)'
  <2>1. Local(s) /\ up'[s] \notin Live
    BY <1>1 DEF IInv, Typed, Closing, Live, Connection
  <2>2. QED
    BY <1>1, <2>1 DEF Local, InStep, Registered, Followed, AnsweredOnce, Open
<1>6. QED
  BY <1>1, <1>2, <1>3, <1>4, <1>5, OthersKept DEF IInv

(* Every living socket in a registry holds a slot, so that the registries   *)
(* add nothing to what the shutdown of the budget destroys.                 *)
LEMMA CloseBudget ==
  ASSUME IInv, Close PROVE Budget!Close
<1>0. BudgetSays
  BY BudgetFacts DEF IInv
<1>1. ASSUME NEW s \in Sockets, sock[s] = "open", s \in pending \cup clients \cup tunnels
      PROVE  s \in active
  BY <1>0, <1>1 DEF Close, IInv, Local, Registered, BudgetSays, Open
<1>2. Budget!Destroy(pending \cup clients \cup tunnels \cup active \cup Budget!Waiting)
      = Budget!Destroy(active \cup Budget!Waiting)
  BY <1>1 DEF Budget!Destroy
<1>3. QED
  BY <1>2 DEF Close, Budget!Close

LEMMA CloseIInv ==
  ASSUME IInv, Close PROVE IInv'
<1>0. BudgetSays
  BY BudgetFacts DEF IInv
<1>1. BP!IInv'
  BY CloseBudget, BudgetStep DEF Budget!Next, IInv
<1>2. /\ closed' = TRUE /\ up' = [s \in Sockets |-> Closing(up[s])]
      /\ UNCHANGED <<phase, stage, stale, pending, clients, tunnels, answers>>
  BY DEF Close, registries
<1>3. Typed'
  BY <1>2 DEF IInv, Typed, Closing, Connection
<1>4. ASSUME NEW s \in Sockets PROVE Local(s)'
  <2>1. Local(s) /\ up'[s] \notin Live
    BY <1>2 DEF IInv, Typed, Closing, Live, Connection
  <2>2. QED
    BY <1>2, <2>1 DEF Local, InStep, Registered, Followed, AnsweredOnce
<1>5. QED
  BY <1>1, <1>3, <1>4 DEF IInv

LEMMA NextIInv == IInv /\ [Next]_vars => IInv'
<1> SUFFICES ASSUME IInv, [Next]_vars PROVE IInv'
  OBVIOUS
<1>1. ASSUME NEW s \in Sockets, Moves(s) PROVE IInv'
  BY <1>1, MovesIInv
<1>2. ASSUME NEW s \in Sockets, Upgrade(s) PROVE IInv'
  BY <1>2, UpgradeIInv
<1>3. ASSUME NEW s \in Sockets, DialRaw(s) PROVE IInv'
  BY <1>3, DialRawIInv
<1>4. ASSUME NEW s \in Sockets, UpstreamOpen(s) PROVE IInv'
  BY <1>4, UpstreamOpenIInv
<1>5. ASSUME NEW s \in Sockets, RawLost(s) PROVE IInv'
  BY <1>5, RawLostIInv
<1>6. ASSUME NEW s \in Sockets, SocketDestroyed(s) PROVE IInv'
  BY <1>6, SocketDestroyedIInv
<1>7. ASSUME NEW s \in Sockets, SocketClose(s) PROVE IInv'
  BY <1>7, SocketCloseIInv
<1>8. ASSUME NEW s \in Sockets, ClientClose(s) PROVE IInv'
  BY <1>8, ClientCloseIInv
<1>9. ASSUME Drain PROVE IInv'
  BY <1>9, DrainIInv
<1>10. ASSUME Close PROVE IInv'
  BY <1>10, CloseIInv
<1>11. CASE UNCHANGED vars
  <2>1. /\ UNCHANGED <<active, waiting, closed, draining, sock, phase>>
        /\ UNCHANGED <<stage, up, stale, pending, clients, tunnels, answers>>
    BY <1>11 DEF vars
  <2>2. BP!IInv'
    BY <2>1, BudgetKept DEF IInv, budgetVars
  <2>3. Typed' /\ \A s \in Sockets : Local(s)'
    BY <2>1 DEF IInv, Typed, Local, InStep, Registered, Followed, AnsweredOnce, Open
  <2>4. QED
    BY <2>2, <2>3 DEF IInv
<1>12. QED
  BY <1>1, <1>2, <1>3, <1>4, <1>5, <1>6, <1>7, <1>8, <1>9, <1>10, <1>11
    DEF Next, HeadersSettle, Handshake, Ending, Moves

LEMMA Invariance == Spec => []IInv
BY InitIInv, NextIInv, PTL DEF Spec

(***************************************************************************)
(* The theorems.                                                           *)
(***************************************************************************)
(* No client reads two responses: the handshake, the relayed rejection and  *)
(* every local error that races with them write at most one between them.   *)
THEOREM AnsweredAtMostOnce == Spec => []OneAnswer
<1>1. IInv => OneAnswer
  BY DEF IInv, Local, AnsweredOnce, OneAnswer
<1>2. QED
  BY <1>1, Invariance, PTL

LEMMA OneOfThree ==
  ASSUME NEW s, IInv, s \in Sockets, phase[s] \in {"started", "reentered"}, Open(s), ~closed
  PROVE  Cardinality({i \in 1 .. 3 : s \in registries[i]}) = 1
<1>1. Registered(s)
  BY DEF IInv, Local
<1>2. registries[1] = pending /\ registries[2] = clients /\ registries[3] = tunnels
  BY DEF registries
<1>3. \E k \in 1 .. 3 : {i \in 1 .. 3 : s \in registries[i]} = {k}
  <2>1. CASE s \in pending
    <3>1. s \notin clients /\ s \notin tunnels
      BY <1>1, <2>1 DEF Registered
    <3>2. {i \in 1 .. 3 : s \in registries[i]} = {1}
      BY <1>2, <2>1, <3>1
    <3>3. QED
      BY <3>2
  <2>2. CASE s \in clients
    <3>1. s \notin pending /\ s \notin tunnels
      BY <1>1, <2>2 DEF Registered
    <3>2. {i \in 1 .. 3 : s \in registries[i]} = {2}
      BY <1>2, <2>2, <3>1
    <3>3. QED
      BY <3>2
  <2>3. CASE s \in tunnels
    <3>1. s \notin pending /\ s \notin clients
      BY <1>1, <2>3 DEF Registered
    <3>2. {i \in 1 .. 3 : s \in registries[i]} = {3}
      BY <1>2, <2>3, <3>1
    <3>3. QED
      BY <3>2
  <2>4. QED
    BY <1>1, <2>1, <2>2, <2>3 DEF Registered
<1>4. QED
  BY <1>3, FS_Singleton

(* Nothing an upgrade has opened is out of reach: each is in exactly one    *)
(* registry that close() walks, whatever it awaits, and an upstream         *)
(* connection does not outlive its client unnoticed.                        *)
THEOREM NothingEscapes == Spec => []NothingOutOfReach
<1>1. IInv => NoOrphanUpstream
  BY DEF IInv, Local, Followed, NoOrphanUpstream
<1>2. IInv => InOneRegistry
  BY OneOfThree DEF InOneRegistry
<1>3. QED
  BY <1>1, <1>2, Invariance, PTL DEF NothingOutOfReach

(* Every step of the upgrades is one of the budget's or leaves it alone: in *)
(* particular a shutdown that walks all the registries destroys exactly     *)
(* what a shutdown of the budget destroys.                                  *)
THEOREM UsesTheBudget == Spec => ImplementsBudget
<1>1. Init => Budget!Init
  BY DEF Init
<1>2. IInv /\ [Next]_vars => [Budget!Next]_budgetVars
  <2> SUFFICES ASSUME IInv, [Next]_vars PROVE [Budget!Next]_budgetVars
    OBVIOUS
  <2>1. ASSUME NEW s \in Sockets, Upgrade(s) \/ DialRaw(s) \/ SocketDestroyed(s) \/ SocketClose(s)
        PROVE  Budget!Next
    BY <2>1 DEF Upgrade, DialRaw, SocketDestroyed, SocketClose, Budget!Next
  <2>2. ASSUME NEW s \in Sockets, RawLost(s) PROVE [Budget!Next]_budgetVars
    BY <2>2, RawLostBudget, BudgetFacts DEF IInv
  <2>3. ASSUME NEW s \in Sockets, Moves(s) \/ UpstreamOpen(s) \/ ClientClose(s)
        PROVE  UNCHANGED budgetVars
    BY <2>3 DEF Moves, TurnAway, HeadersTooLate, Dial, Reject, Unauthorized, Unexpected, RelayEnds,
       UpstreamError, RawUpgraded, RawUnexpected, RawFail, UpstreamClosed, StaleClosed,
       UpstreamOpen, ClientClose
  <2>4. ASSUME Drain PROVE Budget!Next
    BY <2>4 DEF Drain, Admitted, DrainGoesOn, Budget!Next, Budget!Drain
  <2>5. ASSUME Close PROVE Budget!Next
    BY <2>5, CloseBudget DEF Budget!Next
  <2>6. CASE UNCHANGED vars
    BY <2>6 DEF vars, budgetVars
  <2>7. QED
    BY <2>1, <2>2, <2>3, <2>4, <2>5, <2>6 DEF Next, HeadersSettle, Handshake, Ending, Moves
<1>3. QED
  BY <1>1, <1>2, Invariance, PTL DEF Spec, ImplementsBudget, BudgetNext

(* The upgrades inherit what the budget promises: never more than Limit     *)
(* upgraded sockets hold a slot, whatever the handshakes, refreshes, raw    *)
(* handovers and teardowns do in between, none holds one that is gone,      *)
(* nobody waits beside a free slot, and the shutdown of the gateway leaves  *)
(* no admitted socket open.                                                 *)
THEOREM UpgradesKeepTheBudget ==
  Spec => [](/\ Budget!BoundHolds /\ Budget!NoLeakedSlot /\ Budget!StartedHoldsSlot
             /\ Budget!NoIdleSlot /\ Budget!ClosedMeansDestroyed)
<1>1. IInv => Budget!BoundHolds
  BY DEF IInv, BP!IInv, BP!Slotted, Budget!BoundHolds, BP!Cardinality, Budget!Cardinality
<1>2. IInv => Budget!StartedHoldsSlot
  BY DEF IInv, BP!IInv, BP!InPlace, Budget!StartedHoldsSlot
<1>3. IInv => Budget!NoIdleSlot
  BY DEF IInv, BP!IInv, BP!NoIdleSlot, Budget!NoIdleSlot, BP!HasRoom, Budget!HasRoom,
         BP!Cardinality, Budget!Cardinality
<1>4. IInv => Budget!ClosedMeansDestroyed
  BY DEF IInv, BP!IInv, BP!TypeOK, BP!PhaseState, BP!InPlace, BP!Accepted, BP!Emptied,
         Budget!ClosedMeansDestroyed
<1>5. IInv => Budget!NoLeakedSlot
  <2> SUFFICES ASSUME IInv PROVE Budget!NoLeakedSlot
    OBVIOUS
  <2>1. active \subseteq Sockets /\ Budget!Waiting \subseteq Sockets
    BY ElementOfSeq, LenProperties DEF IInv, BP!IInv, BP!TypeOK, Budget!Waiting, Budget!ToSet
  <2>2. QED
    BY <2>1 DEF IInv, BP!IInv, BP!InPlace, BP!Waiting, BP!ToSet, Budget!NoLeakedSlot, Budget!Waiting, Budget!ToSet
<1>6. QED
  BY <1>1, <1>2, <1>3, <1>4, <1>5, Invariance, PTL

(***************************************************************************)
(* The bridge.                                                             *)
(***************************************************************************)
(***************************************************************************)
(* The inductive invariant.  The bookkeeping of the bridge is in three     *)
(* places, and the two ends of the connection abort through two different  *)
(* ones: the client's 'close' walks `active`, the shutdown walks the       *)
(* gateway's controllers.  Both reach every generation only because each   *)
(* running one is entered in both.                                         *)
(***************************************************************************)
SocketsTyped ==
  /\ client \in {"open", "closing", "closed"}
  /\ upstream \in {"open", "closed"}
  /\ shutdown \in BOOLEAN

ClaudeTyped ==
  /\ DOMAIN names \subseteq Names
  /\ state \in [Requests -> {"unused", "started", "announced", "ended"}]
  /\ stream \in [Requests -> Streams \cup {"none"}]
  /\ aborted \in [Requests -> BOOLEAN]

(* A running generation is found under the stream it was asked on, and     *)
(* under its response id once that is announced.                           *)
FoundByName ==
  \A n \in Running :
    /\ stream[n] \in Streams
    /\ stream[n] \in DOMAIN names /\ names[stream[n]] = n
    /\ state[n] = "announced" => ResponseId(n) \in DOMAIN names /\ names[ResponseId(n)] = n

(* Nothing is started once the gateway's shutdown has closed the client.   *)
ShutdownCloses == shutdown => client # "open"

ClaudeInv ==
  /\ SocketsTyped
  /\ ClaudeTyped
  /\ NamesAreLive
  /\ FoundByName
  /\ controllers = Running
  /\ ShutdownCloses
  /\ NobodyRunsUntold

QueueInv ==
  /\ received \in Nat
  /\ responseQueue \in Seq(Nat)
  /\ delivered \in Seq(Nat)
  /\ paused \in BOOLEAN
  /\ UpstreamIsRelayed

BridgeInv == ClaudeInv /\ QueueInv

LEMMA InitBridgeInv == BridgeInit => BridgeInv
<1> SUFFICES ASSUME BridgeInit PROVE BridgeInv
  OBVIOUS
<1>1. Running = {} /\ DOMAIN names = {}
  BY DEF BridgeInit, Running
<1>2. ClaudeInv
  BY <1>1 DEF BridgeInit, ClaudeInv, SocketsTyped, ClaudeTyped, NamesAreLive, FoundByName,
              ShutdownCloses, NobodyRunsUntold
<1>3. QueueInv
  <2>1. <<>> \o <<>> = [i \in 1 .. 0 |-> i]
    OBVIOUS
  <2>2. UpstreamOrder
    BY <2>1 DEF BridgeInit, UpstreamOrder
  <2>3. <<>> \in Seq(Nat)
    OBVIOUS
  <2>4. QED
    BY <2>2, <2>3 DEF BridgeInit, QueueInv, UpstreamIsRelayed, NeverPausedForGood
<1>4. QED
  BY <1>2, <1>3 DEF BridgeInv

(***************************************************************************)
(* The order of the upstream's messages.                                   *)
(***************************************************************************)
(* What is appended to the end of the line is the end of the whole.         *)
LEMMA AppendAtTheEnd ==
  ASSUME NEW S, NEW s \in Seq(S), NEW t \in Seq(S), NEW e \in S
  PROVE  s \o Append(t, e) = Append(s \o t, e)
<1>1. <<e>> \in Seq(S)
  OBVIOUS
<1>2. s \o t \in Seq(S)
  BY ConcatProperties
<1>3. Append(t, e) = t \o <<e>> /\ Append(s \o t, e) = (s \o t) \o <<e>>
  BY <1>2, AppendIsConcat
<1>4. QED
  BY <1>1, <1>3, ConcatAssociative

(* The head of the line moves to what is done, and the whole is the same.   *)
LEMMA HeadMovesOver ==
  ASSUME NEW S, NEW s \in Seq(S), NEW t \in Seq(S), t # <<>>
  PROVE  Append(s, Head(t)) \o Tail(t) = s \o t
<1>1. Head(t) \in S /\ Tail(t) \in Seq(S) /\ <<Head(t)>> \in Seq(S)
  BY HeadTailProperties
<1>2. <<Head(t)>> \o Tail(t) = t
  OBVIOUS
<1>3. Append(s, Head(t)) = s \o <<Head(t)>>
  BY <1>1, AppendIsConcat
<1>4. QED
  BY <1>1, <1>2, <1>3, ConcatAssociative

LEMMA UpstreamMessageQueue ==
  ASSUME QueueInv, UpstreamMessage PROVE QueueInv'
<1>1. received' = received + 1 /\ responseQueue' = Append(responseQueue, received + 1)
      /\ delivered' = delivered /\ paused' = TRUE /\ upstream' = upstream
  BY DEF UpstreamMessage, claudeVars, queueVars
<1>2. received + 1 \in Nat /\ responseQueue' \in Seq(Nat) /\ responseQueue' # <<>>
  BY <1>1, AppendProperties DEF QueueInv
<1>3. delivered' \o responseQueue' = Append([i \in 1 .. received |-> i], received + 1)
  <2>1. delivered \o Append(responseQueue, received + 1)
        = Append(delivered \o responseQueue, received + 1)
    BY ONLY QueueInv, <1>2, AppendAtTheEnd DEF QueueInv
  <2>2. QED
    BY <1>1, <2>1 DEF QueueInv, UpstreamIsRelayed, UpstreamOrder
<1>4. Append([i \in 1 .. received |-> i], received + 1) = [i \in 1 .. received + 1 |-> i]
  BY DEF QueueInv
<1>5. UpstreamOrder'
  BY <1>1, <1>3, <1>4 DEF UpstreamOrder
<1>6. NeverPausedForGood'
  BY <1>2 DEF NeverPausedForGood
<1>7. QED
  BY <1>1, <1>2, <1>5, <1>6 DEF QueueInv, UpstreamIsRelayed

LEMMA DeliverQueue ==
  ASSUME QueueInv, Deliver PROVE QueueInv'
<1>1. /\ delivered' = Append(delivered, Head(responseQueue))
      /\ responseQueue' = Tail(responseQueue) /\ responseQueue # <<>>
      /\ paused' = (paused /\ ~(responseQueue' = <<>> /\ upstream = "open"))
      /\ received' = received /\ upstream' = upstream
  BY DEF Deliver, claudeVars, queueVars
<1>2. Head(responseQueue) \in Nat /\ responseQueue' \in Seq(Nat)
  BY <1>1, HeadTailProperties DEF QueueInv
<1>3. delivered' \in Seq(Nat)
  BY <1>1, <1>2, AppendProperties DEF QueueInv
<1>4. delivered' \o responseQueue' = delivered \o responseQueue
  BY <1>1, HeadMovesOver DEF QueueInv
<1>5. UpstreamOrder'
  BY <1>1, <1>4 DEF QueueInv, UpstreamIsRelayed, UpstreamOrder
<1>6. paused' \in BOOLEAN
  BY <1>1
<1>7. NeverPausedForGood'
  BY <1>1 DEF NeverPausedForGood
<1>8. QED
  BY <1>1, <1>2, <1>3, <1>5, <1>6, <1>7 DEF QueueInv, UpstreamIsRelayed

(* Every other step leaves the queue alone; the upstream may only close.    *)
LEMMA OtherQueue ==
  ASSUME QueueInv, UNCHANGED <<received, responseQueue, delivered, paused>>,
         upstream' \in {upstream, "closed"}
  PROVE  QueueInv'
BY DEF QueueInv, UpstreamIsRelayed, UpstreamOrder, NeverPausedForGood

(***************************************************************************)
(* The generations and their three registers.                              *)
(***************************************************************************)
(* A step that aborts what it names, or nothing, and starts nothing.        *)
LEMMA SameGenerations ==
  ASSUME ClaudeInv, UNCHANGED <<names, state, stream, controllers>>,
         aborted' \in [Requests -> BOOLEAN],
         \A n \in Requests : aborted[n] => aborted'[n],
         SocketsTyped', ShutdownCloses',
         client' = "closed" \/ shutdown' =>
           client = "closed" \/ shutdown \/ \A n \in Running : aborted'[n]
  PROVE  ClaudeInv'
<1>1. Running' = Running
  BY DEF Running
<1>2. ClaudeTyped' /\ NamesAreLive' /\ FoundByName' /\ (controllers = Running)'
  BY <1>1 DEF ClaudeInv, ClaudeTyped, NamesAreLive, FoundByName
<1>3. NobodyRunsUntold'
  BY <1>1 DEF ClaudeInv, NobodyRunsUntold, Running
<1>4. QED
  BY <1>2, <1>3 DEF ClaudeInv

LEMMA CreateClaudeInv ==
  ASSUME ClaudeInv, NEW n \in Requests, NEW s \in Streams, CreateClaude(n, s)
  PROVE  ClaudeInv'
<1>1. /\ client = "open" /\ shutdown = FALSE /\ state[n] = "unused" /\ s \notin DOMAIN names
      /\ UNCHANGED <<client, upstream, shutdown, aborted>>
  BY DEF CreateClaude, Listening, ClaudeInv, SocketsTyped
<1>2. /\ state' = [state EXCEPT ![n] = "started"] /\ stream' = [stream EXCEPT ![n] = s]
      /\ controllers' = controllers \cup {n}
  BY DEF CreateClaude, claudeVars, queueVars
<1>3. /\ DOMAIN names' = DOMAIN names \cup {s} /\ names'[s] = n
      /\ \A x \in DOMAIN names : names'[x] = names[x]
  BY <1>1 DEF CreateClaude, claudeVars, queueVars
<1>4. Running' = Running \cup {n} /\ n \notin Running
  BY <1>1, <1>2 DEF Running, ClaudeInv, ClaudeTyped
<1>5. ClaudeTyped'
  BY <1>1, <1>2, <1>3 DEF ClaudeInv, ClaudeTyped, Names
<1>6. NamesAreLive'
  BY <1>3, <1>4 DEF ClaudeInv, NamesAreLive
<1>7. FoundByName'
  <2> SUFFICES ASSUME NEW m \in Running'
               PROVE  /\ stream'[m] \in Streams
                      /\ stream'[m] \in DOMAIN names' /\ names'[stream'[m]] = m
                      /\ state'[m] = "announced" => ResponseId(m) \in DOMAIN names' /\ names'[ResponseId(m)] = m
    BY DEF FoundByName, ResponseId
  <2>1. CASE m = n
    BY <1>2, <1>3, <2>1 DEF ClaudeInv, ClaudeTyped
  <2>2. CASE m # n
    <3>1. m \in Running /\ stream'[m] = stream[m] /\ state'[m] = state[m]
      BY <1>2, <1>4, <2>2 DEF ClaudeInv, ClaudeTyped
    <3>2. QED
      BY <1>3, <3>1 DEF ClaudeInv, FoundByName
  <2>3. QED
    BY <2>1, <2>2
<1>8. SocketsTyped' /\ ShutdownCloses' /\ NobodyRunsUntold' /\ controllers' = Running'
  BY <1>1, <1>2, <1>4 DEF ClaudeInv, SocketsTyped, ShutdownCloses, NobodyRunsUntold
<1>9. QED
  BY <1>5, <1>6, <1>7, <1>8 DEF ClaudeInv

LEMMA AnnounceInv ==
  ASSUME ClaudeInv, NEW n \in Requests, Announce(n) PROVE ClaudeInv'
<1>1. /\ state[n] = "started" /\ state' = [state EXCEPT ![n] = "announced"]
      /\ UNCHANGED <<client, upstream, shutdown, stream, aborted, controllers>>
  BY DEF Announce, claudeVars, queueVars
<1>2. /\ DOMAIN names' = DOMAIN names \cup {ResponseId(n)} /\ names'[ResponseId(n)] = n
      /\ \A x \in DOMAIN names : x # ResponseId(n) => names'[x] = names[x]
  BY DEF Announce, claudeVars, queueVars
<1>3. n \in Running /\ Running' = Running
  BY <1>1 DEF Running, ClaudeInv, ClaudeTyped
<1>4. ClaudeTyped'
  BY <1>1, <1>2 DEF ClaudeInv, ClaudeTyped, Names
<1>5. NamesAreLive'
  BY <1>2, <1>3 DEF ClaudeInv, NamesAreLive
<1>6. FoundByName'
  <2> SUFFICES ASSUME NEW m \in Running
               PROVE  /\ stream[m] \in Streams
                      /\ stream[m] \in DOMAIN names' /\ names'[stream[m]] = m
                      /\ state'[m] = "announced" => ResponseId(m) \in DOMAIN names' /\ names'[ResponseId(m)] = m
    BY <1>1, <1>3 DEF FoundByName, ResponseId
  <2>1. stream[m] \in Streams /\ stream[m] # ResponseId(n)
    BY FreshAssumption DEF ClaudeInv, FoundByName
  <2>2. stream[m] \in DOMAIN names' /\ names'[stream[m]] = m
    BY <1>2, <2>1 DEF ClaudeInv, FoundByName
  <2>3. ASSUME state'[m] = "announced"
        PROVE  ResponseId(m) \in DOMAIN names' /\ names'[ResponseId(m)] = m
    <3>1. CASE m = n
      BY <1>2, <3>1
    <3>2. CASE m # n
      <4>1. state[m] = "announced" /\ ResponseId(m) # ResponseId(n)
        BY <1>1, <2>3, <3>2 DEF ResponseId, Running, ClaudeInv, ClaudeTyped
      <4>2. QED
        BY <1>2, <4>1 DEF ClaudeInv, FoundByName
    <3>3. QED
      BY <3>1, <3>2
  <2>4. QED
    BY <2>1, <2>2, <2>3
<1>7. SocketsTyped' /\ ShutdownCloses' /\ NobodyRunsUntold' /\ controllers' = Running'
  BY <1>1, <1>3 DEF ClaudeInv, SocketsTyped, ShutdownCloses, NobodyRunsUntold
<1>8. QED
  BY <1>4, <1>5, <1>6, <1>7 DEF ClaudeInv

LEMMA FinishInv ==
  ASSUME ClaudeInv, NEW n \in Requests, Finish(n) PROVE ClaudeInv'
<1>1. /\ n \in Running /\ state' = [state EXCEPT ![n] = "ended"] /\ controllers' = controllers \ {n}
      /\ UNCHANGED <<client, upstream, shutdown, stream, aborted>>
  BY DEF Finish, claudeVars, queueVars
<1>2. /\ DOMAIN names' = {x \in DOMAIN names : names[x] # n}
      /\ \A x \in DOMAIN names' : names'[x] = names[x]
  BY DEF Finish, Restrict
<1>3. Running' = Running \ {n}
  BY <1>1 DEF Running, ClaudeInv, ClaudeTyped
<1>4. ClaudeTyped'
  BY <1>1, <1>2 DEF ClaudeInv, ClaudeTyped
<1>5. NamesAreLive'
  BY <1>2, <1>3 DEF ClaudeInv, NamesAreLive
<1>6. FoundByName'
  <2>1. ASSUME NEW m \in Running' PROVE m \in Running /\ m # n /\ state'[m] = state[m]
    BY <1>1, <1>3, <2>1 DEF Running, ClaudeInv, ClaudeTyped
  <2>2. QED
    BY <1>1, <1>2, <2>1 DEF ClaudeInv, FoundByName, ResponseId
<1>7. SocketsTyped' /\ ShutdownCloses' /\ NobodyRunsUntold' /\ controllers' = Running'
  BY <1>1, <1>3 DEF ClaudeInv, SocketsTyped, ShutdownCloses, NobodyRunsUntold
<1>8. QED
  BY <1>4, <1>5, <1>6, <1>7 DEF ClaudeInv

(* A cancel aborts the generation it names.                                 *)
LEMMA CancelInv ==
  ASSUME ClaudeInv, NEW x, Cancel(x) PROVE ClaudeInv'
<1>1. /\ UNCHANGED <<names, state, stream, controllers, client, upstream, shutdown>>
      /\ aborted' = [m \in Requests |-> aborted[m] \/ m \in {names[x]}]
  BY DEF Cancel, Abort
<1>2. aborted' \in [Requests -> BOOLEAN] /\ \A m \in Requests : aborted[m] => aborted'[m]
  BY <1>1
<1>3. SocketsTyped' /\ ShutdownCloses'
  BY <1>1 DEF ClaudeInv, SocketsTyped, ShutdownCloses
<1>4. QED
  BY <1>1, <1>2, <1>3, SameGenerations

(* The client's 'close' aborts what `active` names: every running one.      *)
LEMMA ClientClosedInv ==
  ASSUME ClaudeInv, ClientClosed PROVE ClaudeInv'
<1>1. /\ UNCHANGED <<names, state, stream, controllers, shutdown>> /\ client' = "closed" /\ upstream' = "closed"
      /\ aborted' = [m \in Requests |-> aborted[m] \/ m \in {names[x] : x \in DOMAIN names}]
  BY DEF ClientClosed, Abort
<1>2. aborted' \in [Requests -> BOOLEAN] /\ \A m \in Requests : aborted[m] => aborted'[m]
  BY <1>1
<1>3. \A m \in Running : aborted'[m]
  BY <1>1 DEF ClaudeInv, FoundByName, Running
<1>4. SocketsTyped' /\ ShutdownCloses'
  BY <1>1 DEF ClaudeInv, SocketsTyped, ShutdownCloses
<1>5. QED
  BY <1>1, <1>2, <1>3, <1>4, SameGenerations

(* The shutdown aborts the controllers: every running one.                  *)
LEMMA ShutdownInv ==
  ASSUME ClaudeInv, Shutdown PROVE ClaudeInv'
<1>1. /\ UNCHANGED <<names, state, stream, controllers>> /\ shutdown' = TRUE /\ upstream' = "closed"
      /\ client' = IF client = "open" THEN "closing" ELSE client
      /\ aborted' = [m \in Requests |-> aborted[m] \/ m \in controllers]
  BY DEF Shutdown, Abort
<1>2. aborted' \in [Requests -> BOOLEAN] /\ \A m \in Requests : aborted[m] => aborted'[m]
  BY <1>1
<1>3. \A m \in Running : aborted'[m]
  BY <1>1 DEF ClaudeInv, Running
<1>4. SocketsTyped' /\ ShutdownCloses'
  BY <1>1 DEF ClaudeInv, SocketsTyped, ShutdownCloses
<1>5. QED
  BY <1>1, <1>2, <1>3, <1>4, SameGenerations

(* A step that leaves the generations alone and closes neither the client   *)
(* for good nor the gateway.                                                *)
LEMMA OtherInv ==
  ASSUME ClaudeInv, UNCHANGED <<names, state, stream, aborted, controllers>>,
         shutdown' = shutdown, SocketsTyped',
         client' = client \/ (client = "open" /\ client' = "closing")
  PROVE  ClaudeInv'
<1>2. aborted' \in [Requests -> BOOLEAN]
  BY DEF ClaudeInv, ClaudeTyped
<1>3. ShutdownCloses'
  BY DEF ClaudeInv, ShutdownCloses
<1>4. QED
  BY <1>2, <1>3, SameGenerations

LEMMA ForwardParentInv ==
  ASSUME BridgeInv, NEW what, ForwardParent(what), Listening PROVE BridgeInv'
<1>1. /\ UNCHANGED <<names, state, stream, aborted, controllers>>
      /\ UNCHANGED <<received, responseQueue, delivered, paused>>
      /\ shutdown' = shutdown /\ upstream' = upstream
      /\ client = "open" /\ client' \in {"open", "closing"}
  BY DEF ForwardParent, Listening, claudeVars, queueVars
<1>2. SocketsTyped'
  BY <1>1 DEF BridgeInv, ClaudeInv, SocketsTyped
<1>3. QED
  BY <1>1, <1>2, OtherInv, OtherQueue DEF BridgeInv

LEMMA NextBridgeInv == BridgeInv /\ [BridgeNext]_bridgeVars => BridgeInv'
<1> SUFFICES ASSUME BridgeInv, [BridgeNext]_bridgeVars PROVE BridgeInv'
  OBVIOUS
<1> USE DEF BridgeInv
<1>1. ASSUME NEW s \in Streams, CancelUnknown(s) PROVE BridgeInv'
  BY <1>1, ForwardParentInv DEF CancelUnknown
<1>2. ASSUME NEW x \in Names, Cancel(x) PROVE BridgeInv'
  BY <1>2, CancelInv, OtherQueue DEF Cancel, claudeVars, queueVars
<1>3. ASSUME CreateParent PROVE BridgeInv'
  BY <1>3, ForwardParentInv DEF CreateParent
<1>4. ASSUME NEW n \in Requests, NEW s \in Streams, CreateClaude(n, s) PROVE BridgeInv'
  BY <1>4, CreateClaudeInv, OtherQueue DEF CreateClaude, claudeVars, queueVars
<1>5. ASSUME NEW n \in Requests, Announce(n) PROVE BridgeInv'
  BY <1>5, AnnounceInv, OtherQueue DEF Announce, claudeVars, queueVars
<1>6. ASSUME NEW n \in Requests, Finish(n) PROVE BridgeInv'
  BY <1>6, FinishInv, OtherQueue DEF Finish, claudeVars, queueVars
<1>7. ASSUME UpstreamMessage PROVE BridgeInv'
  <2>1. UNCHANGED <<client, upstream, shutdown, names, state, stream, aborted, controllers>>
    BY <1>7 DEF UpstreamMessage, claudeVars, queueVars
  <2>2. SocketsTyped'
    BY <2>1 DEF ClaudeInv, SocketsTyped
  <2>3. QED
    BY <1>7, <2>1, <2>2, OtherInv, UpstreamMessageQueue
<1>8. ASSUME Deliver PROVE BridgeInv'
  <2>1. UNCHANGED <<client, upstream, shutdown, names, state, stream, aborted, controllers>>
    BY <1>8 DEF Deliver, claudeVars, queueVars
  <2>2. SocketsTyped'
    BY <2>1 DEF ClaudeInv, SocketsTyped
  <2>3. QED
    BY <1>8, <2>1, <2>2, OtherInv, DeliverQueue
<1>9. ASSUME ClientLeaves \/ UpstreamEnded PROVE BridgeInv'
  <2>1. /\ UNCHANGED <<names, state, stream, aborted, controllers>> /\ UNCHANGED <<received, responseQueue, delivered, paused>>
        /\ shutdown' = shutdown /\ upstream' \in {upstream, "closed"}
        /\ client' = client \/ (client = "open" /\ client' = "closing")
    BY <1>9 DEF ClientLeaves, UpstreamEnded, claudeVars, queueVars
  <2>2. SocketsTyped'
    BY <2>1 DEF ClaudeInv, SocketsTyped
  <2>3. QED
    BY <2>1, <2>2, OtherInv, OtherQueue
<1>10. ASSUME ClientClosed PROVE BridgeInv'
  BY <1>10, ClientClosedInv, OtherQueue DEF ClientClosed, claudeVars, queueVars
<1>11. ASSUME Shutdown PROVE BridgeInv'
  BY <1>11, ShutdownInv, OtherQueue DEF Shutdown, claudeVars, queueVars
<1>12. CASE UNCHANGED bridgeVars
  <2>1. /\ UNCHANGED <<client, upstream, shutdown>>
        /\ UNCHANGED <<names, state, stream, aborted, controllers>> /\ UNCHANGED <<received, responseQueue, delivered, paused>>
    BY <1>12 DEF bridgeVars, claudeVars, queueVars
  <2>2. SocketsTyped'
    BY <2>1 DEF ClaudeInv, SocketsTyped
  <2>3. QED
    BY <2>1, <2>2, OtherInv, OtherQueue
<1>13. QED
  BY <1>1, <1>2, <1>3, <1>4, <1>5, <1>6, <1>7, <1>8, <1>9, <1>10, <1>11, <1>12 DEF BridgeNext

LEMMA BridgeInvariance == BridgeSpec => []BridgeInv
BY InitBridgeInv, NextBridgeInv, PTL DEF BridgeSpec

(***************************************************************************)
(* The theorems.                                                           *)
(***************************************************************************)
(* The registers of the bridge are well formed, and the gateway holds a      *)
(* controller of exactly what runs (codex-ws.ts:264-285).                   *)
THEOREM BridgeTyping == BridgeSpec => [](SocketsTyped /\ ClaudeTyped /\ controllers = Running)
<1>1. BridgeInv => SocketsTyped /\ ClaudeTyped /\ controllers = Running
  BY DEF BridgeInv, ClaudeInv
<1>2. QED
  BY <1>1, BridgeInvariance, PTL

(* A name never outlives its generation, so that a late cancel hits nothing *)
(* newer and a finished stream is free (codex-ws.ts:230-285).               *)
THEOREM NamesAlwaysLive == BridgeSpec => []NamesAreLive
<1>1. BridgeInv => NamesAreLive
  BY DEF BridgeInv, ClaudeInv
<1>2. QED
  BY <1>1, BridgeInvariance, PTL

(* A cancel that names the stream or the announced response of a running    *)
(* generation reaches that generation (codex-ws.ts:233-238).                *)
THEOREM CancelsReach == BridgeSpec => []FoundByName
<1>1. BridgeInv => FoundByName
  BY DEF BridgeInv, ClaudeInv
<1>2. QED
  BY <1>1, BridgeInvariance, PTL

(* Once the end of the client or the shutdown was handled, every generation *)
(* that still runs has been told to stop.                                   *)
THEOREM EverybodyIsTold == BridgeSpec => []NobodyRunsUntold
<1>1. BridgeInv => NobodyRunsUntold
  BY DEF BridgeInv, ClaudeInv
<1>2. QED
  BY <1>1, BridgeInvariance, PTL

(* The messages of the upstream are relayed in the order they came, and the *)
(* queue that keeps the order never leaves the upstream paused for good.    *)
THEOREM UpstreamRelayed == BridgeSpec => []UpstreamIsRelayed
<1>1. BridgeInv => UpstreamIsRelayed
  BY DEF BridgeInv, QueueInv
<1>2. QED
  BY <1>1, BridgeInvariance, PTL

==================================================================================
