------------------------------- MODULE HttpProofs -------------------------------
(***************************************************************************)
(* The safety properties of the two HTTP sides of the relay.  RawForward   *)
(* comes first, for any set of requests and any number of sockets of the   *)
(* agent; then Server, for bodies, windows and numbers of requests of any  *)
(* size, and any routing table.                                            *)
(***************************************************************************)
EXTENDS RawForward, Server, TLAPS

(***************************************************************************)
(* RawForward                                                              *)
(***************************************************************************)

(***************************************************************************)
(* The invariant speaks of one exchange at a time.  The latch `settled` is *)
(* per attempt and says nothing of the teardown; what keeps the answers    *)
(* apart is how far the upstream request, the response and the latch have  *)
(* come together: an attempt without a response has an unanswered client   *)
(* that it listens to, an attempt that was answered is settled.            *)
(***************************************************************************)
(* A client has read no head while its response is open, and never two.    *)
OneHead(e) ==
  /\ e.heads <= 1
  /\ e.res = "open" => e.heads = 0

(* Before a response came: the latch is open, the client is heard.          *)
Asking(e) ==
  /\ e.up \in {"queued", "connecting", "sent"} => ~e.settled /\ e.res = "open" /\ e.listening
  /\ (e.up = "destroyed" /\ ~e.settled) => e.res = "open" /\ e.listening

(* After it: who writes the client's response, and how far it is.           *)
Answering(e) ==
  /\ e.up = "answering" => /\ e.settled /\ e.listening
                           /\ e.hooked => e.res \in {"open", "head"}
                           /\ ~e.hooked => e.res = "head"
  /\ (e.up = "cut" /\ ~e.hooked) => e.res \in {"head", "gone", "destroyed"}
  /\ e.up = "half" => e.upload = "piped" /\ ~e.hooked /\ e.res \in {"ended", "finished"}
  /\ e.hook => e.hooked /\ e.settled /\ e.res \in {"open", "head", "gone"}

(* Between an attempt refused with 401 and the next one the response is     *)
(* nobody's: it is open, or its client has gone.                            *)
Refreshing(e) ==
  /\ e.refresh # "none" => e.hooked
  /\ e.refresh = "asked" => /\ e.settled /\ ~e.hook /\ ~e.listening
                            /\ e.up \in {"cut", "gone"} /\ e.res \in {"open", "gone"}

Uploading(e) ==
  /\ e.upload # "none" => ~e.hooked
  /\ e.local => e.upload # "piped"

Sound(e) ==
  /\ e \in Exchange
  /\ OneHead(e) /\ Asking(e) /\ Answering(e) /\ Refreshing(e) /\ Uploading(e)

ForwardIInv ==
  /\ ex = [r \in Requests |-> ex[r]]
  /\ \A r \in Requests : Sound(ex[r])

(* What every step does to an exchange.                                     *)
Follows(e, f) ==
  /\ Sound(f)
  /\ e.res = "ended" => f.res # "destroyed"

LEMMA FreshFields ==
  /\ Fresh \in Exchange
  /\ Fresh.hooked = FALSE /\ Fresh.refresh = "none" /\ Fresh.res = "open" /\ Fresh.hook = FALSE
  /\ Fresh.local = FALSE /\ Fresh.heads = 0 /\ Fresh.upload = "none"
BY DEF Fresh, Exchange

LEMMA FreshIsSound == Sound(Fresh)
BY DEF Fresh, Sound, Exchange, OneHead, Asking, Answering, Refreshing, Uploading

(***************************************************************************)
(* What the handlers call.                                                 *)
(***************************************************************************)
LEMMA DestroyUpFields ==
  ASSUME NEW e \in Exchange
  PROVE  /\ DestroyUp(e) \in Exchange
         /\ DestroyUp(e).up =
              IF e.up \in {"queued", "connecting", "sent"} THEN "destroyed"
              ELSE IF e.up = "answering" THEN "cut" ELSE IF e.up = "half" THEN "gone" ELSE e.up
         /\ DestroyUp(e).res = e.res /\ DestroyUp(e).heads = e.heads /\ DestroyUp(e).upload = e.upload
         /\ DestroyUp(e).settled = e.settled /\ DestroyUp(e).listening = e.listening
         /\ DestroyUp(e).hook = e.hook /\ DestroyUp(e).hooked = e.hooked
         /\ DestroyUp(e).refresh = e.refresh /\ DestroyUp(e).local = e.local
BY DEF DestroyUp, Exchange

LEMMA DestroyUpSound ==
  ASSUME NEW e, Sound(e) PROVE Follows(e, DestroyUp(e)) /\ DestroyUp(e).up \notin Live
<1>1. e \in Exchange
  BY DEF Sound
<1> DEFINE f == DestroyUp(e)
<1>2. /\ f \in Exchange
      /\ f.up = IF e.up \in {"queued", "connecting", "sent"} THEN "destroyed"
                ELSE IF e.up = "answering" THEN "cut" ELSE IF e.up = "half" THEN "gone" ELSE e.up
      /\ f.res = e.res /\ f.heads = e.heads /\ f.upload = e.upload
      /\ f.settled = e.settled /\ f.listening = e.listening
      /\ f.hook = e.hook /\ f.hooked = e.hooked
      /\ f.refresh = e.refresh /\ f.local = e.local
  BY <1>1, DestroyUpFields
<1> HIDE DEF f
<1>3. f.up \notin Live
  BY <1>1, <1>2 DEF Live, Holding, Exchange
<1>4. Sound(f)
  BY <1>1, <1>2 DEF Sound, OneHead, Asking, Answering, Refreshing, Uploading
<1>5. Follows(e, f)
  BY <1>1, <1>2, <1>4 DEF Follows, Exchange
<1>6. QED
  BY <1>3, <1>5 DEF f

(* Every operator of the handlers changes a few fields of an exchange.      *)
Rest(e, f) ==
  /\ f.kind = e.kind /\ f.hooked = e.hooked /\ f.refresh = e.refresh
  /\ f.listening = e.listening /\ f.hook = e.hook

LEMMA DestroyResFields ==
  ASSUME NEW e \in Exchange
  PROVE  /\ DestroyRes(e) \in Exchange /\ Rest(e, DestroyRes(e))
         /\ DestroyRes(e).res = IF e.res \in {"open", "head", "ended"} THEN "destroyed" ELSE e.res
         /\ DestroyRes(e).up = e.up /\ DestroyRes(e).upload = e.upload /\ DestroyRes(e).settled = e.settled
         /\ DestroyRes(e).heads = e.heads /\ DestroyRes(e).local = e.local
BY DEF DestroyRes, Exchange, Rest

LEMMA SettleFields ==
  ASSUME NEW e \in Exchange
  PROVE  /\ Settle(e) \in Exchange /\ Rest(e, Settle(e))
         /\ Settle(e).settled = TRUE
         /\ Settle(e).up = e.up /\ Settle(e).upload = e.upload /\ Settle(e).res = e.res
         /\ Settle(e).heads = e.heads /\ Settle(e).local = e.local
BY DEF Settle, Exchange, Rest

LEMMA DrainFields ==
  ASSUME NEW e \in Exchange
  PROVE  /\ Drain(e) \in Exchange /\ Rest(e, Drain(e))
         /\ Drain(e).upload = IF e.upload = "piped" THEN "drain" ELSE e.upload
         /\ Drain(e).up = e.up /\ Drain(e).settled = e.settled /\ Drain(e).res = e.res
         /\ Drain(e).heads = e.heads /\ Drain(e).local = e.local
BY DEF Drain, Exchange, Rest

LEMMA SynthesizeFields ==
  ASSUME NEW e \in Exchange, OneHead(e)
  PROVE  /\ Synthesize(e) \in Exchange /\ Rest(e, Synthesize(e)) /\ OneHead(Synthesize(e))
         /\ Synthesize(e).res = IF e.res = "open" THEN "ended"
                                ELSE IF e.res \in {"head", "ended"} THEN "destroyed" ELSE e.res
         /\ Synthesize(e).up = e.up /\ Synthesize(e).settled = e.settled
         /\ Synthesize(e).upload = e.upload
<1>1. CASE e.res = "open"
  <2>1. e.heads + 1 \in 0 .. 2 /\ e.heads + 1 = 1
    BY <1>1 DEF OneHead, Exchange
  <2>2. Synthesize(e) = [e EXCEPT !.res = "ended", !.heads = e.heads + 1, !.local = TRUE]
    BY <1>1 DEF Synthesize
  <2>3. /\ Synthesize(e) \in Exchange /\ Synthesize(e).heads = e.heads + 1
        /\ Synthesize(e).res = "ended"
        /\ Synthesize(e).up = e.up /\ Synthesize(e).settled = e.settled
        /\ Synthesize(e).upload = e.upload /\ Rest(e, Synthesize(e))
    BY <2>1, <2>2 DEF Exchange, Rest
  <2>4. QED
    BY <1>1, <2>1, <2>3 DEF OneHead
<1>2. CASE e.res # "open"
  <2>1. Synthesize(e) = DestroyRes(e)
    BY <1>2 DEF Synthesize
  <2>2. QED
    BY <1>2, <2>1, DestroyResFields DEF OneHead, Exchange
<1>3. QED
  BY <1>1, <1>2

(* The failure of an attempt whose request is gone, or still to be undone:  *)
(* the client of an open latch is answered, and its upload is drained.      *)
LEMMA FailFields ==
  ASSUME NEW e \in Exchange, OneHead(e)
  PROVE  LET f == Drain(Synthesize(Settle(e))) IN
         /\ f \in Exchange /\ Rest(e, f) /\ OneHead(f)
         /\ f.settled = TRUE /\ f.up = e.up
         /\ f.upload = IF e.upload = "piped" THEN "drain" ELSE e.upload
         /\ f.res = IF e.res = "open" THEN "ended"
                    ELSE IF e.res \in {"head", "ended"} THEN "destroyed" ELSE e.res
<1> DEFINE a == Settle(e)
           b == Synthesize(a)
           f == Drain(b)
<1>1. /\ a \in Exchange /\ Rest(e, a) /\ OneHead(a) /\ a.settled = TRUE
      /\ a.up = e.up /\ a.upload = e.upload /\ a.res = e.res
  BY SettleFields DEF OneHead
<1> HIDE DEF a
<1>2. /\ b \in Exchange /\ Rest(a, b) /\ OneHead(b) /\ b.settled = TRUE
      /\ b.up = a.up /\ b.upload = a.upload
      /\ b.res = IF a.res = "open" THEN "ended"
                 ELSE IF a.res \in {"head", "ended"} THEN "destroyed" ELSE a.res
  BY <1>1, SynthesizeFields
<1> HIDE DEF b
<1>3. /\ f \in Exchange /\ Rest(b, f) /\ f.settled = TRUE /\ f.up = b.up
      /\ f.heads = b.heads /\ f.res = b.res
      /\ f.upload = IF b.upload = "piped" THEN "drain" ELSE b.upload
  BY <1>2, DrainFields
<1> HIDE DEF f
<1>4. Rest(e, f) /\ OneHead(f)
  BY <1>1, <1>2, <1>3 DEF Rest, OneHead
<1>5. QED
  BY <1>1, <1>2, <1>3, <1>4 DEF a, b, f

(* OnError, once the request itself is gone.                                *)
LEMMA OnErrorSound ==
  ASSUME NEW e, e \in Exchange, OneHead(e), e.up = "gone", Refreshing(e),
         e.hook => e.hooked /\ e.settled /\ e.res \in {"open", "head", "gone"},
         e.upload # "none" => ~e.hooked, e.local => e.upload # "piped",
         ~e.settled => e.res = "open"
  PROVE  Follows(e, OnError(e))
<1>1. CASE e.settled
  BY <1>1 DEF OnError, Follows, Sound, Asking, Answering, Uploading, Exchange
<1>2. CASE ~e.settled
  <2> DEFINE f == Drain(Synthesize(Settle(e)))
  <2>1. /\ f \in Exchange /\ Rest(e, f) /\ OneHead(f)
        /\ f.settled = TRUE /\ f.up = "gone" /\ f.res = "ended"
        /\ f.upload = IF e.upload = "piped" THEN "drain" ELSE e.upload
    BY <1>2, FailFields
  <2>2. OnError(e) = f
    BY <1>2 DEF OnError
  <2> HIDE DEF f
  <2>3. ~e.hook /\ e.refresh # "asked"
    BY <1>2 DEF Refreshing
  <2>4. Sound(f)
    BY <2>1, <2>3 DEF Sound, Rest, Asking, Answering, Refreshing, Uploading
  <2>5. QED
    BY <2>1, <2>2, <2>4 DEF Follows
<1>3. QED
  BY <1>1, <1>2

LEMMA OnTimeoutSound ==
  ASSUME NEW e, Sound(e), e.up = "connecting"
  PROVE  Follows(e, OnTimeout(e))
<1> DEFINE f == Drain(Synthesize(Settle(e)))
<1>1. e \in Exchange /\ OneHead(e) /\ ~e.settled /\ e.res = "open" /\ ~e.hook
      /\ e.refresh # "asked" /\ Uploading(e) /\ Refreshing(e)
  BY DEF Sound, Asking, Answering, Refreshing
<1>2. /\ f \in Exchange /\ Rest(e, f) /\ OneHead(f)
      /\ f.settled = TRUE /\ f.up = "connecting" /\ f.res = "ended"
      /\ f.upload = IF e.upload = "piped" THEN "drain" ELSE e.upload
  BY <1>1, FailFields
<1>3. OnTimeout(e) = DestroyUp(f)
  BY <1>1 DEF OnTimeout
<1> HIDE DEF f
<1> DEFINE g == DestroyUp(f)
<1>4. /\ g \in Exchange /\ g.up = "destroyed"
      /\ g.res = "ended" /\ g.heads = f.heads /\ g.upload = f.upload
      /\ g.settled = TRUE /\ g.listening = f.listening
      /\ g.hook = f.hook /\ g.hooked = f.hooked
      /\ g.refresh = f.refresh /\ g.local = f.local
  BY <1>2, DestroyUpFields
<1> HIDE DEF g
<1>5. Sound(g)
  BY <1>1, <1>2, <1>4 DEF Sound, Rest, OneHead, Asking, Answering, Refreshing, Uploading
<1>6. QED
  BY <1>3, <1>4, <1>5 DEF Follows, g
(* OnClose, of an exchange whose response is closed.                        *)
LEMMA OnCloseSound ==
  ASSUME NEW e, e \in Exchange, OneHead(e), Uploading(e), e.res \in ResClosed,
         (e.up = "cut" /\ ~e.hooked) => e.res = "gone",
         e.hook => e.hooked /\ e.res = "gone",
         e.refresh # "none" => e.hooked,
         e.refresh = "asked" => ~e.hook /\ ~e.listening /\ e.up \in {"cut", "gone"} /\ e.res = "gone",
         e.up = "answering" => e.res = "gone"
  PROVE  /\ Sound(OnClose(e)) /\ OnClose(e).res = e.res /\ OnClose(e).upload = e.upload
         /\ OnClose(e).up = IF e.up \in {"queued", "connecting", "sent"} THEN "destroyed"
                            ELSE IF e.up = "answering" THEN "cut" ELSE IF e.up = "half" THEN "gone" ELSE e.up
         /\ OnClose(e).local = e.local /\ OnClose(e).hooked = e.hooked
<1> DEFINE a == Settle(e)
           f == DestroyUp(a)
<1>1. /\ a \in Exchange /\ Rest(e, a) /\ a.settled = TRUE
      /\ a.up = e.up /\ a.upload = e.upload /\ a.res = e.res /\ a.heads = e.heads /\ a.local = e.local
  BY SettleFields
<1> HIDE DEF a
<1>2. /\ f \in Exchange
      /\ f.up = IF a.up \in {"queued", "connecting", "sent"} THEN "destroyed"
                ELSE IF a.up = "answering" THEN "cut" ELSE IF a.up = "half" THEN "gone" ELSE a.up
      /\ f.res = a.res /\ f.heads = a.heads /\ f.upload = a.upload
      /\ f.settled = a.settled /\ f.listening = a.listening
      /\ f.hook = a.hook /\ f.hooked = a.hooked
      /\ f.refresh = a.refresh /\ f.local = a.local
  BY <1>1, DestroyUpFields
<1> HIDE DEF f
<1>3. Sound(f)
  BY <1>1, <1>2 DEF Sound, Rest, OneHead, Asking, Answering, Refreshing, Uploading, ResClosed, Exchange
<1>4. QED
  BY <1>1, <1>2, <1>3 DEF OnClose, a, f, Rest

LEMMA LeaveSound ==
  ASSUME NEW e, Sound(e) PROVE Follows(e, Leave(e))
<1> DEFINE left == [e EXCEPT !.res = "gone",
                             !.upload = IF @ \in {"piped", "drain"} THEN "cut" ELSE @]
<1>1. /\ e \in Exchange /\ OneHead(e) /\ Asking(e) /\ Answering(e) /\ Refreshing(e) /\ Uploading(e)
  BY DEF Sound
<1>2. /\ left \in Exchange /\ Rest(e, left) /\ left.res = "gone"
      /\ left.upload = IF e.upload \in {"piped", "drain"} THEN "cut" ELSE e.upload
      /\ left.up = e.up /\ left.settled = e.settled /\ left.heads = e.heads /\ left.local = e.local
  BY <1>1 DEF Exchange, Rest
<1>3. Leave(e) = IF e.listening \/ e.upload = "piped" THEN OnClose(left) ELSE left
  BY DEF Leave
<1> HIDE DEF left
<1>4. CASE e.listening \/ e.upload = "piped"
  <2>1. /\ OneHead(left) /\ Uploading(left) /\ left.res \in ResClosed
        /\ left.hook => left.hooked
        /\ left.refresh # "none" => left.hooked
        /\ left.refresh = "asked" => ~left.hook /\ ~left.listening /\ left.up \in {"cut", "gone"}
    BY <1>1, <1>2 DEF Rest, OneHead, Answering, Refreshing, Uploading, ResClosed
  <2>2. Sound(OnClose(left)) /\ OnClose(left).res = "gone"
    BY <1>2, <2>1, OnCloseSound
  <2>3. QED
    BY <1>3, <1>4, <2>2 DEF Follows
<1>5. CASE ~(e.listening \/ e.upload = "piped")
  <2>1. Sound(left)
    BY <1>1, <1>2, <1>5 DEF Sound, Rest, OneHead, Asking, Answering, Refreshing, Uploading
  <2>2. QED
    BY <1>2, <1>3, <1>5, <2>1 DEF Follows
<1>6. QED
  BY <1>4, <1>5

LEMMA HttpErrorFields ==
  ASSUME NEW e \in Exchange, OneHead(e)
  PROVE  /\ HttpError(e) \in Exchange /\ Rest(e, HttpError(e)) /\ OneHead(HttpError(e))
         /\ HttpError(e).res = IF e.res \in {"open", "head"} THEN "ended" ELSE e.res
         /\ HttpError(e).up = e.up /\ HttpError(e).settled = e.settled
         /\ HttpError(e).upload = e.upload /\ HttpError(e).local = e.local
<1>1. CASE e.res = "open"
  <2>1. e.heads + 1 \in 0 .. 2 /\ e.heads + 1 = 1
    BY <1>1 DEF OneHead, Exchange
  <2>2. HttpError(e) = [e EXCEPT !.res = "ended", !.heads = e.heads + 1]
    BY <1>1 DEF HttpError
  <2>3. /\ HttpError(e) \in Exchange /\ HttpError(e).heads = e.heads + 1
        /\ HttpError(e).res = "ended" /\ HttpError(e).local = e.local
        /\ HttpError(e).up = e.up /\ HttpError(e).settled = e.settled
        /\ HttpError(e).upload = e.upload /\ Rest(e, HttpError(e))
    BY <2>1, <2>2 DEF Exchange, Rest
  <2>4. QED
    BY <1>1, <2>1, <2>3 DEF OneHead
<1>2. CASE e.res = "head"
  <2>1. HttpError(e) = [e EXCEPT !.res = "ended"]
    BY <1>2 DEF HttpError
  <2>2. QED
    BY <1>2, <2>1 DEF OneHead, Exchange, Rest
<1>3. CASE e.res \notin {"open", "head"}
  <2>1. HttpError(e) = e
    BY <1>3 DEF HttpError
  <2>2. QED
    BY <1>3, <2>1 DEF Rest
<1>4. QED
  BY <1>1, <1>2, <1>3

(***************************************************************************)
(* The steps.                                                              *)
(***************************************************************************)
LEMMA SelfFollows == ASSUME NEW e, Sound(e) PROVE Follows(e, e)
BY DEF Follows

LEMMA OneChanges ==
  ASSUME ForwardIInv, NEW r \in Requests, NEW f, Follows(ex[r], f), ex' = [ex EXCEPT ![r] = f]
  PROVE  ForwardIInv' /\ \A s \in Requests : Follows(ex[s], ex'[s])
<1>1. \A s \in Requests : ex'[s] = IF s = r THEN f ELSE ex[s]
  BY DEF ForwardIInv
<1>2. ex' = [s \in Requests |-> ex'[s]]
  BY DEF ForwardIInv
<1>3. \A s \in Requests : Follows(ex[s], ex'[s])
  BY <1>1, SelfFollows DEF ForwardIInv
<1>4. QED
  BY <1>2, <1>3 DEF ForwardIInv, Follows

(* The exchanges a new attempt may be made for.                             *)
LEMMA StartFollows ==
  ASSUME ForwardIInv, NEW r \in Requests, NEW e \in Exchange, OneHead(e), Uploading(e),
         e.res = "open", ~e.hook, e.refresh # "asked", e.refresh # "none" => e.hooked,
         ex[r].res = "open", Start(r, e)
  PROVE  \E f : Follows(ex[r], f) /\ ex' = [ex EXCEPT ![r] = f]
<1> DEFINE attempt(up) == [e EXCEPT !.up = up, !.settled = FALSE, !.listening = TRUE]
<1>1. \E up \in {"queued", "connecting", "sent"} : ex' = [ex EXCEPT ![r] = attempt(up)]
  BY DEF Start
<1>2. PICK up \in {"queued", "connecting", "sent"} : ex' = [ex EXCEPT ![r] = attempt(up)]
  BY <1>1
<1> DEFINE f == attempt(up)
<1>3. /\ f \in Exchange /\ f.up = up /\ f.settled = FALSE /\ f.listening = TRUE
      /\ f.hooked = e.hooked /\ f.refresh = e.refresh /\ f.hook = e.hook /\ f.res = e.res
      /\ f.upload = e.upload /\ f.heads = e.heads /\ f.local = e.local
  BY DEF Exchange
<1> HIDE DEF f
<1>4. Sound(f)
  BY <1>3 DEF Sound, OneHead, Asking, Answering, Refreshing, Uploading
<1>5. Follows(ex[r], f)
  BY <1>4 DEF Follows
<1>6. QED
  BY <1>2, <1>5 DEF f
(* What one step does to the exchange r.                                    *)
Turns(r) == \E f : Follows(ex[r], f) /\ ex' = [ex EXCEPT ![r] = f]

LEMMA ForwardTurns ==
  ASSUME ForwardIInv, NEW r \in Requests, Forward(r) PROVE Turns(r)
<1>1. Sound(ex[r]) /\ ex[r].res = "open" /\ ex[r].kind = "new"
  BY DEF ForwardIInv, Forward
<1>2. CASE closed
  <2> DEFINE f == [ex[r] EXCEPT !.kind = "ignored"]
  <2>1. ex' = [ex EXCEPT ![r] = f]
    BY <1>2 DEF Forward, ForwardIInv
  <2>2. Follows(ex[r], f)
    BY <1>1 DEF Sound, Exchange, OneHead, Asking, Answering, Refreshing, Uploading, Follows
  <2>3. QED
    BY <2>1, <2>2 DEF Turns
<1>3. CASE ~closed
  <2>1. CASE Start(r, [Fresh EXCEPT !.kind = "prefix", !.upload = "piped"])
    <3> DEFINE e == [Fresh EXCEPT !.kind = "prefix", !.upload = "piped"]
    <3>3. /\ e.hooked = FALSE /\ e.refresh = "none" /\ e.res = "open" /\ e.hook = FALSE
          /\ e.local = FALSE /\ e.heads = 0 /\ e \in Exchange
      BY FreshFields DEF Exchange
    <3> HIDE DEF e
    <3>1. OneHead(e) /\ Uploading(e)
      BY <3>3 DEF OneHead, Uploading
    <3>2. \E f : Follows(ex[r], f) /\ ex' = [ex EXCEPT ![r] = f]
      BY <1>1, <2>1, <3>1, <3>3, StartFollows DEF e
    <3>4. QED
      BY <3>2 DEF Turns
  <2>2. CASE \E hooks \in {<<FALSE, "none">>, <<TRUE, "none">>, <<TRUE, "able">>} :
               Start(r, [Fresh EXCEPT !.kind = "complete", !.hooked = hooks[1], !.refresh = hooks[2]])
    <3>1. PICK hooks \in {<<FALSE, "none">>, <<TRUE, "none">>, <<TRUE, "able">>} :
               Start(r, [Fresh EXCEPT !.kind = "complete", !.hooked = hooks[1], !.refresh = hooks[2]])
      BY <2>2
    <3> DEFINE e == [Fresh EXCEPT !.kind = "complete", !.hooked = hooks[1], !.refresh = hooks[2]]
    <3>2. /\ hooks[1] \in BOOLEAN /\ hooks[2] \in {"none", "able"}
          /\ hooks[2] # "none" => hooks[1] = TRUE
      <4>1. CASE hooks = <<FALSE, "none">>
        BY <4>1
      <4>2. CASE hooks = <<TRUE, "none">>
        BY <4>2
      <4>3. CASE hooks = <<TRUE, "able">>
        BY <4>3
      <4>4. QED
        BY <3>1, <4>1, <4>2, <4>3
    <3>6. /\ e.hooked = hooks[1] /\ e.refresh = hooks[2] /\ e.res = "open" /\ e.hook = FALSE
          /\ e.local = FALSE /\ e.heads = 0 /\ e.upload = "none" /\ e \in Exchange
      BY <3>2, FreshFields DEF Exchange
    <3> HIDE DEF e
    <3>3. /\ OneHead(e) /\ Uploading(e) /\ e.refresh # "asked"
          /\ e.refresh # "none" => e.hooked
      BY <3>2, <3>6 DEF OneHead, Uploading
    <3>4. Start(r, e)
      BY <3>1 DEF e
    <3>5. \E f : Follows(ex[r], f) /\ ex' = [ex EXCEPT ![r] = f]
      BY <1>1, <3>3, <3>4, <3>6, StartFollows
    <3>7. QED
      BY <3>5 DEF Turns
  <2>3. QED
    BY <1>3, <2>1, <2>2 DEF Forward
<1>4. QED
  BY <1>2, <1>3

LEMMA RefreshedTurns ==
  ASSUME ForwardIInv, NEW r \in Requests, Refreshed(r) PROVE Turns(r)
<1> DEFINE e == [ex[r] EXCEPT !.refresh = "none"]
<1>1. /\ Sound(ex[r]) /\ ex[r].refresh = "asked" /\ ex[r].settled /\ ~ex[r].hook /\ ex[r].hooked
      /\ ex[r].up \in {"cut", "gone"} /\ ex[r].res \in {"open", "gone"}
  BY DEF ForwardIInv, Refreshed, Sound, Refreshing
<1>2. /\ e \in Exchange /\ OneHead(e) /\ Uploading(e) /\ e.refresh = "none"
      /\ e.res = ex[r].res /\ e.up = ex[r].up /\ e.settled /\ ~e.hook /\ e.hooked
      /\ e.upload = ex[r].upload /\ e.local = ex[r].local
  BY <1>1 DEF Sound, Exchange, OneHead, Uploading
<1>3. ex' = [ex EXCEPT ![r] = e] \/ (ex[r].res = "open" /\ Start(r, e))
      \/ ex' = [ex EXCEPT ![r] = HttpError(e)]
  BY <1>1 DEF Refreshed, Retry, ResClosed, ForwardIInv
<1> HIDE DEF e
<1>4. CASE ex' = [ex EXCEPT ![r] = e]
  <2>1. Follows(ex[r], e)
    BY <1>1, <1>2 DEF Follows, Sound, Asking, Answering, Refreshing
  <2>2. QED
    BY <1>4, <2>1 DEF Turns
<1>5. CASE ex[r].res = "open" /\ Start(r, e)
  BY <1>1, <1>2, <1>5, StartFollows DEF Turns
<1>6. CASE ex' = [ex EXCEPT ![r] = HttpError(e)]
  <2> DEFINE f == HttpError(e)
  <2>1. /\ f \in Exchange /\ Rest(e, f) /\ OneHead(f)
        /\ f.res = IF e.res \in {"open", "head"} THEN "ended" ELSE e.res
        /\ f.up = e.up /\ f.settled = e.settled /\ f.upload = e.upload /\ f.local = e.local
    BY <1>2, HttpErrorFields
  <2> HIDE DEF f
  <2>2. Follows(ex[r], f)
    BY <1>1, <1>2, <2>1 DEF Follows, Sound, Rest, Asking, Answering, Refreshing, Uploading
  <2>3. QED
    BY <1>6, <2>2 DEF Turns, f
<1>7. QED
  BY <1>3, <1>4, <1>5, <1>6

LEMMA UpstreamTurns ==
  ASSUME ForwardIInv, NEW r \in Requests, Upstream(r) \/ UpstreamFails(r) PROVE Turns(r)
<1> DEFINE e == ex[r]
<1>0. Sound(e) /\ e \in Exchange
  BY DEF ForwardIInv, Sound
<1>1. CASE Connected(r)
  <2> DEFINE f == [e EXCEPT !.up = "sent"]
  <2>1. Follows(e, f)
    BY <1>0, <1>1 DEF Connected, Follows, Sound, Exchange, OneHead, Asking, Answering, Refreshing, Uploading
  <2>2. QED
    BY <1>1, <2>1 DEF Connected, Change, Turns
<1>2. CASE ConnectTimeout(r)
  BY <1>0, <1>2, OnTimeoutSound DEF ConnectTimeout, Change, Turns
<1>3. CASE Unauthorized(r)
  <2> DEFINE a == Settle(e)
             f == [a EXCEPT !.up = "cut", !.listening = FALSE, !.refresh = "asked"]
  <2>1. /\ a \in Exchange /\ Rest(e, a) /\ a.settled = TRUE
        /\ a.up = e.up /\ a.upload = e.upload /\ a.res = e.res /\ a.heads = e.heads /\ a.local = e.local
    BY <1>0, SettleFields
  <2>2. /\ e.res = "open" /\ e.hooked /\ ~e.hook
    BY <1>0, <1>3 DEF Unauthorized, Sound, Asking, Answering, Refreshing
  <2>a. Unauthorized(r) => ex' = [ex EXCEPT ![r] = f]
    BY DEF Unauthorized, Change
  <2> HIDE DEF a
  <2>3. Follows(e, f)
    BY <1>0, <2>1, <2>2 DEF Follows, Sound, Rest, Exchange, OneHead, Asking, Answering, Refreshing, Uploading
  <2>4. QED
    BY <1>3, <2>3, <2>a DEF Turns
<1>4. CASE Answered(r)
  <2> DEFINE b == [e EXCEPT !.up = "answering"]
             a == Settle(b)
             f == IF a.hooked THEN [a EXCEPT !.hook = TRUE] ELSE [a EXCEPT !.res = "head", !.heads = @ + 1]
  <2>1. /\ e.up = "sent" /\ e.res = "open" /\ e.listening /\ e.heads = 0 /\ e.refresh # "asked" /\ ~e.hook
        /\ e.refresh # "none" => e.hooked
        /\ e.upload # "none" => ~e.hooked
        /\ e.local => e.upload # "piped"
    BY <1>0, <1>4 DEF Answered, Sound, Asking, Answering, Refreshing, OneHead, Uploading
  <2>2. b \in Exchange /\ Rest(e, b) /\ b.up = "answering" /\ b.upload = e.upload /\ b.res = e.res
        /\ b.heads = e.heads /\ b.local = e.local
    BY <1>0 DEF Exchange, Rest
  <2> HIDE DEF b
  <2>3. /\ a \in Exchange /\ Rest(b, a) /\ a.settled = TRUE
        /\ a.up = b.up /\ a.upload = b.upload /\ a.res = b.res /\ a.heads = b.heads /\ a.local = b.local
    BY <2>2, SettleFields
  <2>a. Answered(r) => ex' = [ex EXCEPT ![r] = f]
    BY DEF Answered, Change, b
  <2> HIDE DEF a
  <2>4. /\ a.hooked = e.hooked /\ a.up = "answering" /\ a.res = "open" /\ a.listening /\ a.heads = 0
        /\ a.refresh = e.refresh /\ ~a.hook /\ a.upload = e.upload /\ a.local = e.local
    BY <2>1, <2>2, <2>3 DEF Rest
  <2>5. ASSUME a.hooked PROVE Follows(e, f)
    <3>1. /\ f \in Exchange /\ f.hook = TRUE /\ f.res = "open"
          /\ f.hooked = a.hooked /\ f.refresh = a.refresh /\ f.listening = a.listening
          /\ f.up = a.up /\ f.settled = TRUE /\ f.upload = a.upload
          /\ f.heads = 0 /\ f.local = a.local
      BY <2>3, <2>4, <2>5 DEF Exchange, Rest
    <3> HIDE DEF f
    <3>2. Follows(e, f)
      BY <2>1, <2>4, <2>5, <3>1 DEF Follows, Sound, OneHead, Asking, Answering, Refreshing, Uploading
    <3>3. QED
      BY <3>2
  <2>6. ASSUME ~a.hooked PROVE Follows(e, f)
    <3>1. a.heads + 1 = 1 /\ a.heads + 1 \in 0 .. 2
      BY <2>4
    <3>2. f = [a EXCEPT !.res = "head", !.heads = a.heads + 1]
      BY <2>6
    <3> HIDE DEF f
    <3>3. /\ f \in Exchange /\ f.hook = FALSE /\ f.res = "head"
          /\ f.hooked = a.hooked /\ f.refresh = a.refresh /\ f.listening = a.listening
          /\ f.up = a.up /\ f.settled = TRUE /\ f.upload = a.upload
          /\ f.heads = 1 /\ f.local = a.local
      BY <2>3, <2>4, <3>1, <3>2 DEF Exchange
    <3>4. Follows(e, f)
      BY <2>1, <2>4, <2>6, <3>3 DEF Follows, Sound, OneHead, Asking, Answering, Refreshing, Uploading
    <3>5. QED
      BY <3>4
  <2>7. Follows(e, f)
    BY <2>5, <2>6
  <2>8. QED
    BY <1>4, <2>7, <2>a DEF Turns
<1>5. CASE BodyEnds(r)
  <2> DEFINE a == [e EXCEPT !.res = "ended"]
             f == ReadUp(a)
  <2>1. f = [e EXCEPT !.res = "ended", !.up = IF e.upload = "piped" THEN "half" ELSE "free"]
    BY <1>0, <1>5 DEF BodyEnds, ReadUp, Exchange
  <2>2. BodyEnds(r) => ex' = [ex EXCEPT ![r] = f]
    BY DEF BodyEnds, Change
  <2> HIDE DEF f
  <2>3. Follows(e, f)
    BY <1>0, <1>5, <2>1 DEF BodyEnds, Follows, Sound, Exchange, OneHead, Asking, Answering, Refreshing, Uploading
  <2>4. QED
    BY <1>5, <2>2, <2>3 DEF Turns
<1>6. CASE UpstreamFails(r) \/ UpstreamClose(r)
  <2> DEFINE g == [e EXCEPT !.up = "gone"]
  <2>1. /\ g \in Exchange /\ Rest(e, g) /\ g.up = "gone" /\ g.upload = e.upload /\ g.res = e.res
        /\ g.settled = e.settled /\ g.heads = e.heads /\ g.local = e.local
    BY <1>0 DEF Exchange, Rest
  <2>2. \/ e.up \in {"connecting", "sent", "destroyed"} /\ ex' = [ex EXCEPT ![r] = OnError(g)]
        \/ e.up \in {"answering", "cut"} /\ ~e.hooked /\ ex' = [ex EXCEPT ![r] = DestroyRes(g)]
        \/ e.up \in {"answering", "cut", "half"} /\ ex' = [ex EXCEPT ![r] = g]
    BY <1>6 DEF UpstreamFails, UpstreamClose, Change
  <2> HIDE DEF g
  <2>3. CASE e.up \in {"connecting", "sent", "destroyed"} /\ ex' = [ex EXCEPT ![r] = OnError(g)]
    <3>1. /\ OneHead(g) /\ Refreshing(g)
          /\ g.hook => g.hooked /\ g.settled /\ g.res \in {"open", "head", "gone"}
          /\ g.upload # "none" => ~g.hooked
          /\ g.local => g.upload # "piped"
          /\ ~g.settled => g.res = "open"
      BY <1>0, <2>1, <2>3 DEF Sound, Rest, OneHead, Asking, Answering, Refreshing, Uploading
    <3>2. Follows(g, OnError(g))
      BY <2>1, <3>1, OnErrorSound
    <3>3. Follows(e, OnError(g))
      BY <2>1, <3>2 DEF Follows
    <3>4. QED
      BY <2>3, <3>3 DEF Turns
  <2>4. CASE e.up \in {"answering", "cut"} /\ ~e.hooked /\ ex' = [ex EXCEPT ![r] = DestroyRes(g)]
    <3> DEFINE f == DestroyRes(g)
    <3>1. /\ f \in Exchange /\ Rest(g, f)
          /\ f.res = IF g.res \in {"open", "head", "ended"} THEN "destroyed" ELSE g.res
          /\ f.up = g.up /\ f.upload = g.upload /\ f.settled = g.settled
          /\ f.heads = g.heads /\ f.local = g.local
      BY <2>1, DestroyResFields
    <3> HIDE DEF f
    <3>2. Follows(e, f)
      BY <1>0, <2>1, <2>4, <3>1
        DEF Follows, Sound, Rest, OneHead, Asking, Answering, Refreshing, Uploading
    <3>3. QED
      BY <2>4, <3>2 DEF Turns, f
  <2>5. CASE e.up \in {"answering", "cut", "half"} /\ ex' = [ex EXCEPT ![r] = g]
    <3>1. Follows(e, g)
      BY <1>0, <2>1, <2>5 DEF Follows, Sound, Rest, OneHead, Asking, Answering, Refreshing, Uploading
    <3>2. QED
      BY <2>5, <3>1 DEF Turns
  <2>6. QED
    BY <2>2, <2>3, <2>4, <2>5
<1>7. QED
  BY <1>1, <1>2, <1>3, <1>4, <1>5, <1>6 DEF Upstream
LEMMA HookTurns ==
  ASSUME ForwardIInv, NEW r \in Requests, Hook(r) PROVE Turns(r)
<1> DEFINE e == ex[r]
<1>0. /\ Sound(e) /\ e \in Exchange /\ OneHead(e) /\ e.hook /\ e.hooked /\ e.settled
      /\ e.res \in {"open", "head", "gone"} /\ e.upload = "none" /\ e.refresh # "asked"
  BY DEF ForwardIInv, Sound, Hook, HookHead, HookDone, HookFails, Answering, Refreshing, Uploading
<1>1. CASE HookHead(r)
  <2> DEFINE f == [e EXCEPT !.res = "head", !.heads = e.heads + 1]
  <2>1. e.heads + 1 = 1 /\ e.heads + 1 \in 0 .. 2
    BY <1>0, <1>1 DEF HookHead, OneHead
  <2>2. HookHead(r) => ex' = [ex EXCEPT ![r] = f]
    BY DEF HookHead, Change
  <2>3. /\ f \in Exchange /\ f.res = "head" /\ f.heads = 1 /\ Rest(e, f)
        /\ f.up = e.up /\ f.upload = e.upload /\ f.settled = e.settled /\ f.local = e.local
    BY <1>0, <2>1 DEF Exchange, Rest
  <2> HIDE DEF f
  <2>4. e.up = "answering"
    BY <1>1 DEF HookHead
  <2>5. Follows(e, f)
    BY <1>0, <2>3, <2>4 DEF Follows, Sound, Rest, OneHead, Asking, Answering, Refreshing, Uploading
  <2>6. QED
    BY <1>1, <2>2, <2>5 DEF Turns
<1>2. CASE HookDone(r) \/ HookFails(r)
  <2>1. PICK a : /\ ex' = [ex EXCEPT ![r] = DestroyUp([a EXCEPT !.hook = FALSE])]
                 /\ a \in Exchange /\ Rest(e, a) /\ OneHead(a) /\ a.up = e.up
                 /\ a.upload = e.upload /\ a.settled = e.settled
                 /\ a.res \in {"ended", "destroyed", "gone"}
    <3>1. CASE HookDone(r)
      <4> DEFINE a == [e EXCEPT !.res = "ended"]
      <4>1. /\ a \in Exchange /\ Rest(e, a) /\ OneHead(a) /\ a.up = e.up /\ a.res = "ended"
            /\ a.upload = e.upload /\ a.settled = e.settled
        BY <1>0 DEF Exchange, Rest, OneHead
      <4>2. [e EXCEPT !.res = "ended", !.hook = FALSE] = [a EXCEPT !.hook = FALSE]
        BY <1>0 DEF Exchange
      <4>3. ex' = [ex EXCEPT ![r] = DestroyUp([a EXCEPT !.hook = FALSE])]
        BY <3>1, <4>2 DEF HookDone, Change
      <4> HIDE DEF a
      <4>4. QED
        BY <4>1, <4>3
    <3>2. CASE HookFails(r)
      <4>1. PICK lost \in {HttpError(e), DestroyRes(e)} :
               ex' = [ex EXCEPT ![r] = DestroyUp([lost EXCEPT !.hook = FALSE])]
        BY <3>2 DEF HookFails, Change
      <4>2. CASE lost = HttpError(e)
        <5>1. /\ lost \in Exchange /\ Rest(e, lost) /\ OneHead(lost)
              /\ lost.res = IF e.res \in {"open", "head"} THEN "ended" ELSE e.res
              /\ lost.up = e.up /\ lost.settled = e.settled /\ lost.upload = e.upload
          BY <1>0, <4>2, HttpErrorFields
        <5>2. QED
          BY <1>0, <4>1, <5>1
      <4>3. CASE lost = DestroyRes(e)
        <5>1. /\ lost \in Exchange /\ Rest(e, lost)
              /\ lost.res = IF e.res \in {"open", "head", "ended"} THEN "destroyed" ELSE e.res
              /\ lost.up = e.up /\ lost.upload = e.upload /\ lost.settled = e.settled
              /\ lost.heads = e.heads
          BY <1>0, <4>3, DestroyResFields
        <5>2. OneHead(lost)
          BY <1>0, <5>1 DEF OneHead
        <5>3. QED
          BY <1>0, <4>1, <5>1, <5>2
      <4>4. QED
        BY <4>1, <4>2, <4>3
    <3>3. QED
      BY <1>2, <3>1, <3>2
  <2> DEFINE b == [a EXCEPT !.hook = FALSE]
             f == DestroyUp(b)
  <2>2. /\ b \in Exchange /\ b.hook = FALSE /\ b.hooked = a.hooked /\ b.refresh = a.refresh
        /\ b.listening = a.listening /\ b.up = a.up /\ b.upload = a.upload
        /\ b.settled = a.settled /\ b.res = a.res /\ b.heads = a.heads
    BY <2>1 DEF Exchange
  <2> HIDE DEF b
  <2>3. /\ f \in Exchange
        /\ f.up = IF b.up \in {"queued", "connecting", "sent"} THEN "destroyed"
                  ELSE IF b.up = "answering" THEN "cut" ELSE IF b.up = "half" THEN "gone" ELSE b.up
        /\ f.res = b.res /\ f.heads = b.heads /\ f.upload = b.upload
        /\ f.settled = b.settled /\ f.listening = b.listening
        /\ f.hook = b.hook /\ f.hooked = b.hooked /\ f.refresh = b.refresh
    BY <2>2, DestroyUpFields
  <2>4. ex' = [ex EXCEPT ![r] = f]
    BY <2>1 DEF b
  <2> HIDE DEF f
  <2>5. Follows(e, f)
    <3>1. e.hooked /\ e.settled /\ e.upload = "none" /\ e.refresh # "asked"
      BY <1>0
    <3>2. e.res # "ended"
      BY <1>0
    <3>3. QED
      BY <3>1, <3>2, <2>1, <2>2, <2>3
        DEF Follows, Sound, Rest, OneHead, Asking, Answering, Refreshing, Uploading
  <2>6. QED
    BY <2>4, <2>5 DEF Turns
<1>3. QED
  BY <1>1, <1>2 DEF Hook

LEMMA ClientTurns ==
  ASSUME ForwardIInv, NEW r \in Requests, Client(r) \/ ClientGoes(r) PROVE Turns(r)
<1> DEFINE e == ex[r]
<1>0. Sound(e) /\ e \in Exchange
  BY DEF ForwardIInv, Sound
<1>1. CASE ex' = [ex EXCEPT ![r] = Leave(e)]
  BY <1>0, <1>1, LeaveSound DEF Turns
<1>2. CASE Flushed(r)
  <2> DEFINE f == [e EXCEPT !.res = "finished"]
  <2>1. Follows(e, f)
    BY <1>0, <1>2 DEF Flushed, Follows, Sound, Exchange, OneHead, Asking, Answering, Refreshing, Uploading
  <2>2. QED
    BY <1>2, <2>1 DEF Flushed, Change, Turns
<1>3. CASE UploadEnds(r)
  <2> DEFINE f == [e EXCEPT !.upload = "done", !.up = IF @ = "half" THEN "free" ELSE @]
  <2>1. Follows(e, f)
    BY <1>0, <1>3 DEF UploadEnds, Follows, Sound, Exchange, OneHead, Asking, Answering, Refreshing, Uploading
  <2>2. QED
    BY <1>3, <2>1 DEF UploadEnds, Change, Turns
<1>4. ASSUME e.upload = "drain", NEW to \in {"done", "cut"}, ex' = [ex EXCEPT ![r] = [e EXCEPT !.upload = to]]
      PROVE  Turns(r)
  <2> DEFINE f == [e EXCEPT !.upload = to]
  <2>1. Follows(e, f)
    BY <1>0, <1>4 DEF Follows, Sound, Exchange, OneHead, Asking, Answering, Refreshing, Uploading
  <2>2. QED
    BY <1>4, <2>1 DEF Turns
<1>5. CASE DrainEnds(r)
  <2>1. e.upload = "drain"
    BY <1>5 DEF DrainEnds
  <2>2. \/ ex' = [ex EXCEPT ![r] = [e EXCEPT !.upload = "done"]]
        \/ ex' = [ex EXCEPT ![r] = [e EXCEPT !.upload = "cut"]]
        \/ ex' = [ex EXCEPT ![r] = Leave(e)]
    BY <1>5 DEF DrainEnds, Change
  <2>3. QED
    BY <1>1, <1>4, <2>1, <2>2
<1>6. CASE RequestTimeout(r)
  <2>1. e.upload = "piped" /\ e.up \notin Live
    BY <1>6 DEF RequestTimeout
  <2>2. CASE e.res \in ResClosed
    <3> DEFINE c == OnClose(e)
               f == [c EXCEPT !.upload = "cut"]
    <3>1. /\ OneHead(e) /\ Uploading(e) /\ ~e.hooked /\ e.up # "answering"
          /\ e.up = "cut" => e.res = "gone"
          /\ ~e.hook /\ e.refresh = "none"
      BY <1>0, <2>1, <2>2 DEF Sound, Exchange, Answering, Refreshing, Uploading, Live, Holding, ResClosed
    <3>2. Sound(c) /\ c.res = e.res
      BY <1>0, <2>2, <3>1, OnCloseSound
    <3>3. ex' = [ex EXCEPT ![r] = f]
      BY <1>6, <2>2 DEF RequestTimeout, Change
    <3>5. c.up # "half"
      BY <1>0, <2>1, <2>2, <3>1, OnCloseSound DEF Live, Holding
    <3>a. ~c.hooked
      BY <1>0, <2>2, <3>1, OnCloseSound
    <3> HIDE DEF c
    <3>4. Follows(e, f)
      BY <2>2, <3>2, <3>5, <3>a
        DEF Follows, Sound, Exchange, OneHead, Asking, Answering, Refreshing, Uploading, ResClosed
    <3>6. QED
      BY <3>3, <3>4 DEF Turns
  <2>3. QED
    BY <1>1, <1>6, <2>2 DEF RequestTimeout, Change
<1>7. QED
  BY <1>1, <1>2, <1>3, <1>5, <1>6 DEF Client, ClientGoes, Change

LEMMA InitForwardIInv == ForwardInit => ForwardIInv
<1> SUFFICES ASSUME ForwardInit PROVE ForwardIInv
  OBVIOUS
<1>1. ex = [r \in Requests |-> Fresh]
  BY DEF ForwardInit
<1>2. \A r \in Requests : ex[r] = Fresh
  BY <1>1
<1>3. ex = [r \in Requests |-> ex[r]]
  BY <1>1
<1>4. QED
  BY <1>2, <1>3, FreshIsSound DEF ForwardIInv

LEMMA NextFollows ==
  ForwardIInv /\ [ForwardNext]_forwardVars => ForwardIInv' /\ \A s \in Requests : Follows(ex[s], ex'[s])
<1> SUFFICES ASSUME ForwardIInv, [ForwardNext]_forwardVars
             PROVE  ForwardIInv' /\ \A s \in Requests : Follows(ex[s], ex'[s])
  OBVIOUS
<1>0. ASSUME UNCHANGED ex
      PROVE  ForwardIInv' /\ \A s \in Requests : Follows(ex[s], ex'[s])
  BY <1>0, SelfFollows DEF ForwardIInv
<1>1. ASSUME NEW r \in Requests, Turns(r)
      PROVE  ForwardIInv' /\ \A s \in Requests : Follows(ex[s], ex'[s])
  BY <1>1, OneChanges DEF Turns
<1>2. ASSUME NEW r \in Requests,
             Forward(r) \/ Refreshed(r) \/ Upstream(r) \/ UpstreamFails(r) \/ Hook(r) \/ Client(r) \/ ClientGoes(r)
      PROVE  ForwardIInv' /\ \A s \in Requests : Follows(ex[s], ex'[s])
  BY <1>1, <1>2, ForwardTurns, RefreshedTurns, UpstreamTurns, HookTurns, ClientTurns
<1>3. CASE AgentServes
  <2> DEFINE r == Head(queue)
  <2>1. CASE r \in Requests /\ ex[r].up = "queued"
    <3>1. PICK up \in {"connecting", "sent"} : ex' = [ex EXCEPT ![r].up = up]
      BY <1>3, <2>1 DEF AgentServes
    <3> DEFINE f == [ex[r] EXCEPT !.up = up]
    <3>2. Follows(ex[r], f)
      BY <2>1 DEF ForwardIInv, Follows, Sound, Exchange, OneHead, Asking, Answering, Refreshing, Uploading
    <3>3. ex' = [ex EXCEPT ![r] = f]
      BY <3>1
    <3>4. QED
      BY <1>1, <2>1, <3>2, <3>3 DEF Turns
  <2>2. CASE r \notin Requests
    <3>1. ex' = ex
      BY <1>3, <2>2 DEF AgentServes, ForwardIInv
    <3>2. QED
      BY <1>0, <3>1
  <2>3. CASE ex[r].up # "queued"
    BY <1>0, <1>3, <2>3 DEF AgentServes
  <2>4. QED
    BY <2>1, <2>2, <2>3
<1>4. CASE Close
  <2>1. ex' = [s \in Requests |-> DestroyUp(ex[s])]
    BY <1>4 DEF Close
  <2>2. \A s \in Requests : ex'[s] = DestroyUp(ex[s])
    BY <2>1
  <2>3. \A s \in Requests : Follows(ex[s], ex'[s])
    BY <2>2, DestroyUpSound DEF ForwardIInv
  <2>4. ex' = [s \in Requests |-> ex'[s]]
    BY <2>1
  <2>5. QED
    BY <2>3, <2>4 DEF ForwardIInv, Follows
<1>5. QED
  BY <1>0, <1>2, <1>3, <1>4 DEF ForwardNext, forwardVars

(* The invariant that ties the upstream request, the client's response, the *)
(* latch and the reader of the upload of each exchange together.            *)
THEOREM Invariance == ForwardSpec => []ForwardIInv
<1>1. ForwardIInv /\ [ForwardNext]_forwardVars => ForwardIInv'
  BY NextFollows
<1>2. QED
  BY InitForwardIInv, <1>1, PTL DEF ForwardSpec

(* The one-way latch of raw-http-passthrough.ts: with its retries, its      *)
(* timers and its hooks no exchange writes a second head, and no ended      *)
(* answer is destroyed.                                                     *)
THEOREM OutcomeIsOne == ForwardSpec => OneOutcome
<1>1. ForwardIInv /\ [ForwardNext]_forwardVars
        => [\A r \in Requests : /\ ex'[r].heads <= 1
                                /\ ex[r].res = "ended" => ex'[r].res # "destroyed"]_forwardVars
  BY NextFollows DEF Follows, Sound, OneHead
<1>2. QED
  BY Invariance, <1>1, PTL DEF ForwardSpec, OneOutcome

(* A socket of the upstream's agent, and an upload, are never held up by an *)
(* exchange that is over, whatever the number of either.                    *)
THEOREM NothingHeldUp == ForwardSpec => []NothingIsHeldUp
<1>1. ForwardIInv => NothingIsHeldUp
  <2> SUFFICES ASSUME ForwardIInv, NEW r \in Requests
               PROVE  /\ ex[r].up \in Live => \/ ex[r].res \notin ResClosed
                                              \/ ex[r].up = "half" /\ ex[r].upload = "piped"
                      /\ ex[r].local => ex[r].upload # "piped"
    BY DEF NothingIsHeldUp, NoOrphanUpstream, UploadIsRead
  <2>1. Sound(ex[r])
    BY DEF ForwardIInv
  <2>2. ex[r].up = "answering" => ex[r].res \notin ResClosed
    BY <2>1 DEF Sound, Answering, ResClosed
  <2>3. ex[r].up \in {"queued", "connecting", "sent"} => ex[r].res \notin ResClosed
    BY <2>1 DEF Sound, Asking, ResClosed
  <2>4. ex[r].up = "half" => ex[r].upload = "piped"
    BY <2>1 DEF Sound, Answering
  <2>5. ex[r].local => ex[r].upload # "piped"
    BY <2>1 DEF Sound, Uploading
  <2>6. QED
    BY <2>2, <2>3, <2>4, <2>5 DEF Live, Holding
<1>2. QED
  BY Invariance, <1>1, PTL

(***************************************************************************)
(* Server                                                                  *)
(***************************************************************************)

(***************************************************************************)
(* The invariant.  What has been read of a body is the beginning of it;    *)
(* where it has gone depends on who reads and who was given the request.   *)
(***************************************************************************)
RequestType ==
  [target : Targets \cup {"none"}, model : ModelNames \cup {NoModel}, leading : BOOLEAN, size : Nat,
   declared : BOOLEAN, expect : BOOLEAN, arrived : Nat, chunks : Seq(Nat), reader : Readers, sent : Seq(Nat),
   route : {"none", "local", "gateway", "anthropic", "provider", "413", "500"}]

TypeOK ==
  /\ req \in RequestType
  /\ conn \in {"open", "ending", "closed"}
  /\ res \in {"none", "open", "head", "ended", "finished"}
  /\ written \in Nat /\ baseline \in Nat

(* Both buffers are beginnings of the body, and one is bounded.             *)
Beginnings(r) ==
  /\ r.chunks = Pieces(Len(r.chunks)) /\ r.sent = Pieces(Len(r.sent))
  /\ Len(r.chunks) <= Limit(r) + 1
  /\ r.arrived <= r.size

Replied == {"ended", "finished"}

(* Who reads the upload of a request whose response is at rs.  A paused     *)
(* reader is left by the event that paused it, and a request nobody has     *)
(* begun to read belongs to an answer of the listener's own.                *)
ReaderFits(r, rs) ==
  /\ r.reader = "ingest" => /\ r.route = "none" /\ rs = "open" /\ r.sent = <<>>
                            /\ Len(r.chunks) = r.arrived /\ r.arrived <= Limit(r)
  /\ r.reader = "pipe" => r.route \in {"anthropic", "gateway"} /\ Len(r.sent) = r.arrived
  /\ r.reader = "drain" => rs \in Replied
  /\ r.reader = "none" => r.route = "local" /\ rs # "finished"
  /\ r.reader # "paused"

(* Whom the request was given to, and what that one has got.                *)
RouteFits(r, rs) ==
  /\ r.route = "provider" => r.reader = "ended" /\ Len(r.sent) = r.size /\ r.size <= Window
  /\ r.route \in {"anthropic", "gateway"} /\ r.reader = "ended" =>
       Len(r.sent) = r.size \/ rs \in Replied

Fits(r, rs) == Beginnings(r) /\ ReaderFits(r, rs) /\ RouteFits(r, rs)

(* How the bytes of the connection tell whether a response has begun: as    *)
(* long as it is open, a reply to a clientError being the last write.       *)
Counted ==
  conn = "open" =>
    /\ res \in {"none", "finished"} => written = baseline
    /\ res = "open" => written = baseline + (IF req.expect THEN 1 ELSE 0)
    /\ res \in {"head", "ended"} => written > baseline

ServerIInv == TypeOK /\ Fits(req, res) /\ Counted

(***************************************************************************)
(* Pieces of a body.                                                       *)
(***************************************************************************)
LEMMA PiecesLen ==
  ASSUME NEW n \in Nat PROVE Pieces(n) \in Seq(Nat) /\ Len(Pieces(n)) = n
BY DEF Pieces

LEMMA PiecesEmpty == Pieces(0) = <<>> /\ Len(<<>>) = 0
BY DEF Pieces

LEMMA PiecesAppend ==
  ASSUME NEW n \in Nat PROVE Append(Pieces(n), n + 1) = Pieces(n + 1)
<1>1. Pieces(n) \in Seq(Nat) /\ Len(Pieces(n)) = n
  BY PiecesLen
<1>2. Append(Pieces(n), n + 1) = [i \in 1 .. n + 1 |-> IF i <= n THEN Pieces(n)[i] ELSE n + 1]
  BY <1>1
<1>3. \A i \in 1 .. n + 1 : (IF i <= n THEN Pieces(n)[i] ELSE n + 1) = i
  BY DEF Pieces
<1>4. QED
  BY <1>2, <1>3 DEF Pieces

LEMMA LimitBounds ==
  ASSUME NEW r \in RequestType
  PROVE  Limit(r) \in Nat /\ (r.size <= Limit(r) => r.size <= Window)
BY WindowAssumption DEF Limit, RequestType

LEMMA NoRequestFields ==
  /\ NoRequest \in RequestType
  /\ NoRequest.arrived = 0 /\ NoRequest.chunks = <<>> /\ NoRequest.sent = <<>> /\ NoRequest.route = "none"
BY DEF NoRequest, RequestType, NoModel, Readers

LEMMA InitServerIInv == Init => ServerIInv
BY PiecesEmpty, WindowAssumption
   DEF Init, ServerIInv, TypeOK, RequestType, NoRequest, NoModel, Readers, Fits, Beginnings, ReaderFits, RouteFits, Limit, Counted
(***************************************************************************)
(* The operators of the handlers.                                          *)
(***************************************************************************)
LEMMA DrainedFields ==
  ASSUME NEW r \in RequestType
  PROVE  LET d == drainRejectedUpload(r) IN
         /\ d \in RequestType
         /\ d.reader = IF r.reader = "ended" THEN "ended" ELSE "drain"
         /\ d.route = r.route /\ d.size = r.size /\ d.declared = r.declared /\ d.expect = r.expect
         /\ d.arrived = r.arrived /\ d.chunks = r.chunks /\ d.sent = r.sent
BY DEF drainRejectedUpload, RequestType, Readers

(* The limit looks at the declared length only.                             *)
LEMMA SameLimit ==
  ASSUME NEW r, NEW d, d.size = r.size, d.declared = r.declared
  PROVE  Limit(d) = Limit(r)
BY DEF Limit

(* An answer of the listener's own, the upload drained.                     *)
LEMMA AnsweredFits ==
  ASSUME NEW r \in RequestType, Beginnings(r), r.sent = <<>>,
         NEW route \in {"413", "500", "local"}
  PROVE  LET d == drainRejectedUpload([r EXCEPT !.route = route]) IN
         d \in RequestType /\ Fits(d, "ended") /\ d.expect = r.expect
<1> DEFINE b == [r EXCEPT !.route = route]
           d == drainRejectedUpload(b)
<1>1. /\ b \in RequestType /\ b.reader = r.reader /\ b.route = route /\ b.size = r.size
      /\ b.declared = r.declared /\ b.expect = r.expect
      /\ b.arrived = r.arrived /\ b.chunks = r.chunks /\ b.sent = r.sent
  BY DEF RequestType
<1> HIDE DEF b
<1>2. /\ d \in RequestType
      /\ d.reader = IF b.reader = "ended" THEN "ended" ELSE "drain"
      /\ d.route = b.route /\ d.size = b.size /\ d.declared = b.declared /\ d.expect = b.expect
      /\ d.arrived = b.arrived /\ d.chunks = b.chunks /\ d.sent = b.sent
  BY <1>1, DrainedFields
<1> HIDE DEF d
<1>3. Limit(d) = Limit(r)
  BY <1>1, <1>2, SameLimit
<1>4. Fits(d, "ended")
  BY <1>1, <1>2, <1>3 DEF Fits, Beginnings, ReaderFits, RouteFits, Replied
<1>5. QED
  BY <1>1, <1>2, <1>4 DEF b, d

(* What the event that ends the reading of a body does, whoever gets the    *)
(* request: no piece that was read is lost.                                 *)
LEMMA DispatchFits ==
  ASSUME NEW r \in RequestType, NEW whole \in BOOLEAN, Dispatch(r, whole), TypeOK,
         Beginnings(r), Len(r.chunks) = r.arrived, r.sent = <<>>, r.route = "none", res = "open",
         whole => r.reader = "ended" /\ r.arrived = r.size /\ r.size <= Window,
         ~whole => r.reader = "paused"
  PROVE  /\ req' \in RequestType /\ Fits(req', res') /\ req'.expect = r.expect
         /\ \/ res' = "open" /\ written' = written
            \/ res' = "ended" /\ written' = written + 1
<1>1. CASE req' = ForwardAnthropic(r, whole) /\ NoAnswer
  <2> DEFINE f == ForwardAnthropic(r, whole)
  <2>1. /\ f \in RequestType /\ f.route = "anthropic" /\ f.sent = r.chunks
        /\ f.reader = IF whole THEN r.reader ELSE "pipe"
        /\ f.size = r.size /\ f.declared = r.declared /\ f.expect = r.expect
        /\ f.arrived = r.arrived /\ f.chunks = r.chunks
    BY DEF ForwardAnthropic, RequestType, Readers
  <2> HIDE DEF f
  <2>2. Limit(f) = Limit(r)
    BY <2>1, SameLimit
  <2>3. Fits(f, "open")
    BY <2>1, <2>2 DEF Fits, Beginnings, ReaderFits, RouteFits, Replied
  <2>4. QED
    BY <1>1, <2>1, <2>3 DEF NoAnswer, f
<1>2. CASE whole /\ req' = [r EXCEPT !.route = "provider", !.sent = r.chunks] /\ NoAnswer
  <2> DEFINE f == [r EXCEPT !.route = "provider", !.sent = r.chunks]
  <2>1. /\ f \in RequestType /\ f.route = "provider" /\ f.sent = r.chunks /\ f.reader = r.reader
        /\ f.size = r.size /\ f.declared = r.declared /\ f.expect = r.expect
        /\ f.arrived = r.arrived /\ f.chunks = r.chunks
    BY DEF RequestType
  <2> HIDE DEF f
  <2>2. Limit(f) = Limit(r)
    BY <2>1, SameLimit
  <2>3. Fits(f, "open")
    BY <1>2, <2>1, <2>2 DEF Fits, Beginnings, ReaderFits, RouteFits
  <2>4. QED
    BY <1>2, <2>1, <2>3 DEF NoAnswer, f
<1>3. CASE req' = drainRejectedUpload([r EXCEPT !.route = "413"]) /\ Answer
  BY <1>3, AnsweredFits DEF Answer
<1>4. CASE Thrown(r, whole)
  BY <1>4, AnsweredFits DEF Thrown, Answer
<1>5. QED
  BY <1>1, <1>2, <1>3, <1>4 DEF Dispatch

(***************************************************************************)
(* The steps.                                                              *)
(***************************************************************************)
LEMMA RequestKeeps == ServerIInv /\ Request => ServerIInv'
<1> SUFFICES ASSUME ServerIInv, Request PROVE ServerIInv'
  OBVIOUS
<1>1. PICK target \in Targets, model \in ModelNames \cup {NoModel}, leading \in BOOLEAN, declared \in BOOLEAN,
           expect \in BOOLEAN, size \in 0 .. MaxBody :
        LET r == [NoRequest EXCEPT !.target = target, !.model = model, !.leading = leading, !.size = size,
                                   !.declared = declared, !.expect = expect,
                                   !.reader = IF size = 0 THEN "ended" ELSE "none"]
        IN /\ size = 0 => ~declared /\ ~expect
           /\ target \notin {"messages", "count_tokens", "below"} => model = NoModel
           /\ model = NoModel => ~leading
           /\ req' = IF size = 0 /\ Listen(r).reader # "ingest" THEN [Listen(r) EXCEPT !.reader = "ended"]
                     ELSE Listen(r)
           /\ LET continue == IF expect THEN written + 1 ELSE written
              IN IF Listen(r).route = "local" THEN res' = "ended" /\ written' = continue + 1
                 ELSE res' = "open" /\ written' = continue
  BY DEF Request
<1> DEFINE r == [NoRequest EXCEPT !.target = target, !.model = model, !.leading = leading, !.size = size,
                                  !.declared = declared, !.expect = expect,
                                  !.reader = IF size = 0 THEN "ended" ELSE "none"]
           l == Listen(r)
           f == IF size = 0 /\ l.reader # "ingest" THEN [l EXCEPT !.reader = "ended"] ELSE l
<1>2. size \in Nat
  BY WindowAssumption
<1>3. /\ r \in RequestType /\ r.target = target /\ r.size = size /\ r.declared = declared /\ r.expect = expect
      /\ r.reader = (IF size = 0 THEN "ended" ELSE "none")
      /\ r.arrived = 0 /\ r.chunks = <<>> /\ r.sent = <<>> /\ r.route = "none"
  <2> DEFINE rd == IF size = 0 THEN "ended" ELSE "none"
             q == [NoRequest EXCEPT !.target = target, !.model = model, !.leading = leading, !.size = size,
                                    !.declared = declared, !.expect = expect, !.reader = rd]
  <2>1. rd \in Readers
    BY DEF Readers
  <2>2. r = q
    OBVIOUS
  <2> HIDE DEF rd, r
  <2>3. /\ q.target = target /\ q.model = model /\ q.leading = leading /\ q.size = size
        /\ q.declared = declared /\ q.expect = expect /\ q.reader = rd
        /\ q.arrived = 0 /\ q.chunks = <<>> /\ q.sent = <<>> /\ q.route = "none"
    BY NoRequestFields DEF RequestType
  <2>4. q \in RequestType
    BY <1>2, <2>1, NoRequestFields DEF RequestType
  <2>5. QED
    BY <2>2, <2>3, <2>4 DEF rd
<1>4. /\ req' = f
      /\ size = 0 => ~expect
      /\ res' = IF l.route = "local" THEN "ended" ELSE "open"
      /\ written' = (IF expect THEN written + 1 ELSE written) + (IF l.route = "local" THEN 1 ELSE 0)
  <2>1. written \in Nat
    BY DEF ServerIInv, TypeOK
  <2>2. QED
    BY <1>1, <2>1
<1> HIDE DEF r
<1>5. /\ l \in RequestType /\ l.expect = expect /\ l.size = size
      /\ l.arrived = 0 /\ l.chunks = <<>> /\ l.sent = <<>>
      /\ \/ l.route = "local" /\ l.reader = (IF size = 0 THEN "ended" ELSE "drain")
         \/ l.route = "local" /\ l.reader = (IF size = 0 THEN "ended" ELSE "none")
         \/ l.route \in {"gateway", "anthropic"} /\ l.reader = "pipe"
         \/ l.route = "none" /\ l.reader = "ingest"
  <2>1. CASE target \in {"foreign", "codexClosed"}
    <3> DEFINE b == [r EXCEPT !.route = "local"]
    <3>1. b \in RequestType /\ b.reader = r.reader /\ b.route = "local" /\ b.expect = r.expect /\ b.size = r.size
          /\ b.arrived = 0 /\ b.chunks = <<>> /\ b.sent = <<>>
      BY <1>3 DEF RequestType
    <3>2. l = drainRejectedUpload(b)
      BY <1>3, <2>1 DEF Listen
    <3> HIDE DEF b, l
    <3>3. QED
      BY <1>3, <3>1, <3>2, DrainedFields
  <2>2. CASE target = "health"
    <3>1. l = [r EXCEPT !.route = "local"]
      BY <1>3, <2>2 DEF Listen
    <3>2. QED
      BY <1>3, <3>1 DEF RequestType
  <2>3. CASE target = "gateway"
    <3>1. l = [r EXCEPT !.route = "gateway", !.reader = "pipe"]
      BY <1>3, <2>3 DEF Listen
    <3>2. QED
      BY <1>3, <3>1 DEF RequestType, Readers
  <2>4. CASE target = "other"
    <3>1. l = [r EXCEPT !.route = "anthropic", !.reader = "pipe"]
      BY <1>3, <2>4 DEF Listen
    <3>2. QED
      BY <1>3, <3>1 DEF RequestType, Readers
  <2>5. CASE target \notin {"foreign", "codexClosed", "health", "gateway", "other"}
    <3>1. l = [r EXCEPT !.reader = "ingest"]
      BY <1>3, <2>5 DEF Listen
    <3>2. QED
      BY <1>3, <3>1 DEF RequestType, Readers
  <2>6. QED
    BY <2>1, <2>2, <2>3, <2>4, <2>5
<1> HIDE DEF l
<1>6. /\ f \in RequestType /\ f.route = l.route /\ f.expect = expect /\ f.size = size
      /\ f.arrived = 0 /\ f.chunks = <<>> /\ f.sent = <<>>
      /\ f.reader = IF size = 0 /\ l.reader # "ingest" THEN "ended" ELSE l.reader
  BY <1>5 DEF RequestType, Readers
<1> HIDE DEF f
<1>7. Limit(f) \in Nat
  BY <1>6, LimitBounds
<1>8. Fits(f, res')
  BY <1>2, <1>4, <1>5, <1>6, <1>7, PiecesEmpty DEF Fits, Beginnings, ReaderFits, RouteFits, Replied
<1>9. Counted'
  <2>1. /\ conn = "open" /\ res \in {"none", "finished"} /\ baseline' = baseline
        /\ written \in Nat /\ baseline \in Nat
    BY DEF Request, Ready, ServerIInv, TypeOK
  <2>2. written = baseline
    BY <2>1 DEF ServerIInv, Counted
  <2>3. req'.expect = expect
    BY <1>4, <1>6
  <2>4. CASE expect
    BY <1>4, <2>1, <2>2, <2>3, <2>4 DEF Counted
  <2>5. CASE ~expect
    BY <1>4, <2>1, <2>2, <2>3, <2>5 DEF Counted
  <2>6. QED
    BY <2>4, <2>5
<1>10. TypeOK'
  BY <1>4, <1>6 DEF ServerIInv, TypeOK, Request
<1>11. QED
  BY <1>4, <1>8, <1>9, <1>10 DEF ServerIInv
(* A piece is kept in its place, forwarded in its place, or dropped.        *)
LEMMA DataKeeps == ServerIInv /\ Data => ServerIInv'
<1> SUFFICES ASSUME ServerIInv, Data PROVE ServerIInv'
  OBVIOUS
<1> DEFINE r == [req EXCEPT !.arrived = req.arrived + 1]
<1>1. /\ req \in RequestType /\ Fits(req, res) /\ Beginnings(req) /\ ReaderFits(req, res) /\ RouteFits(req, res)
      /\ Counted /\ TypeOK /\ conn = "open" /\ req.arrived < req.size
      /\ conn' = conn /\ baseline' = baseline
      /\ req.reader \in {"ingest", "pipe", "drain"}
  BY DEF ServerIInv, TypeOK, Fits, Data
<1>2. /\ r \in RequestType /\ r.arrived = req.arrived + 1 /\ r.arrived <= r.size /\ r.size = req.size
      /\ r.declared = req.declared /\ r.expect = req.expect /\ r.chunks = req.chunks /\ r.sent = req.sent
      /\ r.reader = req.reader /\ r.route = req.route /\ req.arrived \in Nat /\ Limit(r) = Limit(req)
  <2>1. req.arrived \in Nat /\ req.size \in Nat /\ req.arrived + 1 \in Nat
    BY <1>1 DEF RequestType
  <2>2. /\ r \in RequestType /\ r.arrived = req.arrived + 1 /\ r.size = req.size
        /\ r.declared = req.declared /\ r.expect = req.expect /\ r.chunks = req.chunks /\ r.sent = req.sent
        /\ r.reader = req.reader /\ r.route = req.route
    BY <1>1, <2>1 DEF RequestType
  <2> HIDE DEF r
  <2>3. Limit(r) = Limit(req)
    BY <2>2, SameLimit
  <2>4. QED
    BY <1>1, <2>1, <2>2, <2>3
<1>3. CASE r.reader = "ingest" /\ OnData(r)
  <2> DEFINE kept == [r EXCEPT !.chunks = Append(r.chunks, r.arrived)]
  <2>1. /\ req.route = "none" /\ res = "open" /\ req.sent = <<>> /\ Len(req.chunks) = req.arrived
        /\ req.arrived <= Limit(req) /\ req.chunks = Pieces(req.arrived)
    BY <1>1, <1>2, <1>3 DEF ReaderFits, Beginnings
  <2>2. Append(r.chunks, r.arrived) = Pieces(r.arrived)
    BY <1>2, <2>1, PiecesAppend
  <2>3. Pieces(r.arrived) \in Seq(Nat) /\ Len(Pieces(r.arrived)) = r.arrived
    BY <1>2, PiecesLen
  <2>4. /\ kept \in RequestType /\ kept.chunks = Pieces(r.arrived) /\ Len(kept.chunks) = r.arrived
        /\ kept.arrived = r.arrived
        /\ kept.size = r.size /\ kept.declared = r.declared /\ kept.expect = r.expect /\ kept.sent = r.sent
        /\ kept.reader = r.reader /\ kept.route = r.route
    BY <1>2, <2>2, <2>3 DEF RequestType
  <2>a. \/ r.arrived > Limit(r) /\ Dispatch([kept EXCEPT !.reader = "paused"], FALSE)
        \/ ~(r.arrived > Limit(r)) /\ req' = kept /\ NoAnswer
    BY <1>3 DEF OnData, Keep
  <2> HIDE DEF kept, r
  <2>5. Limit(r) \in Nat /\ r.arrived \in Nat
    BY <1>2, LimitBounds DEF RequestType
  <2>6. CASE ~(r.arrived > Limit(r)) /\ req' = kept /\ NoAnswer
    <3>1. Limit(kept) = Limit(r)
      BY <2>4, SameLimit
    <3>2. Fits(kept, "open")
      BY <1>2, <1>3, <2>1, <2>4, <2>5, <2>6, <3>1, PiecesEmpty DEF Fits, Beginnings, ReaderFits, RouteFits
    <3>3. QED
      BY <1>1, <1>2, <2>1, <2>4, <2>6, <3>2 DEF ServerIInv, TypeOK, Counted, NoAnswer
  <2>7. CASE r.arrived > Limit(r) /\ Dispatch([kept EXCEPT !.reader = "paused"], FALSE)
    <3> DEFINE p == [kept EXCEPT !.reader = "paused"]
    <3>1. /\ p \in RequestType /\ p.chunks = kept.chunks /\ p.arrived = kept.arrived
          /\ p.size = kept.size /\ p.declared = kept.declared /\ p.expect = kept.expect /\ p.sent = kept.sent
          /\ p.reader = "paused" /\ p.route = kept.route
      BY <2>4 DEF RequestType, Readers
    <3> HIDE DEF p
    <3>2. Limit(p) = Limit(r)
      BY <2>4, <3>1, SameLimit
    <3>3. Beginnings(p)
      BY <1>2, <2>1, <2>4, <2>5, <3>1, <3>2, PiecesEmpty DEF Beginnings
    <3>4. Dispatch(p, FALSE)
      BY <2>7 DEF p
    <3>5. /\ req' \in RequestType /\ Fits(req', res') /\ req'.expect = p.expect
          /\ \/ res' = "open" /\ written' = written
             \/ res' = "ended" /\ written' = written + 1
      BY <1>1, <1>2, <2>1, <2>4, <3>1, <3>3, <3>4, DispatchFits
    <3>6. QED
      BY <1>1, <1>2, <2>1, <2>4, <3>1, <3>5 DEF ServerIInv, TypeOK, Counted
  <2>8. QED
    BY <2>a, <2>6, <2>7
<1>4. CASE r.reader = "pipe" /\ req' = [r EXCEPT !.sent = Append(r.sent, r.arrived)] /\ NoAnswer
  <2> DEFINE f == [r EXCEPT !.sent = Append(r.sent, r.arrived)]
  <2>1. req.route \in {"gateway", "anthropic"} /\ Len(req.sent) = req.arrived /\ req.sent = Pieces(req.arrived)
    BY <1>1, <1>2, <1>4 DEF ReaderFits, Beginnings
  <2>2. Append(r.sent, r.arrived) = Pieces(r.arrived)
    BY <1>2, <2>1, PiecesAppend
  <2>3. Pieces(r.arrived) \in Seq(Nat) /\ Len(Pieces(r.arrived)) = r.arrived
    BY <1>2, PiecesLen
  <2>4. /\ f \in RequestType /\ f.sent = Pieces(r.arrived) /\ Len(f.sent) = r.arrived /\ f.arrived = r.arrived
        /\ f.size = r.size /\ f.declared = r.declared /\ f.expect = r.expect /\ f.chunks = r.chunks
        /\ f.reader = r.reader /\ f.route = r.route
    BY <1>2, <2>2, <2>3 DEF RequestType
  <2> HIDE DEF f, r
  <2>5. Limit(f) = Limit(r)
    BY <2>4, SameLimit
  <2>6. Fits(f, res)
    BY <1>1, <1>2, <1>4, <2>1, <2>4, <2>5 DEF Fits, Beginnings, ReaderFits, RouteFits
  <2>7. QED
    BY <1>1, <1>2, <1>4, <2>4, <2>6 DEF ServerIInv, TypeOK, Counted, NoAnswer, f
<1>5. CASE r.reader = "drain" /\ req' = r /\ NoAnswer
  <2> HIDE DEF r
  <2>1. Fits(r, res)
    BY <1>1, <1>2, <1>5 DEF Fits, Beginnings, ReaderFits, RouteFits
  <2>2. QED
    BY <1>1, <1>2, <1>5, <2>1 DEF ServerIInv, TypeOK, Counted, NoAnswer
<1>6. QED
  BY <1>1, <1>2, <1>3, <1>4, <1>5 DEF Data

LEMMA UploadEndKeeps == ServerIInv /\ UploadEnd => ServerIInv'
<1> SUFFICES ASSUME ServerIInv, UploadEnd PROVE ServerIInv'
  OBVIOUS
<1> DEFINE r == [req EXCEPT !.reader = "ended"]
<1>1. /\ req \in RequestType /\ Beginnings(req) /\ ReaderFits(req, res) /\ RouteFits(req, res)
      /\ Counted /\ TypeOK /\ conn = "open" /\ req.arrived = req.size
      /\ conn' = conn /\ baseline' = baseline
      /\ req.reader \in {"ingest", "pipe", "drain"}
  BY DEF ServerIInv, TypeOK, Fits, UploadEnd
<1>2. /\ r \in RequestType /\ r.arrived = req.arrived /\ r.size = req.size
      /\ r.declared = req.declared /\ r.expect = req.expect /\ r.chunks = req.chunks /\ r.sent = req.sent
      /\ r.reader = "ended" /\ r.route = req.route
  BY <1>1 DEF RequestType, Readers
<1>3. \/ req.reader = "ingest" /\ Dispatch(r, TRUE)
      \/ req.reader # "ingest" /\ req' = r /\ NoAnswer
  BY DEF UploadEnd
<1> HIDE DEF r
<1>4. Limit(r) = Limit(req) /\ (r.size <= Limit(r) => r.size <= Window)
  BY <1>2, SameLimit, LimitBounds
<1>5. Beginnings(r)
  BY <1>1, <1>2, <1>4 DEF Beginnings
<1>6. CASE req.reader = "ingest" /\ Dispatch(r, TRUE)
  <2>1. /\ req.route = "none" /\ res = "open" /\ req.sent = <<>> /\ Len(req.chunks) = req.arrived
        /\ req.arrived <= Limit(req)
    BY <1>1, <1>6 DEF ReaderFits
  <2>2. /\ req' \in RequestType /\ Fits(req', res') /\ req'.expect = r.expect
        /\ \/ res' = "open" /\ written' = written
           \/ res' = "ended" /\ written' = written + 1
    BY <1>1, <1>2, <1>4, <1>5, <1>6, <2>1, DispatchFits
  <2>3. QED
    BY <1>1, <1>2, <2>1, <2>2 DEF ServerIInv, TypeOK, Counted
<1>7. CASE req.reader # "ingest" /\ req' = r /\ NoAnswer
  <2>1. Fits(r, res)
    BY <1>1, <1>2, <1>5, <1>7 DEF Fits, ReaderFits, RouteFits
  <2>2. QED
    BY <1>1, <1>2, <1>7, <2>1 DEF ServerIInv, TypeOK, Counted, NoAnswer
<1>8. QED
  BY <1>3, <1>6, <1>7

(* What a handler does to the response, and to an upload it will not read.  *)
LEMMA HandlerKeeps == ServerIInv /\ Handler => ServerIInv'
<1> SUFFICES ASSUME ServerIInv, Handler PROVE ServerIInv'
  OBVIOUS
<1>1. /\ req \in RequestType /\ Beginnings(req) /\ ReaderFits(req, res) /\ RouteFits(req, res)
      /\ Counted /\ TypeOK /\ conn = "open" /\ written \in Nat /\ baseline \in Nat
      /\ req.route \in {"anthropic", "provider", "gateway"} /\ req.reader \notin {"ingest", "none"}
  BY DEF ServerIInv, TypeOK, Fits, ReaderFits, Handler, Handled, HandlerHead, HandlerAnswers, HandlerRejects,
         HandlerEnds, HandlerDestroys
<1>2. CASE UNCHANGED <<req, baseline, conn>> /\ res = "open" /\ res' \in {"head", "ended"} /\ written' = written + 1
  <2>1. written' > baseline'
    BY <1>1, <1>2 DEF Counted
  <2>2. Fits(req, res')
    BY <1>1, <1>2 DEF Fits, ReaderFits, RouteFits, Replied
  <2>3. QED
    BY <1>1, <1>2, <2>1, <2>2 DEF ServerIInv, TypeOK, Counted
<1>3. CASE UNCHANGED <<req, baseline, res, written>> /\ conn' = "closed"
  BY <1>1, <1>3 DEF ServerIInv, TypeOK, Counted, Fits
<1>4. CASE HandlerEnds
  <2>1. /\ res = "head" /\ res' = "ended" /\ written' = written + 1
        /\ req' = req /\ baseline' = baseline /\ conn' = conn
    BY <1>4 DEF HandlerEnds
  <2>2. Fits(req, res')
    BY <1>1, <2>1 DEF Fits, ReaderFits, RouteFits, Replied
  <2>3. written' > baseline'
    BY <1>1, <2>1 DEF Counted
  <2>4. QED
    BY <1>1, <2>1, <2>2, <2>3 DEF ServerIInv, TypeOK, Counted
<1>5. CASE HandlerAnswers
  <2>1. CASE req.reader = "pipe"
    <3> DEFINE f == [req EXCEPT !.reader = "drain"]
    <3>1. /\ f \in RequestType /\ f.reader = "drain" /\ f.route = req.route /\ f.size = req.size
          /\ f.declared = req.declared /\ f.expect = req.expect
          /\ f.arrived = req.arrived /\ f.chunks = req.chunks /\ f.sent = req.sent
      BY <1>1 DEF RequestType, Readers
    <3>2. req' = f /\ res = "open" /\ res' = "ended" /\ written' = written + 1 /\ baseline' = baseline /\ conn' = conn
      BY <1>5, <2>1 DEF HandlerAnswers, Answer
    <3> HIDE DEF f
    <3>3. Limit(f) = Limit(req)
      BY <3>1, SameLimit
    <3>4. Fits(f, "ended")
      BY <1>1, <2>1, <3>1, <3>3 DEF Fits, Beginnings, ReaderFits, RouteFits, Replied
    <3>5. written' > baseline'
      BY <1>1, <3>2 DEF Counted
    <3>6. QED
      BY <1>1, <3>1, <3>2, <3>4, <3>5 DEF ServerIInv, TypeOK, Counted
  <2>2. QED
    BY <1>2, <1>5, <2>1 DEF HandlerAnswers, Answer
<1>6. QED
  BY <1>2, <1>3, <1>4, <1>5 DEF Handler, HandlerHead, HandlerRejects, HandlerDestroys, Answer

LEMMA FinishKeeps == ServerIInv /\ Finish => ServerIInv'
<1> SUFFICES ASSUME ServerIInv, Finish PROVE ServerIInv'
  OBVIOUS
<1>1. /\ req \in RequestType /\ Beginnings(req) /\ ReaderFits(req, res) /\ RouteFits(req, res)
      /\ TypeOK /\ res = "ended" /\ res' = "finished" /\ baseline' = written /\ written' = written /\ conn' = conn
  BY DEF ServerIInv, TypeOK, Fits, Finish
<1>2. Counted'
  BY <1>1 DEF Counted
<1>3. CASE req.reader = "none"
  <2> DEFINE f == [req EXCEPT !.reader = "drain"]
  <2>1. /\ f \in RequestType /\ f.reader = "drain" /\ f.route = req.route /\ f.size = req.size
        /\ f.declared = req.declared
        /\ f.arrived = req.arrived /\ f.chunks = req.chunks /\ f.sent = req.sent
    BY <1>1 DEF RequestType, Readers
  <2>2. req' = f
    BY <1>3 DEF Finish
  <2> HIDE DEF f
  <2>3. Limit(f) = Limit(req)
    BY <2>1, SameLimit
  <2>4. Fits(f, "finished")
    BY <1>1, <1>3, <2>1, <2>3 DEF Fits, Beginnings, ReaderFits, RouteFits, Replied
  <2>5. QED
    BY <1>1, <1>2, <2>1, <2>2, <2>4 DEF ServerIInv, TypeOK
<1>4. CASE req.reader # "none"
  <2>1. req' = req
    BY <1>4 DEF Finish
  <2>2. Fits(req, "finished")
    BY <1>1, <1>4 DEF Fits, ReaderFits, RouteFits, Replied
  <2>3. QED
    BY <1>1, <1>2, <2>1, <2>2 DEF ServerIInv, TypeOK
<1>5. QED
  BY <1>3, <1>4

LEMMA NextIInv == ServerIInv /\ [Next]_vars => ServerIInv'
<1> SUFFICES ASSUME ServerIInv, [Next]_vars PROVE ServerIInv'
  OBVIOUS
<1>1. CASE UNCHANGED <<req, res, baseline>> /\ written' \in {written, written + 1} /\ conn' \in {"ending", "closed"}
  BY <1>1 DEF ServerIInv, TypeOK, Counted
<1>2. CASE UNCHANGED vars
  BY <1>2 DEF vars, ServerIInv, TypeOK, Counted
<1>3. CASE DrainBound \/ ClientError \/ ReplyFlushed \/ ClientLeaves
  BY <1>1, <1>3 DEF DrainBound, ClientError, ReplyFlushed, ClientLeaves
<1>4. QED
  BY <1>2, <1>3, RequestKeeps, DataKeeps, UploadEndKeeps, HandlerKeeps, FinishKeeps DEF Next

(* Where the pieces of a body are, and what the bytes written tell.         *)
THEOREM Inductive == Spec => []ServerIInv
BY InitServerIInv, NextIInv, PTL DEF Spec

(* Bodies of any length through windows of any size: no piece is lost,      *)
(* repeated or out of place, and no upload is left unread behind an answer. *)
THEOREM UploadsAccountedFor == Spec => []UploadIsAccountedFor
<1>1. ServerIInv => UploadIsAccountedFor
  <2> SUFFICES ASSUME ServerIInv PROVE UploadIsAccountedFor
    OBVIOUS
  <2>1. /\ req \in RequestType /\ Beginnings(req) /\ ReaderFits(req, res) /\ RouteFits(req, res)
    BY DEF ServerIInv, TypeOK, Fits
  <2>2. BodyIsWhole
    BY <2>1 DEF BodyIsWhole, Beginnings, ReaderFits, RouteFits, Replied
  <2>3. AnsweredUploadIsRead
    BY <2>1 DEF AnsweredUploadIsRead, RequestType, Readers, ReaderFits
  <2>4. QED
    BY <2>2, <2>3 DEF UploadIsAccountedFor
<1>2. QED
  BY Inductive, <1>1, PTL

(* The baseline of inbound-policy.ts: however many responses a connection   *)
(* has carried, the reply to a clientError is written into none that is     *)
(* under way, and is not withheld from a request of which nothing was       *)
(* written.  Of an answer that finished ahead of its upload it says nothing.*)
THEOREM RepliesAreClean == Spec => RepliesWhenClean
<1>1. ServerIInv /\ [Next]_vars =>
        [ClientError => /\ Begun => conn' = "closed"
                        /\ ~Begun /\ ~AheadOfUpload => conn' = "ending"]_vars
  <2> SUFFICES ASSUME ServerIInv, ClientError
               PROVE  /\ Begun => conn' = "closed"
                      /\ ~Begun /\ ~AheadOfUpload => conn' = "ending"
    OBVIOUS
  <2>1. /\ conn = "open" /\ written \in Nat /\ baseline \in Nat /\ req.expect \in BOOLEAN
        /\ res \in {"none", "open", "head", "ended", "finished"} /\ Counted
    BY DEF ServerIInv, TypeOK, RequestType, ClientError
  <2>2. Begun <=> written # baseline
    BY <2>1 DEF Counted, Begun
  <2>3. conn' = IF written = baseline THEN "ending" ELSE "closed"
    BY DEF ClientError, NothingWritten
  <2>4. QED
    BY <2>2, <2>3
<1>2. QED
  BY Inductive, <1>1, PTL DEF Spec, RepliesWhenClean

=================================================================================
