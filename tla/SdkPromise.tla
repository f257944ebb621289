----------------------------- MODULE SdkPromise -----------------------------
(***************************************************************************)
(* What the SDK promises an application that makes one call at a time and  *)
(* is answered within the time limit: a call reaches the server once, and  *)
(* what the call returns is what the server decided about that same call.  *)
(* SdkClient.tla is shown to implement it.  The promise lasts until the    *)
(* first call that gives up waiting or overlaps another; a new session     *)
(* renews it.                                                              *)
(***************************************************************************)
CONSTANTS Opts, Topics, NoCall

VARIABLES
  call,       \* the call in progress and what the server decided, or NoCall
  returned,   \* the call that returned last, with its code, until the next
  accepted,   \* topics the server answered it would publish
  trust       \* the promise still holds

promiseVars == <<call, returned, accepted, trust>>

\* "none" until the server has decided.
Calls == [opt : Opts, topic : Topics, code : {"none", "ok", "failed"}]

Init == call = NoCall /\ returned = NoCall /\ accepted = {} /\ trust = TRUE

\* A call without a connection is refused at once.
Begin ==
  /\ trust /\ call = NoCall
  /\ \E o \in Opts, t \in Topics, code \in {"none", "failed"} :
        call' = [opt |-> o, topic |-> t, code |-> code]
  /\ returned' = NoCall
  /\ UNCHANGED <<accepted, trust>>

\* What the server makes of a call that it accepts.
Effect(c) ==
  CASE c.opt = "SUBSCRIBE" -> accepted \cup {c.topic}
    [] c.opt = "UNSUBSCRIBE" -> accepted \ {c.topic}
    [] OTHER -> accepted

Decide ==
  /\ trust /\ call # NoCall /\ call.code = "none"
  /\ \/ call' = [call EXCEPT !.code = "ok"] /\ accepted' = Effect(call)
     \/ call' = [call EXCEPT !.code = "failed"] /\ UNCHANGED accepted
  /\ UNCHANGED <<returned, trust>>

Return ==
  /\ trust /\ call # NoCall /\ call.code # "none"
  /\ returned' = call /\ call' = NoCall
  /\ UNCHANGED <<accepted, trust>>

\* A run-once collector drops its subscribers; a server that stops, all.
Forget ==
  /\ trust /\ accepted' \subseteq accepted
  /\ UNCHANGED <<call, returned, trust>>

Distrust ==
  /\ trust' = FALSE /\ call' = NoCall /\ returned' = NoCall /\ accepted' = {}

Renew ==
  /\ trust' = TRUE /\ call' = NoCall /\ returned' = NoCall /\ accepted' = {}

Next == Begin \/ Decide \/ Return \/ Forget \/ Distrust \/ Renew

Spec == Init /\ [][Next]_promiseVars
=============================================================================
