---------------------------- MODULE FlowService -----------------------------
(***************************************************************************)
(* What an analyst is promised: a query over instructions l..r is answered *)
(* with the flow of exactly those instructions, whatever is cached, built, *)
(* lost or written by others in the meantime.  There is no cache here.     *)
(***************************************************************************)
EXTENDS DataFlow

CONSTANTS Proc

VARIABLES
  loaded,   \* instructions 1..loaded have their rules in the database
  asked,    \* asked[p]: the set of ranges p is waiting for (at most one)
  told      \* told[p]: the set of answers p holds (at most one)

serviceVars == <<loaded, asked, told>>

Ranges == {w \in (1..N) \X (1..N) : w[1] <= w[2]}

ServiceTypeOK ==
  /\ loaded \in 0..N
  /\ asked \in [Proc -> SUBSET Ranges]
  /\ told \in [Proc -> SUBSET (SUBSET Pairs)]

Init ==
  /\ loaded = 0
  /\ asked = [p \in Proc |-> {}]
  /\ told = [p \in Proc |-> {}]

Load == loaded' \in (loaded + 1)..N /\ UNCHANGED <<asked, told>>

(* Asking again discards the last answer. *)
Ask(p, w) ==
  /\ asked[p] = {}
  /\ w[2] <= loaded
  /\ asked' = [asked EXCEPT ![p] = {w}]
  /\ told' = [told EXCEPT ![p] = {}]
  /\ UNCHANGED loaded

Answer(p) ==
  \E w \in asked[p] :
    /\ asked' = [asked EXCEPT ![p] = {}]
    /\ told' = [told EXCEPT ![p] = {Flow(w[1], w[2])}]
    /\ UNCHANGED loaded

(* The process dies: the request is forgotten and so is the last answer.   *)
Fail(p) ==
  /\ asked' = [asked EXCEPT ![p] = {}]
  /\ told' = [told EXCEPT ![p] = {}]
  /\ UNCHANGED loaded

Next ==
  \/ Load
  \/ \E p \in Proc : \/ \E w \in Ranges : Ask(p, w)
                     \/ Answer(p)
                     \/ Fail(p)

Spec == Init /\ [][Next]_serviceVars
=============================================================================
