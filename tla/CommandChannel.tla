--------------------------- MODULE CommandChannel ---------------------------
(***************************************************************************)
(* What the controller's services may rely on when they hand a command to  *)
(* the dispatcher: for each node id the commands form a stream of which    *)
(* the agent sees a subsequence, in order and each at most once.  Nothing  *)
(* is promised about arrival: a run of waiting commands may be lost at any *)
(* moment.  NodeSession implements this module.                            *)
(***************************************************************************)
EXTENDS Naturals, Sequences

CONSTANTS Id,       \* node ids
          MaxCmd    \* bound: how many commands are ever issued

VARIABLES issued,     \* the last ticket handed out; tickets are 1, 2, ...
          pending,    \* pending[id]: tickets on their way to the node
          delivered   \* delivered[id]: tickets the agent started to execute

channelVars == <<issued, pending, delivered>>

Init ==
    /\ issued = 0
    /\ pending = [id \in Id |-> <<>>]
    /\ delivered = [id \in Id |-> <<>>]

Enqueue(id) ==
    /\ issued < MaxCmd
    /\ issued' = issued + 1
    /\ pending' = [pending EXCEPT ![id] = Append(@, issued + 1)]
    /\ UNCHANGED delivered

Deliver(id) ==
    \E n \in 1..Len(pending[id]) :
        /\ delivered' = [delivered EXCEPT ![id] = @ \o SubSeq(pending[id], 1, n)]
        /\ pending' = [pending EXCEPT ![id] = SubSeq(@, n + 1, Len(@))]
        /\ UNCHANGED issued

\* t is s with one run of neighbouring elements taken out, or s itself
LosesOneRun(s, t) ==
    \E m, n \in 0..Len(s) :
        m <= n /\ t = SubSeq(s, 1, m) \o SubSeq(s, n + 1, Len(s))

Lose ==
    /\ pending' = [id \in Id |-> pending'[id]]
    /\ \A id \in Id : LosesOneRun(pending[id], pending'[id])
    /\ UNCHANGED <<issued, delivered>>

Next == (\E id \in Id : Enqueue(id) \/ Deliver(id)) \/ Lose

Spec == Init /\ [][Next]_channelVars
=============================================================================
