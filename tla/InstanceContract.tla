-------------------------- MODULE InstanceContract --------------------------
(***************************************************************************)
(* What an operator may rely on for an instance, whatever clients do at    *)
(* the same time and whatever is lost or crashes: it has one home; its     *)
(* domain and its files are made once at most, the domain only where no    *)
(* other of that name is; they go away only after a delete was handed to   *)
(* the dispatcher; the row goes after that too, and for good.  Nothing is  *)
(* promised about when, and a domain may still be made after its row went. *)
(* InstanceLifecycle implements this module.                               *)
(***************************************************************************)

CONSTANTS Node,     \* nodes
          Inst,     \* instances
          NameOf,   \* NameOf[i]: the name of i, which others may have too
          NoNode    \* the home of an instance that was not placed

VARIABLES
    home,      \* home[i]: the node PickNode chose
    domain,    \* domain[i]: still to be made, there, or past
    files,     \* files[i]: the same of the directory with its disk
    told,      \* instances of which a delete was handed to the dispatcher
    erased     \* instances whose row was deleted

contractVars == <<home, domain, files, told, erased>>

Stage == {"early", "there", "past"}

Init ==
    /\ home = [i \in Inst |-> NoNode]
    /\ domain = [i \in Inst |-> "early"]
    /\ files = [i \in Inst |-> "early"]
    /\ told = {}
    /\ erased = {}

\* An instance is placed once and never moves.
HomeKept(i) == home[i] = NoNode \/ home'[i] = home[i]

\* Same node, same name: libvirt there finds the one for the other.
Namesake(i, j) == NameOf[j] = NameOf[i] /\ home[j] = home[i]

DomainMade(i) ==
    /\ domain[i] = "early" /\ domain'[i] = "there"
    /\ home[i] # NoNode
    /\ \A j \in Inst \ {i} : Namesake(i, j) => domain'[j] # "there"

\* The executor finds domains by name: a delete may reach that of a namesake.
DomainGone(i) ==
    /\ domain[i] = "there" /\ domain'[i] = "past"
    /\ \E j \in told : Namesake(i, j)

FilesMade(i) == files[i] = "early" /\ files'[i] = "there" /\ home[i] # NoNode

\* Files are found by id.
FilesGone(i) == files[i] = "there" /\ files'[i] = "past" /\ i \in told

\* What was not made when its create ended never will be.
GivenUp(before, after) == before = "early" /\ after = "past"

DomainStep(i) ==
    \/ domain'[i] = domain[i] \/ GivenUp(domain[i], domain'[i])
    \/ DomainMade(i) \/ DomainGone(i)

FilesStep(i) ==
    \/ files'[i] = files[i] \/ GivenUp(files[i], files'[i])
    \/ FilesMade(i) \/ FilesGone(i)

\* A crash or a reboot ends the work on many instances at once.
Next ==
    /\ home' \in [Inst -> Node \cup {NoNode}]
    /\ domain' \in [Inst -> Stage]
    /\ files' \in [Inst -> Stage]
    /\ \A i \in Inst : HomeKept(i) /\ DomainStep(i) /\ FilesStep(i)
    /\ told \subseteq told' /\ told' \subseteq Inst
    /\ erased \subseteq erased' /\ erased' \ erased \subseteq told

Spec == Init /\ [][Next]_contractVars

\* Nothing is there of an instance that was not placed.
PlacedFirst == \A i \in Inst : domain[i] = "there" => home[i] # NoNode

\* libvirt never has two domains of one name on one node.
OneOfAName ==
    \A i, j \in Inst :
        domain[i] = "there" /\ domain[j] = "there" /\ Namesake(i, j) => i = j
=============================================================================
