---------------------------- MODULE IPAllocation ----------------------------
(***************************************************************************)
(* The addresses InstanceService.Create gives to the VMs of one VPC:       *)
(* allocateIP counts the rows of the VPC and derives the last octet from   *)
(* the count, in byte arithmetic.  The count, the INSERT and the command   *)
(* that carries the address are separate steps of each request, and rows   *)
(* are deleted at any time.                                                *)
(*                                                                         *)
(* The network is a /24 or wider, so the last octet is all that varies.    *)
(***************************************************************************)
EXTENDS Naturals, FiniteSets

CONSTANTS
    Creator,     \* create requests; c also names its row and its VM
    Existing,    \* rows the VPC has already, created one after another
    MaxOpen,     \* bound: requests between their count and their INSERT
    MaxDelete,   \* bound: rows deleted
    Victim       \* bound: the octets whose earlier rows may be deleted

ASSUME BoundAssumption ==
    /\ IsFiniteSet(Creator)
    /\ Existing \in 0..244 /\ MaxOpen \in Nat \ {0} /\ MaxDelete \in Nat
    /\ Victim \subseteq 0..255

Octet == 0..255

\* Mutant of OctetFor: the addresses start at .12.
OctetFrom12(count) == (12 + count) % 256

\* vm4[3] = byte(11 + count)
OctetFor(count) == (11 + count) % 256

VARIABLES
    pc,       \* pc[c]: before CountByVPC, INSERT, the command; or "done"
    seen,     \* seen[c]: the count the request has read
    rows,     \* requests whose row is in the table
    vms,      \* requests whose VM has the address
    old,      \* octets of the earlier VMs, all of which have a row
    deletes   \* rows deleted so far

vars == <<pc, seen, rows, vms, old, deletes>>

TypeOK ==
    /\ pc \in [Creator -> {"count", "insert", "command", "done"}]
    /\ seen \in [Creator -> Nat]
    /\ rows \subseteq Creator
    /\ vms \subseteq Creator
    /\ old \subseteq Octet
    /\ deletes \in 0..MaxDelete

Init ==
    /\ pc = [c \in Creator |-> "count"]
    /\ seen = [c \in Creator |-> 0]
    /\ rows = {}
    /\ vms = {}
    /\ old = {OctetFor(count) : count \in 0..(Existing - 1)}
    /\ deletes = 0

Open == {c \in Creator : pc[c] = "insert"}

\* Mutant of CountByVPC: rows without an address yet are not counted.
CountAddressed == Cardinality(vms) + Cardinality(old)

\* InstanceStore.CountByVPC
CountByVPC == Cardinality(rows) + Cardinality(old)

\* allocateIP
Allocate(c) ==
    /\ pc[c] = "count"
    /\ Cardinality(Open) < MaxOpen
    /\ seen' = [seen EXCEPT ![c] = CountByVPC]
    /\ pc' = [pc EXCEPT ![c] = "insert"]
    /\ UNCHANGED <<rows, vms, old, deletes>>

\* InstanceStore.Create, which may fail
Insert(c) ==
    /\ pc[c] = "insert"
    /\ \/ rows' = rows \cup {c} /\ pc' = [pc EXCEPT ![c] = "command"]
       \/ rows' = rows /\ pc' = [pc EXCEPT ![c] = "done"]
    /\ UNCHANGED <<seen, vms, old, deletes>>

\* UpdateStatus with the address, which may fail, then Enqueue; neither looks
\* whether the row is still there.
Command(c) ==
    /\ pc[c] = "command"
    /\ vms' \in {vms, vms \cup {c}}
    /\ pc' = [pc EXCEPT ![c] = "done"]
    /\ UNCHANGED <<seen, rows, old, deletes>>

\* InstanceService.Delete of a row, with its VM if there is one already
Delete(c) ==
    /\ c \in rows
    /\ deletes < MaxDelete
    /\ rows' = rows \ {c}
    /\ vms' = vms \ {c}
    /\ deletes' = deletes + 1
    /\ UNCHANGED <<pc, seen, old>>

DeleteOld(octet) ==
    /\ octet \in old
    /\ deletes < MaxDelete
    /\ old' = old \ {octet}
    /\ deletes' = deletes + 1
    /\ UNCHANGED <<pc, seen, rows, vms>>

Next ==
    \/ \E c \in Creator : Allocate(c) \/ Insert(c) \/ Command(c) \/ Delete(c)
    \/ \E octet \in Victim : DeleteOld(octet)

Spec == Init /\ [][Next]_vars
-----------------------------------------------------------------------------
(* Properties *)

AddressOf(c) == OctetFor(seen[c])

Sharing(octet) ==
    Cardinality({c \in vms : AddressOf(c) = octet}) + Cardinality(old \cap {octet})

\* An address is shared only because of overlapping creates or of deletes, and
\* by no more VMs than those can explain: with one create at a time and no
\* delete, allocateIP gives every VM an address of its own.
SharingBound == \A c \in vms : Sharing(AddressOf(c)) <= MaxOpen + deletes

\* As long as the VPC holds at most 244 rows no VM gets the network or broadcast
\* address, the gateway .1 or one of the reserved .2 - .10: byte() does not wrap.
HostAddress ==
    Existing + Cardinality(Creator) <= 244 =>
        \A c \in vms : AddressOf(c) \in 11..254

\* service/instance.go:217 says that allocateIP picks the next address that is
\* available: no two VMs have the same.
NoSharedAddress == \A c \in vms : Sharing(AddressOf(c)) <= 1
=============================================================================
