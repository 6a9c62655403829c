------------------------ MODULE IPAllocationProofs --------------------------
(***************************************************************************)
(* Proofs about IPAllocation, for any number of rows, of requests that     *)
(* overlap in any way, and of deletes: what byte arithmetic makes of the   *)
(* count, and how many VMs can share what it makes.                        *)
(***************************************************************************)
EXTENDS IPAllocation, FiniteSetTheorems, TLAPS

\* what a request has counted is less than what the table can ever hold
Bounded ==
    \A c \in Creator : pc[c] # "count" => seen[c] < Existing + Cardinality(Creator)

Inv ==
    /\ TypeOK
    /\ IsFiniteSet(old) /\ Cardinality(old) <= Existing
    /\ \A c \in Creator : pc[c] = "count" => c \notin rows
    /\ \A c \in vms : pc[c] # "count"
    /\ Bounded

LEMMA CreatorsCounted == IsFiniteSet(Creator) /\ Cardinality(Creator) \in Nat
BY BoundAssumption, FS_CardinalityType

LEMMA OctetIs ==
    ASSUME NEW n \in Nat
    PROVE  OctetFor(n) \in Octet /\ (n <= 243 => OctetFor(n) = 11 + n)
BY SMT DEF OctetFor, Octet

LEMMA InvInit == ASSUME Init PROVE Inv
<1>1. Existing \in Nat /\ MaxDelete \in Nat
  BY BoundAssumption, SMT
<1> DEFINE counts == 0..(Existing - 1)
           f == [n \in counts |-> OctetFor(n)]
<1>2. IsFiniteSet(counts) /\ Cardinality(counts) = Existing
  <2>1. 0 \in Int /\ Existing - 1 \in Int
    BY <1>1, SMT
  <2>2. IsFiniteSet(counts) /\ Cardinality(counts) =
           IF 0 > Existing - 1 THEN 0 ELSE Existing - 1 - 0 + 1
    BY <2>1, FS_Interval
  <2> QED
    BY <1>1, <2>2, SMT
<1>3. old = {OctetFor(n) : n \in counts}
  BY DEF Init
<1>4. f \in Surjection(counts, old)
  BY <1>3 DEF Surjection
<1> HIDE DEF f, counts
<1>5. IsFiniteSet(old) /\ Cardinality(old) <= Cardinality(counts)
  BY <1>2, <1>4, FS_Surjection
<1>6. old \subseteq Octet
  BY <1>1, <1>3, OctetIs, SMT DEF counts
<1>7. TypeOK
  BY <1>1, <1>6, SMT DEF Init, TypeOK
<1> QED
  BY <1>2, <1>5, <1>7 DEF Init, Inv, Bounded

LEMMA AllocateStep == ASSUME Inv, NEW c \in Creator, Allocate(c) PROVE Inv'
<1>1. /\ pc[c] = "count" /\ seen' = [seen EXCEPT ![c] = CountByVPC]
      /\ pc' = [pc EXCEPT ![c] = "insert"] /\ UNCHANGED <<rows, vms, old, deletes>>
  BY DEF Allocate
<1>2. CountByVPC \in Nat /\ CountByVPC < Existing + Cardinality(Creator)
  <2>1. rows \subseteq Creator \ {c}
    BY <1>1 DEF Inv, TypeOK
  <2>2. /\ IsFiniteSet(Creator \ {c})
        /\ Cardinality(Creator \ {c}) = Cardinality(Creator) - 1
    BY CreatorsCounted, FS_RemoveElement
  <2>3. IsFiniteSet(rows) /\ Cardinality(rows) <= Cardinality(Creator) - 1
    BY <2>1, <2>2, FS_Subset
  <2>4. Cardinality(rows) \in Nat /\ Cardinality(old) \in Nat
    BY <2>3, FS_CardinalityType DEF Inv
  <2>5. Cardinality(old) <= Existing /\ Existing \in Nat
    BY BoundAssumption, SMT DEF Inv
  <2> QED
    BY <2>3, <2>4, <2>5, CreatorsCounted, SMT DEF CountByVPC
<1>3. TypeOK'
  BY <1>1, <1>2 DEF Inv, TypeOK
<1>4. Bounded'
  BY <1>1, <1>2 DEF Inv, TypeOK, Bounded
<1> QED
  BY <1>1, <1>3, <1>4 DEF Inv, TypeOK

LEMMA InsertStep == ASSUME Inv, NEW c \in Creator, Insert(c) PROVE Inv'
BY DEF Insert, Inv, TypeOK, Bounded

LEMMA CommandStep == ASSUME Inv, NEW c \in Creator, Command(c) PROVE Inv'
BY DEF Command, Inv, TypeOK, Bounded

LEMMA DeleteStep == ASSUME Inv, NEW c \in Creator, Delete(c) PROVE Inv'
<1>1. deletes' \in 0..MaxDelete
  BY BoundAssumption, SMT DEF Delete, Inv, TypeOK
<1> QED
  BY <1>1 DEF Delete, Inv, TypeOK, Bounded

LEMMA DeleteOldStep == ASSUME Inv, NEW octet, DeleteOld(octet) PROVE Inv'
<1>1. deletes' \in 0..MaxDelete
  BY BoundAssumption, SMT DEF DeleteOld, Inv, TypeOK
<1>2. IsFiniteSet(old') /\ Cardinality(old') <= Existing
  <2>1. old' = old \ {octet}
    BY DEF DeleteOld
  <2>2. IsFiniteSet(old \ {octet}) /\ Cardinality(old \ {octet}) <= Cardinality(old)
    BY FS_Subset DEF Inv
  <2>3. /\ Cardinality(old) \in Nat /\ Cardinality(old \ {octet}) \in Nat
        /\ Cardinality(old) <= Existing /\ Existing \in Nat
    BY <2>2, BoundAssumption, FS_CardinalityType DEF Inv
  <2>4. Cardinality(old \ {octet}) <= Existing
    BY <2>2, <2>3, SMT
  <2> QED
    BY <2>1, <2>2, <2>4
<1> QED
  BY <1>1, <1>2 DEF DeleteOld, Inv, TypeOK, Bounded

LEMMA InvNext == ASSUME Inv, [Next]_vars PROVE Inv'
<1>1. CASE UNCHANGED vars
  BY <1>1 DEF vars, Inv, TypeOK, Bounded
<1> QED
  BY <1>1, AllocateStep, InsertStep, CommandStep, DeleteStep, DeleteOldStep DEF Next

LEMMA InRange == ASSUME Inv PROVE HostAddress
<1>1. SUFFICES ASSUME Existing + Cardinality(Creator) <= 244, NEW c \in vms
               PROVE  AddressOf(c) \in 11..254
  BY DEF HostAddress
<1>2. seen[c] \in Nat /\ seen[c] < Existing + Cardinality(Creator)
  BY <1>1 DEF Inv, TypeOK, Bounded
<1>3. seen[c] <= 243
  BY <1>1, <1>2, CreatorsCounted, BoundAssumption, SMT
<1>4. OctetFor(seen[c]) = 11 + seen[c]
  BY <1>2, <1>3, OctetIs
<1> QED
  BY <1>2, <1>3, <1>4, SMT DEF AddressOf

\* Every value stays in its type: what goes into the last byte fits it, however
\* many rows the VPC gets and however many requests and deletes there are.
THEOREM TypeCorrect == Spec => []TypeOK
<1>1. Init => Inv
  BY InvInit
<1>2. Inv /\ [Next]_vars => Inv'
  BY InvNext
<1>3. Inv => TypeOK
  BY DEF Inv
<1> QED
  BY <1>1, <1>2, <1>3, PTL DEF Spec

(***************************************************************************)
(* As long as the rows a VPC has and the creates still to come are 244 at  *)
(* most, no VM gets the network or broadcast address, the gateway or a     *)
(* reserved one (service/instance.go, allocateIP): the byte does not wrap, *)
(* in any overlap of counts, INSERTs, commands and deletes.                *)
(***************************************************************************)
THEOREM NoWrap == Spec => []HostAddress
<1>1. Init => Inv
  BY InvInit
<1>2. Inv /\ [Next]_vars => Inv'
  BY InvNext
<1>3. Inv => HostAddress
  BY InRange
<1> QED
  BY <1>1, <1>2, <1>3, PTL DEF Spec

-----------------------------------------------------------------------------
(* How many share an address.  A count is read when the table has that many *)
(* rows, and every INSERT that follows makes it longer: only a delete lets  *)
(* the same count be read again after an INSERT.                            *)

\* who got the count v and has, or may still get, a row or an address
Holders(v) == {c \in Creator : /\ c \in rows \/ c \in vms \/ pc[c] = "command"
                               /\ seen[c] = v}

\* who got the count v and has not inserted its row yet
Openers(v) == {c \in Creator : pc[c] = "insert" /\ seen[c] = v}

\* the earlier VM with the address for count v
Earlier(v) == IF v < Existing /\ OctetFor(v) \in old THEN 1 ELSE 0

Taken(v) == Cardinality(Holders(v)) + Earlier(v)

\* as many rows as the table would have without deletes
Grown == CountByVPC + deletes

SharingInv ==
    /\ old \subseteq {OctetFor(v) : v \in 0..(Existing - 1)}
    /\ \A c \in Creator : pc[c] \in {"count", "insert"} => c \notin rows /\ c \notin vms
    /\ \A c \in Creator : pc[c] # "count" => seen[c] <= Grown
    /\ \A v \in Nat : Taken(v) = 0 \/ v + Taken(v) <= Grown
    /\ \A v \in Nat : Taken(v) + Cardinality(Openers(v)) <= MaxOpen + deletes
    /\ Cardinality(Open) <= MaxOpen

LEMMA Finite ==
    ASSUME Inv, NEW v
    PROVE  /\ IsFiniteSet(Holders(v)) /\ IsFiniteSet(Openers(v)) /\ IsFiniteSet(Open)
           /\ IsFiniteSet(rows)
           /\ Cardinality(Holders(v)) \in Nat /\ Cardinality(Openers(v)) \in Nat
           /\ Cardinality(Open) \in Nat /\ Earlier(v) \in {0, 1} /\ Taken(v) \in Nat
           /\ Cardinality(rows) \in Nat /\ Cardinality(old) \in Nat /\ Grown \in Nat
           /\ MaxOpen \in Nat \ {0} /\ deletes \in Nat
<1>1. /\ Holders(v) \subseteq Creator /\ Openers(v) \subseteq Creator /\ Open \subseteq Creator
      /\ rows \subseteq Creator
    BY DEF Holders, Openers, Open, Inv, TypeOK
<1>2. /\ IsFiniteSet(Holders(v)) /\ IsFiniteSet(Openers(v)) /\ IsFiniteSet(Open)
      /\ IsFiniteSet(rows) /\ IsFiniteSet(old)
    BY <1>1, BoundAssumption, FS_Subset DEF Inv
<1>3. /\ Cardinality(Holders(v)) \in Nat /\ Cardinality(Openers(v)) \in Nat
      /\ Cardinality(Open) \in Nat /\ Cardinality(rows) \in Nat /\ Cardinality(old) \in Nat
    BY <1>2, FS_CardinalityType
<1>4. deletes \in Nat /\ MaxOpen \in Nat \ {0} /\ Earlier(v) \in {0, 1}
    BY BoundAssumption DEF Inv, TypeOK, Earlier
<1>5. Taken(v) \in Nat /\ Grown \in Nat
    BY <1>3, <1>4 DEF Taken, Grown, CountByVPC
<1> QED
    BY <1>2, <1>3, <1>4, <1>5

LEMMA AllocateShares ==
    ASSUME Inv, SharingInv, NEW c \in Creator, Allocate(c)
    PROVE  SharingInv'
<1>0. /\ pc[c] = "count" /\ seen' = [seen EXCEPT ![c] = CountByVPC]
      /\ pc' = [pc EXCEPT ![c] = "insert"] /\ UNCHANGED <<rows, vms, old, deletes>>
      /\ c \notin rows /\ c \notin vms /\ Cardinality(Open) < MaxOpen
    BY DEF Allocate, SharingInv
<1>1. /\ pc'[c] = "insert" /\ seen'[c] = CountByVPC
      /\ \A d \in Creator : d # c => pc'[d] = pc[d] /\ seen'[d] = seen[d]
    BY <1>0 DEF Inv, TypeOK
<1>2. Grown' = Grown /\ CountByVPC <= Grown /\ Grown = CountByVPC + deletes
      /\ CountByVPC \in Nat
    BY <1>0, Finite DEF Grown, CountByVPC
<1>3. ASSUME NEW v \in Nat PROVE Taken(v)' = Taken(v)
    <2>1. Holders(v)' = Holders(v)
      BY <1>0, <1>1 DEF Holders
    <2>2. Earlier(v)' = Earlier(v)
      BY <1>0 DEF Earlier
    <2> QED
      BY <2>1, <2>2 DEF Taken
<1>4. Open' = Open \cup {c} /\ c \notin Open
    BY <1>0, <1>1 DEF Open
<1>5. Cardinality(Open)' <= MaxOpen /\ IsFiniteSet(Open')
    <2>1. IsFiniteSet(Open \cup {c}) /\ Cardinality(Open \cup {c}) = Cardinality(Open) + 1
      BY <1>4, Finite, FS_AddElement
    <2> QED
      BY <1>0, <1>4, <2>1, Finite
<1>6. ASSUME NEW v \in Nat
      PROVE  Taken(v)' + Cardinality(Openers(v))' <= MaxOpen + deletes
    <2>1. CASE v = CountByVPC
      <3>1. Openers(v)' \subseteq Open'
        BY DEF Openers, Open
      <3>2. Cardinality(Openers(v)') <= Cardinality(Open') /\ IsFiniteSet(Openers(v)')
        BY <1>5, <3>1, FS_Subset
      <3>3. Cardinality(Openers(v)') \in Nat /\ Cardinality(Open') \in Nat
        BY <1>5, <3>2, FS_CardinalityType
      <3>4. Taken(v) <= deletes
        BY <1>2, <2>1, Finite DEF SharingInv
      <3> QED
        BY <1>3, <1>5, <3>2, <3>3, <3>4, Finite
    <2>2. CASE v # CountByVPC
      <3>1. Openers(v)' = Openers(v)
        BY <1>0, <1>1, <2>2 DEF Openers
      <3> QED
        BY <1>3, <3>1 DEF SharingInv
    <2> QED
      BY <2>1, <2>2
<1>7. \A v \in Nat : Taken(v)' = 0 \/ v + Taken(v)' <= Grown'
    BY <1>2, <1>3 DEF SharingInv
<1>8. \A d \in Creator : pc'[d] # "count" => seen'[d] <= Grown'
    BY <1>1, <1>2 DEF SharingInv
<1>9. \A d \in Creator : pc'[d] \in {"count", "insert"} => d \notin rows' /\ d \notin vms'
    BY <1>0, <1>1 DEF SharingInv
<1> QED
    BY <1>0, <1>5, <1>6, <1>7, <1>8, <1>9 DEF SharingInv

\* A step after which nobody new holds or awaits an address, and which deletes
\* as many rows as it says.
LEMMA NobodyNew ==
    ASSUME Inv, SharingInv, Grown' = Grown, deletes' \in Nat, deletes' >= deletes,
           old' \subseteq old, seen' = seen,
           \A c \in Creator : pc'[c] # "count" => pc[c] # "count",
           \A c \in Creator : pc'[c] = "insert" => pc[c] = "insert",
           \A c \in Creator : c \in rows' \/ c \in vms' \/ pc'[c] = "command" =>
                                 c \in rows \/ c \in vms \/ pc[c] = "command",
           \A c \in Creator : pc'[c] \in {"count", "insert"} => pc[c] \in {"count", "insert"},
           \A c \in Creator : pc'[c] \in {"count", "insert"} => c \notin rows' /\ c \notin vms'
    PROVE  SharingInv'
<1>1. ASSUME NEW v \in Nat
      PROVE  /\ Taken(v)' \in Nat /\ Taken(v)' <= Taken(v)
             /\ Cardinality(Openers(v)') \in Nat
             /\ Cardinality(Openers(v)') <= Cardinality(Openers(v))
    <2>1. Holders(v)' \subseteq Holders(v) /\ Openers(v)' \subseteq Openers(v)
      BY DEF Holders, Openers
    <2>2. /\ IsFiniteSet(Holders(v)') /\ Cardinality(Holders(v)') <= Cardinality(Holders(v))
          /\ IsFiniteSet(Openers(v)') /\ Cardinality(Openers(v)') <= Cardinality(Openers(v))
      BY <2>1, Finite, FS_Subset
    <2>3. Cardinality(Holders(v)') \in Nat /\ Cardinality(Openers(v)') \in Nat
      BY <2>2, FS_CardinalityType
    <2>4. Earlier(v)' \in {0, 1} /\ Earlier(v)' <= Earlier(v)
      BY DEF Earlier
    <2> QED
      BY <2>2, <2>3, <2>4, Finite DEF Taken
<1>2. Cardinality(Open') <= MaxOpen
    <2>1. Open' \subseteq Open
      BY DEF Open
    <2>2. IsFiniteSet(Open') /\ Cardinality(Open') <= Cardinality(Open)
      BY <2>1, Finite, FS_Subset
    <2> QED
      BY <2>2, Finite, FS_CardinalityType DEF SharingInv
<1>3. \A v \in Nat : Taken(v)' = 0 \/ v + Taken(v)' <= Grown'
    <2> TAKE v \in Nat
    <2>1. Taken(v)' \in Nat /\ Taken(v)' <= Taken(v)
      BY <1>1
    <2>2. Taken(v) \in Nat /\ Grown \in Nat
      BY Finite
    <2>3. Taken(v) = 0 \/ v + Taken(v) <= Grown
      BY DEF SharingInv
    <2> QED
      BY <2>1, <2>2, <2>3
<1>4. \A v \in Nat : Taken(v)' + Cardinality(Openers(v))' <= MaxOpen + deletes'
    BY <1>1, Finite DEF SharingInv
<1>5. \A c \in Creator : pc'[c] # "count" => seen'[c] <= Grown'
    BY DEF SharingInv
<1>6. old' \subseteq {OctetFor(v) : v \in 0..(Existing - 1)}
    BY DEF SharingInv
<1> QED
    BY <1>2, <1>3, <1>4, <1>5, <1>6 DEF SharingInv

\* The INSERT takes an address and makes the table longer.
LEMMA InsertShares ==
    ASSUME Inv, SharingInv, NEW c \in Creator, Insert(c)
    PROVE  SharingInv'
<1>0. /\ pc[c] = "insert" /\ UNCHANGED <<seen, vms, old, deletes>>
      /\ c \notin rows /\ c \notin vms /\ seen[c] \in Nat /\ seen[c] <= Grown
    BY DEF Insert, SharingInv, Inv, TypeOK
<1>1. CASE rows' = rows /\ pc' = [pc EXCEPT ![c] = "done"]
    <2>1. /\ pc'[c] = "done"
          /\ \A d \in Creator : d # c => pc'[d] = pc[d]
      BY <1>1 DEF Inv, TypeOK
    <2>2. Grown' = Grown /\ deletes' \in Nat /\ deletes' >= deletes
      BY <1>0, <1>1, Finite DEF Grown, CountByVPC
    <2>3. \A d \in Creator : pc'[d] \in {"count", "insert"} => d \notin rows' /\ d \notin vms'
      BY <1>0, <1>1, <2>1 DEF SharingInv
    <2> QED
      BY <1>0, <1>1, <2>1, <2>2, <2>3, NobodyNew
<1>2. CASE rows' = rows \cup {c} /\ pc' = [pc EXCEPT ![c] = "command"]
    <2>1. /\ pc'[c] = "command"
          /\ \A d \in Creator : d # c => pc'[d] = pc[d]
      BY <1>2 DEF Inv, TypeOK
    <2>2. Grown' = Grown + 1
      <3>1. Cardinality(rows \cup {c}) = Cardinality(rows) + 1
        BY <1>0, Finite, FS_AddElement
      <3> QED
        BY <1>0, <1>2, <3>1, Finite DEF Grown, CountByVPC
    <2>3. ASSUME NEW v \in Nat, v # seen[c]
          PROVE  Taken(v)' = Taken(v) /\ Openers(v)' = Openers(v)
      <3>1. Holders(v)' = Holders(v) /\ Openers(v)' = Openers(v)
        BY <1>0, <1>2, <2>1, <2>3 DEF Holders, Openers
      <3>2. Earlier(v)' = Earlier(v)
        BY <1>0 DEF Earlier
      <3> QED
        BY <3>1, <3>2 DEF Taken
    <2>4. Taken(seen[c])' = Taken(seen[c]) + 1
      <3> DEFINE v == seen[c]
      <3>1. Holders(v)' = Holders(v) \cup {c} /\ c \notin Holders(v)
        BY <1>0, <1>2, <2>1 DEF Holders
      <3>2. Cardinality(Holders(v) \cup {c}) = Cardinality(Holders(v)) + 1
        BY <3>1, Finite, FS_AddElement
      <3>3. Earlier(v)' = Earlier(v)
        BY <1>0 DEF Earlier
      <3> QED
        BY <1>0, <3>1, <3>2, <3>3, Finite DEF Taken
    <2>5. Cardinality(Openers(seen[c]))' = Cardinality(Openers(seen[c])) - 1
      <3>1. Openers(seen[c])' = Openers(seen[c]) \ {c} /\ c \in Openers(seen[c])
        BY <1>0, <2>1 DEF Openers
      <3>2. Cardinality(Openers(seen[c]) \ {c}) = Cardinality(Openers(seen[c])) - 1
        BY <3>1, Finite, FS_RemoveElement
      <3> QED
        BY <1>0, <3>1, <3>2
    <2>6. Cardinality(Open') <= MaxOpen
      <3>1. Open' = Open \ {c} /\ c \in Open
        BY <1>0, <2>1 DEF Open
      <3>2. Cardinality(Open \ {c}) = Cardinality(Open) - 1
        BY <3>1, Finite, FS_RemoveElement
      <3> QED
        BY <3>1, <3>2, Finite DEF SharingInv
    <2>7. \A v \in Nat : Taken(v)' = 0 \/ v + Taken(v)' <= Grown'
      <3> TAKE v \in Nat
      <3>a. Taken(v) \in Nat /\ Grown \in Nat
        BY Finite
      <3>b. Taken(v) = 0 \/ v + Taken(v) <= Grown
        BY DEF SharingInv
      <3>1. CASE v = seen[c]
        BY <1>0, <2>2, <2>4, <3>1, <3>a, <3>b
      <3>2. CASE v # seen[c]
        BY <2>2, <2>3, <3>2, <3>a, <3>b
      <3> QED
        BY <3>1, <3>2
    <2>8. \A v \in Nat : Taken(v)' + Cardinality(Openers(v))' <= MaxOpen + deletes'
      <3> TAKE v \in Nat
      <3>1. CASE v = seen[c]
        BY <1>0, <2>4, <2>5, <3>1, Finite DEF SharingInv
      <3>2. CASE v # seen[c]
        BY <1>0, <2>3, <3>2 DEF SharingInv
      <3> QED
        BY <3>1, <3>2
    <2>9. \A d \in Creator : pc'[d] # "count" => seen'[d] <= Grown'
      BY <1>0, <2>1, <2>2, Finite DEF SharingInv, Inv, TypeOK
    <2>10. \A d \in Creator : pc'[d] \in {"count", "insert"} => d \notin rows' /\ d \notin vms'
      BY <1>0, <1>2, <2>1 DEF SharingInv
    <2> QED
      BY <1>0, <2>6, <2>7, <2>8, <2>9, <2>10 DEF SharingInv
<1> QED
    BY <1>1, <1>2 DEF Insert

LEMMA CommandShares ==
    ASSUME Inv, SharingInv, NEW c \in Creator, Command(c)
    PROVE  SharingInv'
<1>0. /\ pc[c] = "command" /\ pc' = [pc EXCEPT ![c] = "done"]
      /\ vms' \subseteq vms \cup {c} /\ UNCHANGED <<seen, rows, old, deletes>>
    BY DEF Command
<1>1. /\ pc'[c] = "done"
      /\ \A d \in Creator : d # c => pc'[d] = pc[d]
    BY <1>0 DEF Inv, TypeOK
<1>2. Grown' = Grown /\ deletes' \in Nat /\ deletes' >= deletes
    BY <1>0, Finite DEF Grown, CountByVPC
<1>3. \A d \in Creator : pc'[d] \in {"count", "insert"} => d \notin rows' /\ d \notin vms'
    BY <1>0, <1>1 DEF SharingInv
<1> QED
    BY <1>0, <1>1, <1>2, <1>3, NobodyNew

\* A delete makes up for the row it takes away.
LEMMA DeleteShares ==
    ASSUME Inv, SharingInv, NEW c \in Creator, Delete(c)
    PROVE  SharingInv'
<1>0. /\ c \in rows /\ rows' = rows \ {c} /\ vms' = vms \ {c} /\ deletes' = deletes + 1
      /\ UNCHANGED <<pc, seen, old>>
    BY DEF Delete
<1>1. Grown' = Grown /\ deletes' \in Nat /\ deletes' >= deletes
    <2>1. Cardinality(rows \ {c}) = Cardinality(rows) - 1
      BY <1>0, Finite, FS_RemoveElement
    <2> QED
      BY <1>0, <2>1, Finite DEF Grown, CountByVPC
<1>2. \A d \in Creator : pc'[d] \in {"count", "insert"} => d \notin rows' /\ d \notin vms'
    BY <1>0 DEF SharingInv
<1> QED
    BY <1>0, <1>1, <1>2, NobodyNew

LEMMA DeleteOldShares ==
    ASSUME Inv, SharingInv, NEW octet, DeleteOld(octet)
    PROVE  SharingInv'
<1>0. /\ octet \in old /\ old' = old \ {octet} /\ deletes' = deletes + 1
      /\ UNCHANGED <<pc, seen, rows, vms>>
    BY DEF DeleteOld
<1>1. Grown' = Grown /\ deletes' \in Nat /\ deletes' >= deletes
    <2>1. Cardinality(old \ {octet}) = Cardinality(old) - 1
      BY <1>0, FS_RemoveElement DEF Inv
    <2> QED
      BY <1>0, <2>1, Finite DEF Grown, CountByVPC
<1>2. \A d \in Creator : pc'[d] \in {"count", "insert"} => d \notin rows' /\ d \notin vms'
    BY <1>0 DEF SharingInv
<1> QED
    BY <1>0, <1>1, <1>2, NobodyNew

\* The counts of a VPC that holds 245 rows at most have octets of their own.
LEMMA OctetDiffers ==
    ASSUME NEW v \in 0..255, NEW w \in 0..255, OctetFor(v) = OctetFor(w)
    PROVE  v = w
<1>1. ASSUME NEW n \in 0..255
      PROVE  \/ n \in 0..244 /\ OctetFor(n) = 11 + n
             \/ n \in 245..255 /\ OctetFor(n) = n - 245
    BY SMT DEF OctetFor
<1>2. /\ \/ v \in 0..244 /\ OctetFor(v) = 11 + v
         \/ v \in 245..255 /\ OctetFor(v) = v - 245
      /\ \/ w \in 0..244 /\ OctetFor(w) = 11 + w
         \/ w \in 245..255 /\ OctetFor(w) = w - 245
    BY <1>1
<1>3. 11 + v = 11 + w => v = w
    OBVIOUS
<1>4. v - 245 = w - 245 => v = w
    OBVIOUS
<1>5. v \in 0..244 /\ w \in 245..255 => 11 + v # w - 245
    OBVIOUS
<1>6. w \in 0..244 /\ v \in 245..255 => 11 + w # v - 245
    OBVIOUS
<1> QED
    BY <1>2, <1>3, <1>4, <1>5, <1>6, Zenon

LEMMA OldAreAll ==
    ASSUME Init
    PROVE  Cardinality(old) = Existing
<1>1. Existing \in 0..244
    BY BoundAssumption
<1> DEFINE counts == 0..(Existing - 1)
           f == [n \in counts |-> OctetFor(n)]
<1>2. IsFiniteSet(counts) /\ Cardinality(counts) = Existing
    <2>1. 0 \in Int /\ Existing - 1 \in Int
      BY <1>1
    <2>2. IsFiniteSet(counts) /\ Cardinality(counts) =
             IF 0 > Existing - 1 THEN 0 ELSE Existing - 1 - 0 + 1
      BY <2>1, FS_Interval
    <2> QED
      BY <1>1, <2>2
<1>3. old = {OctetFor(n) : n \in counts}
    BY DEF Init
<1>4. f \in Bijection(counts, old)
    <2>1. f \in Surjection(counts, old)
      BY <1>3 DEF Surjection
    <2>2. ASSUME NEW v \in counts, NEW w \in counts, f[v] = f[w] PROVE v = w
      <3>1. v \in 0..255 /\ w \in 0..255 /\ OctetFor(v) = OctetFor(w)
        BY <1>1, <2>2
      <3> QED
        BY <3>1, OctetDiffers
    <2>3. f \in Injection(counts, old)
      <3>1. f \in [counts -> old]
        BY <2>1 DEF Surjection
      <3> HIDE DEF f, counts
      <3> QED
        BY <2>2, <3>1 DEF Injection, IsInjective
    <2> QED
      BY <2>1, <2>3 DEF Bijection
<1> HIDE DEF f, counts
<1> QED
    BY <1>2, <1>4, FS_Bijection DEF ExistsBijection

LEMMA InitShares ==
    ASSUME Init
    PROVE  SharingInv
<1>0. /\ Existing \in 0..244 /\ MaxOpen \in Nat \ {0}
      /\ pc = [c \in Creator |-> "count"] /\ rows = {} /\ vms = {} /\ deletes = 0
    BY BoundAssumption DEF Init
<1>1. Cardinality({}) = 0
    BY FS_EmptySet
<1>2. Grown = Existing
    BY <1>0, <1>1, OldAreAll DEF Grown, CountByVPC
<1>3. Cardinality(Open) = 0
    <2>1. Open = {}
      BY <1>0 DEF Open
    <2> QED
      BY <1>1, <2>1
<1>4. ASSUME NEW v \in Nat
      PROVE  Cardinality(Openers(v)) = 0 /\ Taken(v) = Earlier(v)
    <2>1. Openers(v) = {} /\ Holders(v) = {}
      BY <1>0 DEF Openers, Holders
    <2>2. Earlier(v) \in {0, 1}
      BY DEF Earlier
    <2> QED
      BY <1>1, <2>1, <2>2 DEF Taken
<1>5. \A v \in Nat : Taken(v) = 0 \/ v + Taken(v) <= Grown
    BY <1>0, <1>2, <1>4 DEF Earlier
<1>6. \A v \in Nat : Taken(v) + Cardinality(Openers(v)) <= MaxOpen + deletes
    BY <1>0, <1>4 DEF Earlier
<1>7. old \subseteq {OctetFor(v) : v \in 0..(Existing - 1)}
    BY DEF Init
<1> QED
    BY <1>0, <1>3, <1>5, <1>6, <1>7 DEF SharingInv

LEMMA SharingNext ==
    ASSUME Inv, SharingInv, [Next]_vars
    PROVE  SharingInv'
<1>1. CASE UNCHANGED vars
    BY <1>1 DEF vars, SharingInv, Holders, Openers, Open, Earlier, Taken, Grown, CountByVPC
<1>2. CASE Next
    <2>1. ASSUME NEW c \in Creator, Allocate(c) \/ Insert(c) \/ Command(c) \/ Delete(c)
          PROVE  SharingInv'
      BY <2>1, AllocateShares, InsertShares, CommandShares, DeleteShares
    <2>2. ASSUME NEW octet \in Victim, DeleteOld(octet)
          PROVE  SharingInv'
      BY <2>2, DeleteOldShares
    <2> QED
      BY <1>2, <2>1, <2>2 DEF Next
<1> QED
    BY <1>1, <1>2

\* As long as no two counts have the same octet, an address is shared by no more
\* than got the same count.
LEMMA SharedIsTaken ==
    ASSUME Inv, SharingInv, Existing + Cardinality(Creator) <= 256, NEW c \in vms
    PROVE  Sharing(AddressOf(c)) \in Nat /\ Sharing(AddressOf(c)) <= Taken(seen[c])
<1> DEFINE v == seen[c]
           octet == AddressOf(c)
<1>1. \A d \in vms : d \in Creator /\ seen[d] \in 0..255
    <2> SUFFICES ASSUME NEW d \in vms
                 PROVE  d \in Creator /\ seen[d] \in 0..255
      OBVIOUS
    <2>1. d \in Creator /\ pc[d] # "count" /\ seen[d] \in Nat
      BY DEF Inv, TypeOK
    <2>2. seen[d] < Existing + Cardinality(Creator)
      BY <2>1 DEF Inv, Bounded
    <2> QED
      BY <2>1, <2>2, CreatorsCounted, BoundAssumption
<1>2. v \in 0..255 /\ v \in Nat /\ octet = OctetFor(v)
    BY <1>1 DEF AddressOf
<1>3. {d \in vms : AddressOf(d) = octet} \subseteq Holders(v)
    BY <1>1, <1>2, OctetDiffers DEF AddressOf, Holders
<1>4. /\ Cardinality({d \in vms : AddressOf(d) = octet}) \in Nat
      /\ Cardinality({d \in vms : AddressOf(d) = octet}) <= Cardinality(Holders(v))
    BY <1>3, Finite, FS_Subset, FS_CardinalityType
<1>5. Cardinality(old \cap {octet}) = IF octet \in old THEN 1 ELSE 0
    <2>1. CASE octet \in old
      <3>1. old \cap {octet} = {octet}
        BY <2>1
      <3> QED
        BY <2>1, <3>1, FS_Singleton
    <2>2. CASE octet \notin old
      <3>1. old \cap {octet} = {}
        BY <2>2
      <3> QED
        BY <2>2, <3>1, FS_EmptySet
    <2> QED
      BY <2>1, <2>2
<1>6. octet \in old => v < Existing
    <2> SUFFICES ASSUME octet \in old
                 PROVE  v < Existing
      OBVIOUS
    <2>1. PICK w \in 0..(Existing - 1) : octet = OctetFor(w)
      BY DEF SharingInv
    <2>2. w \in 0..255 /\ w < Existing
      BY BoundAssumption
    <2> QED
      BY <1>2, <2>1, <2>2, OctetDiffers
<1>7. Cardinality(old \cap {octet}) = Earlier(v)
    BY <1>2, <1>5, <1>6 DEF Earlier
<1> HIDE DEF v, octet
<1> QED
    BY <1>4, <1>7, Finite DEF Sharing, Taken, v, octet

(***************************************************************************)
(* A shared address is explained by overlapping creates and by deletes     *)
(* (service/instance.go, allocateIP; store CountByVPC and Create): while   *)
(* the rows a VPC has had and the creates still to come are no more than   *)
(* there are octets, no more VMs share one than requests overlap between   *)
(* count and INSERT, plus the rows deleted.                                *)
(***************************************************************************)
THEOREM SharingIsBounded ==
    Existing + Cardinality(Creator) <= 256 => (Spec => []SharingBound)
<1> SUFFICES ASSUME Existing + Cardinality(Creator) <= 256
             PROVE  Spec => []SharingBound
    OBVIOUS
<1>1. Init => Inv /\ SharingInv
    BY InvInit, InitShares
<1>2. (Inv /\ SharingInv) /\ [Next]_vars => (Inv /\ SharingInv)'
    BY InvNext, SharingNext
<1>3. Inv /\ SharingInv => SharingBound
    <2> SUFFICES ASSUME Inv, SharingInv, NEW c \in vms
                 PROVE  Sharing(AddressOf(c)) <= MaxOpen + deletes
      BY DEF SharingBound
    <2>1. Sharing(AddressOf(c)) <= Taken(seen[c])
      BY SharedIsTaken
    <2>2. seen[c] \in Nat
      BY DEF Inv, TypeOK
    <2>3. Taken(seen[c]) + Cardinality(Openers(seen[c])) <= MaxOpen + deletes
      BY <2>2 DEF SharingInv
    <2>4. /\ Taken(seen[c]) \in Nat /\ Cardinality(Openers(seen[c])) \in Nat
          /\ MaxOpen \in Nat /\ deletes \in Nat /\ Sharing(AddressOf(c)) \in Nat
      BY Finite, SharedIsTaken
    <2> QED
      BY <2>1, <2>3, <2>4
<1> QED
    BY <1>1, <1>2, <1>3, PTL DEF Spec

(***************************************************************************)
(* What service/instance.go:217 says of allocateIP, the next address that  *)
(* is available, is true of creates that follow one another until the      *)
(* first row is deleted: no two VMs have the same.  IPAllocationShared.cfg *)
(* shows that one delete is enough to make it false.                       *)
(***************************************************************************)
THEOREM OwnUntilDelete ==
    MaxOpen = 1 /\ Existing + Cardinality(Creator) <= 256
        => (Spec => [](deletes = 0 => NoSharedAddress))
<1> SUFFICES ASSUME MaxOpen = 1, Existing + Cardinality(Creator) <= 256
             PROVE  Spec => [](deletes = 0 => NoSharedAddress)
    OBVIOUS
<1>1. Spec => []SharingBound
    BY SharingIsBounded
<1>2. SharingBound => (deletes = 0 => NoSharedAddress)
    BY DEF SharingBound, NoSharedAddress
<1> QED
    BY <1>1, <1>2, PTL

===============================================================================
