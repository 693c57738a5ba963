-------------------------- MODULE TeamsRelayProofs --------------------------
(***************************************************************************)
(* Safety of the Teams relay for every finite set of activities and every  *)
(* limit, and that each of its steps is one RelayPromise allows.  The      *)
(* puller works on a batch it read before: the inductive invariant says    *)
(* what of the queue and of its own memory still holds when it acts.       *)
(***************************************************************************)
EXTENDS TeamsRelay, FiniteSetTheorems, SequenceTheorems, WellFoundedInduction, TLAPS

Row == [at : {"none", "visible", "leased", "gone"}, count : 0..MaxCount]
Held == {"visible", "leased"}
InBatch(c) == \E i \in DOMAIN batch : batch[i][1] = c

(* The items of a batch are different copies, none of which can have been  *)
(* acknowledged or handed out again: the puller pulls no other batch until *)
(* it is through.                                                          *)
Batch ==
    /\ batch \in Seq(Copies \X (1..MaxCount))
    /\ \A i \in DOMAIN batch : /\ rows[batch[i][1]].at \in Held
                               /\ rows[batch[i][1]].count = batch[i][2]
    /\ \A i, j \in DOMAIN batch : batch[i][1] = batch[j][1] => i = j

(* A copy that came too often is acknowledged when it comes, so each       *)
(* delivery beyond the limit but one was the fault of a lost answer.       *)
Counts ==
    \A c \in Copies :
       rows[c].at # "gone" => /\ rows[c].count <= MaxDeliveries + faults + 1
                              /\ InBatch(c) \/ rows[c].count <= MaxDeliveries + faults

(* Why the current item is handled or only acknowledged. *)
Decision ==
    /\ step = "handling" => /\ Receipt <= MaxDeliveries
                            /\ Activity \in tried \ Unreadable /\ ~InSeen
    /\ step = "acking" => Activity \in Unreadable \cup done \/ Receipt > MaxDeliveries

(* The memory is the end of what this process handled, without repetition. *)
Memory ==
    /\ Len(seen) = IF Len(handled) < SeenCapacity THEN Len(handled) ELSE SeenCapacity
    /\ \A i \in 1..Len(seen) : /\ seen[i] = handled[Len(handled) - Len(seen) + i]
                               /\ seen[i] \in done
    /\ \A i, j \in 1..Len(seen) : seen[i] = seen[j] => i = j

NothingOversized == \A c \in Copies : c[1] \in Oversized => rows[c].at = "none"

(* The batch, the rows and their counts; what the puller knows of its      *)
(* current item and of the past.                                           *)
Queue == TypeOK /\ Batch /\ Counts
Knowledge == Decision /\ Memory /\ NothingOversized /\ NotHandledTwice

IInv == Queue /\ Knowledge

-----------------------------------------------------------------------------
(* Numbers: a nonempty set of naturals has a least element, and one below  *)
(* a bound a greatest.                                                     *)
LEMMA LeastOf == ASSUME NEW T \in SUBSET Nat, T # {} PROVE \E x \in T : \A y \in T : x <= y
<1>1. PICK x \in T : \A y \in T : ~ (<<y, x>> \in OpToRel(<, Nat))
  BY NatLessThanWellFounded, WFMin
<1>2. ASSUME NEW y \in T, y < x PROVE <<y, x>> \in OpToRel(<, Nat)
  BY <1>2 DEF OpToRel
<1>3. ASSUME NEW y \in T PROVE x <= y
  <2>1. ~(y < x)
    BY <1>1, <1>2
  <2>2. QED
    BY <2>1
<1>4. QED
  BY <1>3

LEMMA GreatestOf ==
    ASSUME NEW N \in Nat, NEW T \in SUBSET (0..N), T # {}
    PROVE  \E x \in T : \A y \in T : y <= x
<1> DEFINE U == {n \in 0..N : \A y \in T : y <= n}
<1>1. N \in U /\ U \in SUBSET Nat
  OBVIOUS
<1>2. PICK m \in U : \A n \in U : m <= n
  BY <1>1, LeastOf
<1>3. m \in T
  <2> SUFFICES ASSUME m \notin T PROVE FALSE
    OBVIOUS
  <2>1. \A y \in T : y <= m - 1
    OBVIOUS
  <2>2. m # 0
    <3>1. PICK y \in T : y <= m - 1
      BY <2>1
    <3>2. QED
      BY <3>1
  <2>3. m - 1 \in U
    BY <2>1, <2>2
  <2>4. QED
    BY <1>2, <2>3
<1>4. QED
  BY <1>2, <1>3

-----------------------------------------------------------------------------
(* What the constants and the types give: MaxCount is a number. *)
LEMMA Limits ==
    ASSUME ConstantsType
    PROVE  /\ MaxCount \in Nat /\ MaxCount = MaxDeliveries + 1 + MaxFaults
           /\ MaxDeliveries \in Nat /\ MaxFaults \in Nat /\ MaxBatch \in Nat
           /\ SeenCapacity \in Nat
BY DEF ConstantsType, MaxCount

(* One copy is moved, its count and every other copy stay. *)
LEMMA MoveRow ==
    ASSUME TypeOK, NEW c \in Copies, NEW p \in {"visible", "gone"},
           rows' = [rows EXCEPT ![c].at = p]
    PROVE  /\ rows' \in [Copies -> Row]
           /\ rows'[c].at = p /\ rows'[c].count = rows[c].count
           /\ \A d \in Copies : d # c => rows'[d] = rows[d]
BY DEF TypeOK, Row

(* A copy handed out once more. *)
LEMMA LeasedRow == \A k \in 0..MaxCount : [at |-> "leased", count |-> k] \in Row
BY DEF Row

(* The bound on the counts survives a step that adds to no count and drops *)
(* a copy from the batch only when its count or a new fault allows it.     *)
LEMMA CountsKept ==
    ASSUME ConstantsType, TypeOK, Counts, faults' \in 0..MaxFaults, faults' >= faults,
           \A c \in Copies : rows'[c].at # "gone" =>
              /\ rows[c].at # "gone" /\ rows'[c].count = rows[c].count
              /\ InBatch(c) => InBatch(c)' \/ rows[c].count <= MaxDeliveries + faults'
    PROVE  Counts'
<1> SUFFICES ASSUME NEW c \in Copies, rows'[c].at # "gone"
             PROVE  /\ rows'[c].count <= MaxDeliveries + faults' + 1
                    /\ InBatch(c)' \/ rows'[c].count <= MaxDeliveries + faults'
  BY DEF Counts
<1>1. rows[c] \in Row /\ faults \in 0..MaxFaults
  BY DEF TypeOK, Row
<1>2. rows[c].count \in Nat /\ faults \in Nat /\ faults' \in Nat /\ MaxDeliveries \in Nat
  BY <1>1, Limits DEF Row
<1>3. rows[c].count <= MaxDeliveries + faults + 1
  BY DEF Counts
<1>4. CASE InBatch(c)
  BY <1>2, <1>3, <1>4
<1>5. CASE ~InBatch(c)
  <2>1. rows[c].count <= MaxDeliveries + faults
    BY <1>5 DEF Counts
  <2>2. QED
    BY <1>2, <2>1
<1>6. QED
  BY <1>4, <1>5

(* A push stores one copy that was not there. *)
LEMMA StoredEffect ==
    ASSUME TypeOK, NEW a \in Activities, Stored(a)
    PROVE  \E c \in Copies : c[1] = a /\ rows[c].at = "none" /\ rows' = [rows EXCEPT ![c].at = "visible"]
BY DEF Stored, Copies

(* The current item is a copy the queue still holds, with the count it was *)
(* handed out with.                                                        *)
LEMMA FirstItem ==
    ASSUME TypeOK, Batch, batch # <<>>
    PROVE  /\ 1 \in DOMAIN batch /\ InBatch(Current)
           /\ Current \in Copies /\ Activity \in Activities /\ Receipt \in 1..MaxCount
           /\ rows[Current].at \in Held /\ rows[Current].count = Receipt
<1>1. 1 \in DOMAIN batch
  BY EmptySeq, LenProperties DEF Batch
<1>2. batch[1] \in Copies \X (1..MaxCount)
  BY <1>1 DEF TypeOK
<1>3. QED
  BY <1>1, <1>2 DEF Batch, InBatch, Current, Receipt, Activity, Copies

(* Done with the current item: the others are still there, and it is not   *)
(* among them.                                                             *)
LEMMA NextItem ==
    ASSUME ConstantsType, TypeOK, Batch, batch # <<>>, batch' = Tail(batch)
    PROVE  /\ batch' \in Seq(Copies \X (1..MaxCount)) /\ Len(batch') <= MaxBatch
           /\ \A i \in DOMAIN batch' : batch'[i] \in Copies \X (1..MaxCount)
           /\ \A i \in DOMAIN batch' : /\ i + 1 \in DOMAIN batch
                                       /\ batch'[i] = batch[i + 1]
                                       /\ batch'[i][1] # Current
           /\ \A i, j \in DOMAIN batch' : batch'[i][1] = batch'[j][1] => i = j
           /\ \A c : InBatch(c)' <=> InBatch(c) /\ c # Current
<1> DEFINE S == Copies \X (1..MaxCount)
<1>1. /\ batch \in Seq(S) /\ Len(batch) \in Nat \ {0} /\ DOMAIN batch = 1..Len(batch)
  BY EmptySeq, LenProperties DEF Batch
<1>2. /\ batch' \in Seq(S) /\ Len(batch') = Len(batch) - 1
      /\ \A i \in 1..Len(batch') : batch'[i] = batch[i + 1]
  BY <1>1, HeadTailProperties
<1>3. DOMAIN batch' = 1..Len(batch')
  BY <1>2, LenProperties
<1>4. \A i \in DOMAIN batch' : i \in Nat /\ i + 1 \in DOMAIN batch /\ batch'[i] = batch[i + 1] /\ i + 1 # 1
  BY <1>1, <1>2, <1>3
<1>5. ASSUME NEW i \in DOMAIN batch', batch'[i][1] = Current PROVE FALSE
  <2>1. i + 1 \in DOMAIN batch /\ 1 \in DOMAIN batch /\ batch[i + 1][1] = batch[1][1]
    BY <1>1, <1>4, <1>5 DEF Current
  <2>2. i + 1 = 1
    BY <2>1 DEF Batch
  <2>3. QED
    BY <1>4, <2>2
<1>6. \A i, j \in DOMAIN batch' : batch'[i][1] = batch'[j][1] => i = j
  <2> TAKE i, j \in DOMAIN batch'
  <2> HAVE batch'[i][1] = batch'[j][1]
  <2>1. i + 1 = j + 1
    BY <1>4 DEF Batch
  <2>2. QED
    BY <1>4, <2>1
<1>7. ASSUME NEW c PROVE InBatch(c)' <=> InBatch(c) /\ c # Current
  <2>1. ASSUME InBatch(c)' PROVE InBatch(c) /\ c # Current
    BY <1>4, <1>5, <2>1 DEF InBatch
  <2>2. ASSUME InBatch(c), c # Current PROVE InBatch(c)'
    <3>1. PICK i \in DOMAIN batch : batch[i][1] = c
      BY <2>2 DEF InBatch
    <3>2. i \in 1..Len(batch) /\ i # 1
      BY <1>1, <2>2, <3>1 DEF Current
    <3>3. i - 1 \in DOMAIN batch' /\ batch'[i - 1] = batch[(i - 1) + 1] /\ (i - 1) + 1 = i
      BY <1>1, <1>2, <1>3, <3>2
    <3>4. QED
      BY <3>1, <3>3 DEF InBatch
  <2>3. QED
    BY <2>1, <2>2
<1>8. Len(batch') <= MaxBatch
  BY <1>1, <1>2, Limits DEF TypeOK
<1>9. \A i \in DOMAIN batch' : batch'[i] \in S
  BY <1>4 DEF TypeOK
<1>10. QED
  BY <1>2, <1>4, <1>5, <1>6, <1>7, <1>8, <1>9

-----------------------------------------------------------------------------
(* The items of a batch that stays, and of the rest of one that does not,  *)
(* stay as they are when no row of theirs changes but from leased to       *)
(* visible.                                                                *)
LEMMA BatchStays ==
    ASSUME TypeOK, Batch, batch' = batch,
           \A c \in Copies : rows[c].at \in Held =>
               rows'[c].at \in Held /\ rows'[c].count = rows[c].count
    PROVE  Batch'
BY DEF Batch, TypeOK

LEMMA BatchShrinks ==
    ASSUME ConstantsType, TypeOK, Batch, batch # <<>>, batch' = Tail(batch),
           \A c \in Copies : rows[c].at \in Held /\ c # Current =>
               rows'[c].at \in Held /\ rows'[c].count = rows[c].count
    PROVE  Batch'
<1>1. \A i \in DOMAIN batch' : /\ i + 1 \in DOMAIN batch /\ batch'[i] = batch[i + 1]
                               /\ batch'[i][1] # Current /\ batch'[i][1] \in Copies
  BY NextItem DEF TypeOK
<1>2. /\ batch' \in Seq(Copies \X (1..MaxCount))
      /\ \A i, j \in DOMAIN batch' : batch'[i][1] = batch'[j][1] => i = j
  BY NextItem
<1>3. ASSUME NEW i \in DOMAIN batch'
      PROVE  rows'[batch'[i][1]].at \in Held /\ rows'[batch'[i][1]].count = batch'[i][2]
  <2>1. rows[batch[i + 1][1]].at \in Held /\ rows[batch[i + 1][1]].count = batch[i + 1][2]
    BY <1>1 DEF Batch
  <2>2. QED
    BY <1>1, <2>1
<1>4. QED
  BY <1>2, <1>3 DEF Batch

-----------------------------------------------------------------------------
LEMMA QueueStep ==
    ASSUME ConstantsType, Queue, Decision, Memory, [Next]_vars
    PROVE  Queue'
<1> USE DEF Queue
<1>1. ASSUME NEW a \in Activities, Offer(a) PROVE Queue'
  BY <1>1, BatchStays DEF Offer, puller, TypeOK, Counts, InBatch
<1>2. ASSUME NEW a \in Activities, Receive(a) \/ ReceiveFails(a) PROVE Queue'
  <2>1. /\ UNCHANGED puller /\ teams' \in [Activities -> {"unsent", "posting", "answered"}]
        /\ faults' \in 0..MaxFaults /\ faults' >= faults
    BY <1>2 DEF Receive, ReceiveFails, Fault, TypeOK, ConstantsType
  <2>2. CASE UNCHANGED rows
    <3>1. Batch'
      BY <2>1, <2>2, BatchStays DEF puller
    <3>2. Counts'
      BY <2>1, <2>2, CountsKept DEF InBatch, puller
    <3>3. QED
      BY <2>1, <2>2, <3>1, <3>2 DEF TypeOK, puller
  <2>3. CASE Stored(a)
    <3>1. PICK c \in Copies : rows[c].at = "none" /\ rows' = [rows EXCEPT ![c].at = "visible"]
      BY <2>3, StoredEffect
    <3>2. /\ rows' \in [Copies -> Row]
          /\ rows'[c].at = "visible" /\ rows'[c].count = rows[c].count
          /\ \A d \in Copies : d # c => rows'[d] = rows[d]
      BY <3>1, MoveRow
    <3>3. Batch'
      BY <2>1, <3>1, <3>2, BatchStays DEF puller, Held
    <3>4. Counts'
      <4>1. \A d \in Copies : rows'[d].at # "gone" =>
               rows[d].at # "gone" /\ rows'[d].count = rows[d].count
        BY <3>1, <3>2
      <4>2. QED
        BY <2>1, <4>1, CountsKept DEF InBatch, puller
    <3>5. QED
      BY <2>1, <3>2, <3>3, <3>4 DEF TypeOK, puller, Row
  <2>4. QED
    BY <1>2, <2>2, <2>3 DEF Receive, ReceiveFails
<1>3. ASSUME NEW c \in Copies, LeaseEnds(c) PROVE Queue'
  <2>1. /\ rows' \in [Copies -> Row]
        /\ rows[c].at = "leased" /\ rows'[c].at = "visible" /\ rows'[c].count = rows[c].count
        /\ \A d \in Copies : d # c => rows'[d] = rows[d]
    BY <1>3, MoveRow DEF LeaseEnds
  <2>2. UNCHANGED <<teams, faults, puller>>
    BY <1>3 DEF LeaseEnds
  <2>3. Batch'
    BY <2>1, <2>2, BatchStays DEF puller, Held
  <2>4. Counts'
    BY <2>1, <2>2 DEF Counts, InBatch, puller
  <2>5. QED
    BY <2>1, <2>2, <2>3, <2>4 DEF TypeOK, puller, Row
<1>4. CASE Pull
  <2>1. /\ batch = <<>> /\ Visible # {} /\ Visible \in SUBSET Copies
        /\ UNCHANGED <<teams, faults, up, step, seen, handled, done, tried>>
    BY <1>4 DEF Pull, Visible
  <2> DEFINE n == IF Cardinality(Visible) < MaxBatch THEN Cardinality(Visible) ELSE MaxBatch
  <2>2. n \in Nat /\ n <= MaxBatch
    <3>1. IsFiniteSet(0..MaxFaults) /\ IsFiniteSet(Activities)
      BY Limits, FS_Interval DEF ConstantsType
    <3>2. IsFiniteSet(Copies)
      BY <3>1, FS_Product DEF Copies
    <3>3. Cardinality(Visible) \in Nat
      BY <2>1, <3>2, FS_Subset, FS_CardinalityType
    <3>4. QED
      BY <3>3, Limits
  <2>3. PICK items \in Batches(n) :
           /\ rows' = Leased({items[i] : i \in DOMAIN items})
           /\ batch' = [i \in DOMAIN items |-> <<items[i], rows[items[i]].count + 1>>]
    BY <1>4 DEF Pull
  <2>4. /\ items \in [1..n -> Visible] /\ DOMAIN items = 1..n
        /\ \A i, j \in 1..n : items[i] = items[j] => i = j
    BY <2>3 DEF Batches
  <2>5. \A c \in Visible : rows[c].at = "visible" /\ rows[c].count \in 0..(MaxCount - 1)
                           /\ rows[c].count <= MaxDeliveries + faults
    <3> TAKE c \in Visible
    <3>1. c \in Copies /\ rows[c].at = "visible" /\ rows[c].count \in 0..MaxCount
      BY DEF Visible, TypeOK
    <3>2. ~InBatch(c)
      BY <2>1 DEF InBatch
    <3>3. rows[c].count <= MaxDeliveries + faults
      BY <3>1, <3>2 DEF Counts
    <3>4. faults \in 0..MaxFaults
      BY DEF TypeOK
    <3>5. QED
      BY <3>1, <3>3, <3>4, Limits
  <2>6. \A c \in Copies :
           rows'[c] = IF \E i \in 1..n : items[i] = c
                        THEN [at |-> "leased", count |-> rows[c].count + 1] ELSE rows[c]
    BY <2>3, <2>4 DEF Leased
  <2>7. /\ DOMAIN batch' = 1..n
        /\ \A i \in 1..n : /\ batch'[i] = <<items[i], rows[items[i]].count + 1>>
                           /\ items[i] \in Visible
    BY <2>3, <2>4
  <2>8. \A i \in 1..n : batch'[i] \in Copies \X (1..MaxCount)
    <3> TAKE i \in 1..n
    <3>1. items[i] \in Visible /\ batch'[i] = <<items[i], rows[items[i]].count + 1>>
      BY <2>7
    <3>2. rows[items[i]].count + 1 \in 1..MaxCount
      BY <2>5, <3>1, Limits
    <3>3. QED
      BY <2>1, <3>1, <3>2
  <2>9. batch' \in Seq(Copies \X (1..MaxCount)) /\ Len(batch') = n
    <3>1. batch' \in [1..n -> Copies \X (1..MaxCount)]
      BY <2>3, <2>4, <2>7, <2>8
    <3>2. QED
      BY <2>2, <3>1, SeqDef
  <2>10. \A c \in Copies : InBatch(c)' <=> \E i \in 1..n : items[i] = c
    BY <2>7 DEF InBatch
  <2>11. rows' \in [Copies -> Row]
    <3>1. \A c \in Copies : (\E i \in 1..n : items[i] = c) => rows[c].count + 1 \in 0..MaxCount
      BY <2>4, <2>5, Limits
    <3>2. \A c \in Copies : rows'[c] \in Row
      <4> TAKE c \in Copies
      <4>1. rows[c] \in Row
        BY DEF TypeOK, Row
      <4>2. CASE \E i \in 1..n : items[i] = c
        <5>1. /\ rows[c].count + 1 \in 0..MaxCount
              /\ rows'[c] = [at |-> "leased", count |-> rows[c].count + 1]
          BY <2>6, <3>1, <4>2
        <5>2. QED
          BY <5>1, LeasedRow
      <4>3. CASE ~ \E i \in 1..n : items[i] = c
        BY <2>6, <4>1, <4>3
      <4>4. QED
        BY <4>2, <4>3
    <3>3. QED
      BY <2>3, <3>2 DEF Leased
  <2>12. Batch'
    <3>1. ASSUME NEW i \in 1..n
          PROVE  rows'[batch'[i][1]].at \in Held /\ rows'[batch'[i][1]].count = batch'[i][2]
      <4>1. batch'[i][1] = items[i] /\ batch'[i][2] = rows[items[i]].count + 1 /\ items[i] \in Copies
        BY <2>1, <2>7
      <4>2. rows'[items[i]] = [at |-> "leased", count |-> rows[items[i]].count + 1]
        BY <2>6, <4>1
      <4>3. QED
        BY <4>1, <4>2 DEF Held
    <3>2. QED
      BY <2>4, <2>7, <2>9, <3>1 DEF Batch
  <2>13. Counts'
    <3> SUFFICES ASSUME NEW c \in Copies, rows'[c].at # "gone"
                 PROVE  /\ rows'[c].count <= MaxDeliveries + faults + 1
                        /\ InBatch(c)' \/ rows'[c].count <= MaxDeliveries + faults
      BY <2>1 DEF Counts
    <3>1. CASE \E i \in 1..n : items[i] = c
      <4>1. InBatch(c)' /\ c \in Visible
        BY <2>4, <2>10, <3>1
      <4>2. rows'[c] = [at |-> "leased", count |-> rows[c].count + 1]
        BY <2>6, <3>1
      <4>3. /\ rows[c].count <= MaxDeliveries + faults
            /\ rows[c].count \in 0..(MaxCount - 1) /\ faults \in 0..MaxFaults
        BY <2>5, <4>1 DEF TypeOK
      <4>4. QED
        BY <4>1, <4>2, <4>3, Limits
    <3>2. CASE ~(\E i \in 1..n : items[i] = c)
      <4>1. rows'[c] = rows[c]
        BY <2>6, <3>2
      <4>2. ~InBatch(c)
        BY <2>1 DEF InBatch
      <4>3. QED
        BY <4>1, <4>2 DEF Counts
    <3>3. QED
      BY <3>1, <3>2
  <2>14. TypeOK'
    <3>1. batch' = <<>> => step' = "idle"
      BY <2>1 DEF TypeOK
    <3>2. QED
      BY <2>1, <2>2, <2>7, <2>8, <2>9, <2>11, <3>1 DEF TypeOK, Row
  <2>15. QED
    BY <2>12, <2>13, <2>14
<1>5. CASE PullFails
  <2>1. /\ batch = <<>> /\ UNCHANGED <<teams, puller>>
        /\ faults' = faults + 1 /\ faults' \in 0..MaxFaults /\ faults \in 0..MaxFaults
    BY <1>5 DEF PullFails, Fault, TypeOK, ConstantsType
  <2>2. PICK c \in Visible : rows' = Leased({c})
    BY <1>5 DEF PullFails
  <2>3. /\ c \in Copies /\ rows[c].at = "visible" /\ rows[c].count \in 0..MaxCount
        /\ rows[c].count <= MaxDeliveries + faults
    BY <2>1, <2>2 DEF Visible, Counts, InBatch, TypeOK
  <2>4. \A d \in Copies : rows'[d] = IF d = c THEN [at |-> "leased", count |-> rows[c].count + 1]
                                      ELSE rows[d]
    BY <2>2 DEF Leased
  <2>5. rows' \in [Copies -> Row]
    <3>1. rows[c].count + 1 \in 0..MaxCount
      BY <2>1, <2>3, Limits
    <3>2. \A d \in Copies : rows'[d] \in Row
      <4>1. \A d \in Copies : rows[d] \in Row
        BY DEF TypeOK, Row
      <4>2. QED
        BY <2>4, <3>1, <4>1, LeasedRow
    <3>3. QED
      BY <2>2, <3>2 DEF Leased
  <2>6. Batch'
    BY <2>1 DEF Batch, puller
  <2>7. Counts'
    <3> SUFFICES ASSUME NEW d \in Copies, rows'[d].at # "gone"
                 PROVE  rows'[d].count <= MaxDeliveries + faults' /\ rows'[d].count \in Nat
      BY <2>1, Limits DEF Counts
    <3>1. rows'[d].count \in Nat
      BY <2>5 DEF Row
    <3>2. CASE d = c
      BY <2>1, <2>3, <2>4, <3>1, <3>2, Limits
    <3>3. CASE d # c
      <4>1. rows'[d] = rows[d] /\ ~InBatch(d)
        BY <2>1, <2>4, <3>3 DEF InBatch
      <4>2. rows[d].count <= MaxDeliveries + faults
        BY <4>1 DEF Counts
      <4>3. QED
        BY <2>1, <3>1, <4>1, <4>2, Limits
    <3>4. QED
      BY <3>2, <3>3
  <2>8. QED
    BY <2>1, <2>5, <2>6, <2>7 DEF TypeOK, puller, Row
<1>6. CASE Begin
  BY <1>6, FirstItem, BatchStays DEF Begin, TypeOK, Counts, InBatch
<1>7. CASE HandlerRaises
  <2>1. /\ batch # <<>> /\ batch' = Tail(batch) /\ step' = "idle" /\ step = "handling"
        /\ UNCHANGED <<teams, rows, faults, up, seen, handled, done, tried>>
    BY <1>7 DEF HandlerRaises, TypeOK
  <2>2. Batch'
    BY <2>1, BatchShrinks
  <2>3. rows[Current].count <= MaxDeliveries /\ rows[Current].count \in Nat /\ faults \in Nat
    BY <2>1, FirstItem, Limits DEF Decision, TypeOK
  <2>4. Counts'
    <3>1. \A c \in Copies : InBatch(c) => InBatch(c)' \/ rows[c].count <= MaxDeliveries + faults'
      BY <2>1, <2>3, NextItem, Limits
    <3>2. QED
      BY <2>1, <3>1, CountsKept DEF TypeOK
  <2>5. TypeOK'
    BY <2>1, NextItem DEF TypeOK, Row
  <2>6. QED
    BY <2>2, <2>4, <2>5
<1>8. CASE HandlerReturns
  <2>1. /\ step = "handling" /\ batch # <<>> /\ step' = "acking"
        /\ UNCHANGED <<teams, rows, faults, up, batch, tried>>
        /\ handled' = Append(handled, Activity) /\ done' = done \cup {Activity}
        /\ seen' = IF Len(Append(seen, Activity)) > SeenCapacity
                     THEN Tail(Append(seen, Activity)) ELSE Append(seen, Activity)
    BY <1>8 DEF HandlerReturns, TypeOK
  <2>2. Activity \in Activities
    BY <2>1, FirstItem
  <2>3. handled' \in Seq(Activities)
    BY <2>1, <2>2, AppendProperties DEF TypeOK
  <2>4. seen' \in Seq(Activities) /\ Len(seen') <= SeenCapacity
    <3>1. /\ Append(seen, Activity) \in Seq(Activities) /\ Append(seen, Activity) # <<>>
          /\ Len(Append(seen, Activity)) = Len(seen) + 1
          /\ Len(seen) \in Nat /\ Len(seen) <= SeenCapacity
      BY <2>2, AppendProperties, LenProperties DEF TypeOK
    <3>2. /\ Tail(Append(seen, Activity)) \in Seq(Activities)
          /\ Len(Tail(Append(seen, Activity))) = Len(seen)
      BY <3>1, HeadTailProperties
    <3>3. QED
      BY <2>1, <3>1, <3>2, Limits
  <2>5. Activity \in tried
    BY <2>1 DEF Decision
  <2>6. QED
    BY <2>1, <2>2, <2>3, <2>4, <2>5, BatchStays DEF TypeOK, Counts, InBatch
<1>9. CASE Ack
  <2>1. /\ batch # <<>> /\ batch' = Tail(batch) /\ step' = "idle"
        /\ UNCHANGED <<teams, faults, up, seen, handled, done, tried>>
        /\ Current \in Copies /\ rows' = [rows EXCEPT ![Current].at = "gone"]
    BY <1>9, FirstItem DEF Ack, TypeOK
  <2>2. /\ rows' \in [Copies -> Row]
        /\ rows'[Current].at = "gone"
        /\ \A d \in Copies : d # Current => rows'[d] = rows[d]
    BY <2>1, MoveRow
  <2>3. Batch'
    BY <2>1, <2>2, BatchShrinks
  <2>4. Counts'
    BY <2>1, <2>2, NextItem DEF Counts
  <2>5. TypeOK'
    BY <2>1, <2>2, NextItem DEF TypeOK, Row
  <2>6. QED
    BY <2>3, <2>4, <2>5
<1>10. CASE AckFails
  <2>1. /\ batch # <<>> /\ batch' = Tail(batch) /\ step' = "idle"
        /\ UNCHANGED <<teams, rows, up, seen, handled, done, tried>>
        /\ faults' = faults + 1 /\ faults' \in 0..MaxFaults /\ faults \in 0..MaxFaults
    BY <1>10 DEF AckFails, Fault, TypeOK, ConstantsType
  <2>2. Batch'
    BY <2>1, BatchShrinks
  <2>3. Counts'
    <3>1. ASSUME NEW c \in Copies, rows[c].at # "gone"
          PROVE  rows[c].count <= MaxDeliveries + faults'
      <4>1. rows[c] \in Row /\ rows[c].count <= MaxDeliveries + faults + 1
        BY <3>1 DEF Counts, TypeOK, Row
      <4>2. QED
        BY <2>1, <4>1, Limits DEF Row
    <3>2. QED
      BY <2>1, <3>1, CountsKept
  <2>4. TypeOK'
    BY <2>1, NextItem DEF TypeOK, Row
  <2>5. QED
    BY <2>2, <2>3, <2>4
<1>11. CASE Stop
  <2>1. /\ batch' = <<>> /\ step' = "idle" /\ seen' = <<>> /\ handled' = <<>> /\ up' = FALSE
        /\ UNCHANGED <<teams, rows, done, tried>>
        /\ faults' = faults + 1 /\ faults' \in 0..MaxFaults /\ faults \in 0..MaxFaults
    BY <1>11 DEF Stop, Fault, TypeOK, ConstantsType
  <2>2. /\ batch' \in Seq(Copies \X (1..MaxCount)) /\ Len(batch') = 0 /\ DOMAIN batch' = {}
        /\ seen' \in Seq(Activities) /\ Len(seen') = 0 /\ handled' \in Seq(Activities)
    BY <2>1, EmptySeq
  <2>3. Batch'
    BY <2>2 DEF Batch
  <2>4. Counts'
    <3>1. ASSUME NEW c \in Copies, rows[c].at # "gone"
          PROVE  rows[c].count <= MaxDeliveries + faults'
      <4>1. rows[c] \in Row /\ rows[c].count <= MaxDeliveries + faults + 1
        BY <3>1 DEF Counts, TypeOK, Row
      <4>2. QED
        BY <2>1, <4>1, Limits DEF Row
    <3>2. QED
      BY <2>1, <3>1, CountsKept
  <2>5. Len(batch') <= MaxBatch /\ Len(seen') <= SeenCapacity
    BY <2>2, Limits
  <2>6. QED
    BY <2>1, <2>2, <2>3, <2>4, <2>5 DEF TypeOK
<1>12. CASE Start \/ UNCHANGED vars
  BY <1>12, BatchStays DEF Start, vars, TypeOK, Counts, InBatch
<1>13. QED
  BY <1>1, <1>2, <1>3, <1>4, <1>5, <1>6, <1>7, <1>8, <1>9, <1>10, <1>11, <1>12 DEF Next

-----------------------------------------------------------------------------
(* A sequence without repetition has as many elements as entries. *)
LEMMA DistinctEntries ==
    ASSUME NEW S, NEW q \in Seq(S), \A i, j \in 1..Len(q) : q[i] = q[j] => i = j
    PROVE  LET R == {q[i] : i \in 1..Len(q)} IN IsFiniteSet(R) /\ Cardinality(R) = Len(q)
<1> DEFINE n == Len(q)
           R == {q[i] : i \in 1..n}
<1>1. n \in Nat /\ DOMAIN q = 1..n /\ q \in [1..n -> S]
  BY LenProperties
<1>2. q \in [1..n -> R]
  BY <1>1
<1>3. q \in Bijection(1..n, R)
  BY <1>1, <1>2 DEF Bijection, Injection, Surjection, IsInjective
<1>4. ExistsBijection(1..n, R)
  BY <1>3 DEF ExistsBijection
<1>5. IsFiniteSet(1..n) /\ Cardinality(1..n) = n
  BY <1>1, FS_Interval
<1>6. IsFiniteSet(R) /\ Cardinality(R) = n
  BY <1>4, <1>5, FS_Bijection
<1>7. QED
  BY <1>6

(* Remembering what was just handled and not remembered yet: the memory    *)
(* stays the end of the history, and whatever was handled before and is    *)
(* handled again had left it.                                              *)
LEMMA Remember ==
    ASSUME ConstantsType, TypeOK, Memory, NotHandledTwice, NEW x \in Activities,
           \A i \in 1..Len(seen) : seen[i] # x,
           handled' = Append(handled, x), done' = done \cup {x},
           seen' = IF Len(Append(seen, x)) > SeenCapacity THEN Tail(Append(seen, x))
                   ELSE Append(seen, x)
    PROVE  Memory' /\ NotHandledTwice'
<1> DEFINE n == Len(seen)
           h == Len(handled)
           s == Append(seen, x)
<1>1. /\ n \in Nat /\ h \in Nat /\ SeenCapacity \in Nat /\ n <= SeenCapacity
      /\ n <= h /\ (h > n => n = SeenCapacity)
      /\ DOMAIN handled = 1..h
  BY LenProperties, Limits DEF TypeOK, Memory
<1>2. /\ handled' \in Seq(Activities) /\ Len(handled') = h + 1 /\ DOMAIN handled' = 1..(h + 1)
      /\ handled'[h + 1] = x /\ \A i \in 1..h : handled'[i] = handled[i]
  BY AppendProperties, LenProperties DEF TypeOK
<1>3. /\ s \in Seq(Activities) /\ Len(s) = n + 1 /\ s # <<>>
      /\ s[n + 1] = x /\ \A i \in 1..n : s[i] = seen[i]
  BY AppendProperties DEF TypeOK
<1>4. /\ \A i \in 1..n : seen[i] = handled[h - n + i] /\ seen[i] \in done /\ seen[i] # x
      /\ \A i, j \in 1..n : seen[i] = seen[j] => i = j
  BY DEF Memory
<1>5. /\ \A i \in 1..(n + 1) : s[i] = handled'[h - n + i] /\ s[i] \in done'
      /\ \A i, j \in 1..(n + 1) : s[i] = s[j] => i = j
  <2>1. ASSUME NEW i \in 1..(n + 1) PROVE s[i] = handled'[h - n + i] /\ s[i] \in done'
    <3>1. CASE i = n + 1
      BY <1>1, <1>2, <1>3, <3>1
    <3>2. CASE i \in 1..n
      <4>1. h - n + i \in 1..h
        BY <1>1, <3>2
      <4>2. QED
        BY <1>2, <1>3, <1>4, <3>2, <4>1
    <3>3. QED
      BY <1>1, <3>1, <3>2
  <2>2. ASSUME NEW i \in 1..(n + 1), NEW j \in 1..(n + 1), s[i] = s[j] PROVE i = j
    BY <1>1, <1>3, <1>4, <2>2
  <2>3. QED
    BY <2>1, <2>2
<1>6. seen' = IF Len(s) > SeenCapacity THEN Tail(s) ELSE s
  OBVIOUS
<1> HIDE DEF n, h, s
<1>7. Memory'
  <2>1. CASE n + 1 > SeenCapacity
    <3>1. n = SeenCapacity
      BY <1>1, <2>1
    <3>2. seen' = Tail(s)
      <4>1. Len(s) > SeenCapacity
        BY <1>3, <2>1
      <4>2. QED
        BY <1>6, <4>1
    <3>3. Len(seen') = n /\ \A i \in 1..n : seen'[i] = s[i + 1]
      <4>1. Len(Tail(s)) = Len(s) - 1 /\ \A i \in 1..Len(Tail(s)) : Tail(s)[i] = s[i + 1]
        BY <1>3, HeadTailProperties
      <4>2. Len(s) - 1 = n
        BY <1>1, <1>3
      <4>3. QED
        BY <3>2, <4>1, <4>2
    <3>4. ASSUME NEW i \in 1..n
          PROVE  seen'[i] = handled'[Len(handled') - Len(seen') + i] /\ seen'[i] \in done'
      <4>1. i + 1 \in 1..(n + 1) /\ (h + 1) - n + i = h - n + (i + 1)
        BY <1>1
      <4>2. s[i + 1] = handled'[h - n + (i + 1)] /\ s[i + 1] \in done'
        BY <1>5, <4>1
      <4>3. QED
        BY <1>2, <3>3, <4>1, <4>2
    <3>5. ASSUME NEW i \in 1..n, NEW j \in 1..n, seen'[i] = seen'[j] PROVE i = j
      <4>1. i + 1 \in 1..(n + 1) /\ j + 1 \in 1..(n + 1)
        BY <1>1
      <4>2. s[i + 1] = s[j + 1]
        <5>1. seen'[i] = s[i + 1] /\ seen'[j] = s[j + 1]
          BY <3>3
        <5>2. QED
          BY <3>5, <5>1
      <4>3. i + 1 = j + 1
        BY <1>5, <4>1, <4>2
      <4>4. QED
        BY <4>3
    <3>6. Len(seen') = IF Len(handled') < SeenCapacity THEN Len(handled') ELSE SeenCapacity
      BY <1>1, <1>2, <3>1, <3>3
    <3>7. QED
      BY <3>3, <3>4, <3>5, <3>6 DEF Memory
  <2>2. CASE n + 1 <= SeenCapacity
    <3>1. n = h
      BY <1>1, <2>2
    <3>2. seen' = s
      <4>1. ~(Len(s) > SeenCapacity)
        BY <1>1, <1>3, <2>2
      <4>2. QED
        BY <1>6, <4>1
    <3>3. Len(seen') = h + 1
      BY <1>3, <3>1, <3>2
    <3>4. h + 1 = IF h + 1 < SeenCapacity THEN h + 1 ELSE SeenCapacity
      BY <1>1, <2>2, <3>1
    <3>5. Len(seen') = IF Len(handled') < SeenCapacity THEN Len(handled') ELSE SeenCapacity
      BY <1>2, <3>3, <3>4
    <3>6. ASSUME NEW i \in 1..Len(seen')
          PROVE  seen'[i] = handled'[Len(handled') - Len(seen') + i] /\ seen'[i] \in done'
      <4>1. i \in 1..(n + 1) /\ h - n + i = i /\ (h + 1) - (h + 1) + i = i
        BY <1>1, <3>1, <3>3
      <4>2. s[i] = handled'[h - n + i] /\ s[i] \in done'
        BY <1>5, <4>1
      <4>3. QED
        BY <1>2, <3>2, <3>3, <4>1, <4>2
    <3>7. \A i, j \in 1..Len(seen') : seen'[i] = seen'[j] => i = j
      <4>1. Len(seen') = n + 1
        BY <3>1, <3>3
      <4>2. QED
        BY <1>5, <3>2, <4>1
    <3>8. QED
      BY <3>5, <3>6, <3>7 DEF Memory
  <2>3. QED
    BY <1>1, <2>1, <2>2
<1>8. NotHandledTwice'
  <2> SUFFICES ASSUME NEW i \in 1..(h + 1), NEW j \in 1..(h + 1), i < j,
                      handled'[i] = handled'[j]
               PROVE  Cardinality({handled'[k] : k \in (i + 1)..(j - 1)} \ {handled'[i]})
                        >= SeenCapacity
    BY <1>2 DEF NotHandledTwice
  <2>1. CASE j \in 1..h
    <3>1. i \in 1..h /\ handled[i] = handled[j] /\ handled'[i] = handled[i]
      BY <1>1, <1>2, <2>1
    <3>2. \A k \in (i + 1)..(j - 1) : handled'[k] = handled[k]
      BY <1>1, <1>2, <2>1, <3>1
    <3>3. {handled'[k] : k \in (i + 1)..(j - 1)} = {handled[k] : k \in (i + 1)..(j - 1)}
      BY <3>2
    <3>4. QED
      BY <1>1, <2>1, <3>1, <3>3 DEF NotHandledTwice
  <2>2. CASE j = h + 1
    <3> DEFINE W == {handled'[k] : k \in (i + 1)..(j - 1)} \ {handled'[i]}
               R == {seen[k] : k \in 1..n}
    <3>1. i \in 1..h /\ handled[i] = x /\ handled'[i] = x
      BY <1>1, <1>2, <2>2
    <3>2. i <= h - n
      <4> SUFFICES ASSUME i > h - n PROVE FALSE
        BY <1>1
      <4>1. i - (h - n) \in 1..n /\ h - n + (i - (h - n)) = i
        BY <1>1, <3>1
      <4>2. QED
        BY <1>4, <3>1, <4>1
    <3>3. n = SeenCapacity
      BY <1>1, <3>1, <3>2
    <3>4. R \in SUBSET W
      <4> SUFFICES ASSUME NEW k \in 1..n PROVE seen[k] \in W
        OBVIOUS
      <4>1. h - n + k \in (i + 1)..(j - 1) /\ h - n + k \in 1..h
        BY <1>1, <2>2, <3>1, <3>2
      <4>2. seen[k] = handled'[h - n + k] /\ seen[k] # x
        BY <1>2, <1>4, <4>1
      <4>3. QED
        BY <3>1, <4>1, <4>2
    <3>5. W \in SUBSET Activities
      <4> SUFFICES ASSUME NEW k \in (i + 1)..(j - 1) PROVE handled'[k] \in Activities
        OBVIOUS
      <4>1. k \in 1..Len(handled')
        BY <1>1, <1>2, <2>2, <3>1
      <4>2. QED
        BY <1>2, <4>1, ElementOfSeq
    <3>6. IsFiniteSet(W) /\ Cardinality(W) \in Nat
      BY <3>5, FS_Subset, FS_CardinalityType DEF ConstantsType
    <3>7. Cardinality(R) <= Cardinality(W)
      BY <3>4, <3>6, FS_Subset
    <3>8. Cardinality(R) = n
      BY <1>4, DistinctEntries DEF TypeOK, n
    <3>9. QED
      BY <1>1, <3>3, <3>6, <3>7, <3>8
  <2>3. j \in 1..h \/ j = h + 1
    BY <1>1
  <2>4. QED
    BY <2>1, <2>2, <2>3
<1>9. QED
  BY <1>7, <1>8

LEMMA SamePuller ==
    ASSUME Decision, Memory, NotHandledTwice,
           UNCHANGED <<batch, step, seen, handled, done, tried>>
    PROVE  Decision' /\ Memory' /\ NotHandledTwice'
<1>1. Decision'
  BY DEF Decision, Receipt, Activity, Current, InSeen
<1>2. Memory'
  BY DEF Memory
<1>3. NotHandledTwice'
  BY DEF NotHandledTwice
<1>4. QED
  BY <1>1, <1>2, <1>3

LEMMA KnowledgeStep ==
    ASSUME ConstantsType, Queue, Knowledge, [Next]_vars
    PROVE  Knowledge'
<1> USE DEF Queue, Knowledge
<1>1. ASSUME NEW a \in Activities, Offer(a) \/ Receive(a) \/ ReceiveFails(a) PROVE Knowledge'
  <2>1. UNCHANGED puller
    BY <1>1 DEF Offer, Receive, ReceiveFails
  <2>2. CASE UNCHANGED rows
    BY <2>1, <2>2, SamePuller DEF puller, NothingOversized
  <2>3. CASE Stored(a) /\ a \notin Oversized
    <3>1. PICK c \in Copies : /\ c[1] = a /\ rows[c].at = "none"
                              /\ rows' = [rows EXCEPT ![c].at = "visible"]
      BY <2>3, StoredEffect
    <3>2. \A d \in Copies : d # c => rows'[d] = rows[d]
      BY <3>1, MoveRow
    <3>3. NothingOversized'
      BY <2>3, <3>1, <3>2 DEF NothingOversized
    <3>4. QED
      BY <2>1, <3>3, SamePuller DEF puller
  <2>4. QED
    BY <1>1, <2>2, <2>3 DEF Offer, Receive, ReceiveFails
<1>2. ASSUME NEW c \in Copies, LeaseEnds(c) PROVE Knowledge'
  <2>1. NothingOversized'
    BY <1>2, MoveRow DEF LeaseEnds, NothingOversized
  <2>2. QED
    BY <1>2, <2>1, SamePuller DEF LeaseEnds, puller
<1>3. CASE Pull
  <2>1. /\ step' = "idle" /\ UNCHANGED <<seen, handled, done, tried>>
        /\ \E items \in SUBSET Visible : rows' = Leased(items)
    <3> DEFINE n == IF Cardinality(Visible) < MaxBatch THEN Cardinality(Visible) ELSE MaxBatch
    <3>1. PICK items \in Batches(n) : rows' = Leased({items[i] : i \in DOMAIN items})
      BY <1>3 DEF Pull
    <3>2. {items[i] : i \in DOMAIN items} \in SUBSET Visible
      BY <3>1 DEF Batches
    <3>3. QED
      BY <1>3, <3>1, <3>2 DEF Pull, TypeOK
  <2>2. NothingOversized'
    BY <2>1 DEF Leased, Visible, NothingOversized
  <2>3. QED
    BY <2>1, <2>2 DEF Decision, Memory, NotHandledTwice
<1>4. CASE PullFails
  <2>1. NothingOversized'
    BY <1>4 DEF PullFails, Leased, Visible, NothingOversized
  <2>2. QED
    BY <1>4, <2>1, SamePuller DEF PullFails, puller
<1>5. CASE Begin
  <2>1. UNCHANGED <<rows, batch, seen, handled, done>> /\ batch # <<>>
    BY <1>5 DEF Begin
  <2>2. InSeen => Activity \in done
    BY LenProperties DEF InSeen, Memory, TypeOK
  <2>3. Receipt \in 1..MaxCount
    BY <2>1, FirstItem
  <2>4. Decision'
    BY <1>5, <2>1, <2>2, <2>3, Limits DEF Begin, Decision, Receipt, Activity, Current, InSeen
  <2>5. QED
    BY <2>1, <2>4 DEF Memory, NothingOversized, NotHandledTwice
<1>6. CASE HandlerReturns
  <2>1. /\ step = "handling" /\ batch # <<>> /\ step' = "acking" /\ UNCHANGED <<rows, batch>>
        /\ handled' = Append(handled, Activity) /\ done' = done \cup {Activity}
        /\ seen' = IF Len(Append(seen, Activity)) > SeenCapacity
                     THEN Tail(Append(seen, Activity)) ELSE Append(seen, Activity)
    BY <1>6 DEF HandlerReturns, TypeOK
  <2>2. Activity \in Activities
    BY <2>1, FirstItem
  <2>3. \A i \in 1..Len(seen) : seen[i] # Activity
    BY <2>1, LenProperties DEF Decision, InSeen, TypeOK
  <2>4. Memory' /\ NotHandledTwice'
    BY <2>1, <2>2, <2>3, Remember
  <2>5. Decision' /\ NothingOversized'
    BY <2>1 DEF Decision, NothingOversized, Receipt, Activity, Current
  <2>6. QED
    BY <2>4, <2>5
<1>7. CASE HandlerRaises \/ AckFails
  BY <1>7 DEF HandlerRaises, AckFails, Decision, Memory, NothingOversized, NotHandledTwice
<1>8. CASE Ack
  <2>1. /\ step' = "idle" /\ UNCHANGED <<seen, handled, done, tried>>
        /\ Current \in Copies /\ rows[Current].at \in Held
        /\ rows' = [rows EXCEPT ![Current].at = "gone"]
    BY <1>8, FirstItem DEF Ack, TypeOK
  <2>2. NothingOversized'
    BY <2>1, MoveRow DEF NothingOversized, Held
  <2>3. QED
    BY <2>1, <2>2 DEF Decision, Memory, NotHandledTwice
<1>9. CASE Stop
  <2>1. /\ step' = "idle" /\ UNCHANGED <<rows, done, tried>>
        /\ Len(seen') = 0 /\ Len(handled') = 0 /\ DOMAIN handled' = {}
    BY <1>9, EmptySeq DEF Stop
  <2>2. QED
    BY <2>1, Limits DEF Decision, Memory, NothingOversized, NotHandledTwice
<1>10. CASE Start \/ UNCHANGED vars
  BY <1>10, SamePuller DEF Start, vars, NothingOversized
<1>11. QED
  BY <1>1, <1>2, <1>3, <1>4, <1>5, <1>6, <1>7, <1>8, <1>9, <1>10 DEF Next

-----------------------------------------------------------------------------
LEMMA InitInv == ASSUME ConstantsType PROVE Init => IInv
<1> SUFFICES ASSUME Init PROVE IInv
  OBVIOUS
<1>1. /\ batch \in Seq(Copies \X (1..MaxCount)) /\ Len(batch) = 0 /\ DOMAIN batch = {}
      /\ seen \in Seq(Activities) /\ Len(seen) = 0
      /\ handled \in Seq(Activities) /\ Len(handled) = 0 /\ DOMAIN handled = {}
  BY EmptySeq DEF Init
<1>2. rows \in [Copies -> Row]
  <2>1. [at |-> "none", count |-> 0] \in Row
    BY Limits DEF Row
  <2>2. QED
    BY <2>1 DEF Init
<1>3. faults \in 0..MaxFaults /\ Len(batch) <= MaxBatch /\ Len(seen) <= SeenCapacity
  BY <1>1, Limits DEF Init
<1>4. TypeOK
  BY <1>1, <1>2, <1>3 DEF Init, TypeOK, Row
<1>5. Batch /\ Decision /\ NothingOversized /\ NotHandledTwice
  BY <1>1 DEF Init, Batch, Decision, NothingOversized, NotHandledTwice
<1>6. Counts
  BY Limits DEF Init, Counts
<1>7. Memory
  BY <1>1, Limits DEF Memory
<1>8. QED
  BY <1>4, <1>5, <1>6, <1>7 DEF IInv, Queue, Knowledge

LEMMA StepInv == ASSUME ConstantsType PROVE IInv /\ [Next]_vars => IInv'
BY QueueStep, KnowledgeStep DEF IInv, Queue, Knowledge

LEMMA Invariant == ASSUME ConstantsType PROVE Spec => []IInv
<1>1. Init => IInv
  BY InitInv
<1>2. IInv /\ [Next]_vars => IInv'
  BY StepInv
<1>3. QED
  BY <1>1, <1>2, PTL DEF Spec

(* The types of the queue's copies, the batch and the puller's memory: no  *)
(* copy is delivered more often than the limit, one more time and once for *)
(* each fault.                                                             *)
THEOREM RelayTypeCorrect == ASSUME ConstantsType PROVE Spec => []TypeOK
<1>1. IInv => TypeOK
  BY DEF IInv, Queue
<1>2. QED
  BY <1>1, Invariant, PTL

(* "The host must be able to see one twice without acting twice": whatever *)
(* is delivered again, one process of the puller handles an activity again *)
(* only after as many others as it can remember.                           *)
THEOREM RelayHandlesNothingTwice == ASSUME ConstantsType PROVE Spec => []NotHandledTwice
<1>1. IInv => NotHandledTwice
  BY DEF IInv, Knowledge
<1>2. QED
  BY <1>1, Invariant, PTL

-----------------------------------------------------------------------------
(* The refinement of RelayPromise. *)

HasCopy(a) == \E c \in CopiesOf(a) : rows[c].at \in Held

FateCases ==
    \A a \in Activities :
       Fate[a] = IF a \in done THEN "handled"
                 ELSE IF teams[a] # "answered" THEN "absent"
                 ELSE IF HasCopy(a) THEN "held" ELSE "dropped"

LEMMA FateNow == FateCases
BY DEF FateCases, Fate, HasCopy, Held

LEMMA FateNext == FateCases'
BY FateNow, PTL

LEMMA FateStays ==
    ASSUME NEW b \in Activities, b \in done' <=> b \in done,
           teams'[b] = "answered" <=> teams[b] = "answered", HasCopy(b)' <=> HasCopy(b)
    PROVE  Fate'[b] = Fate[b]
BY FateNow, FateNext DEF FateCases

LEMMA OneFateChanges ==
    ASSUME NEW a \in Activities, \A b \in Activities : b # a => Fate'[b] = Fate[b]
    PROVE  Fate' = [Fate EXCEPT ![a] = Fate'[a]]
BY DEF Fate

LEMMA NoFateChanges ==
    ASSUME \A b \in Activities : Fate'[b] = Fate[b]
    PROVE  Fate' = Fate
BY DEF Fate

(* Deliveries is the highest count of a copy. *)
Highest ==
    \A a \in Activities : /\ Deliveries[a] \in 0..MaxCount
                          /\ \E c \in CopiesOf(a) : rows[c].count = Deliveries[a]
                          /\ \A c \in CopiesOf(a) : rows[c].count <= Deliveries[a]

LEMMA HighestNow == ASSUME ConstantsType PROVE TypeOK => Highest
<1> SUFFICES ASSUME TypeOK, NEW a \in Activities
             PROVE  /\ Deliveries[a] \in 0..MaxCount
                    /\ \E c \in CopiesOf(a) : rows[c].count = Deliveries[a]
                    /\ \A c \in CopiesOf(a) : rows[c].count <= Deliveries[a]
  BY DEF Highest
<1> DEFINE T == {rows[c].count : c \in CopiesOf(a)}
           Top(n) == /\ \E c \in CopiesOf(a) : rows[c].count = n
                     /\ \A c \in CopiesOf(a) : rows[c].count <= n
<1>1. <<a, 0>> \in CopiesOf(a)
  BY Limits DEF CopiesOf, Copies
<1>2. T \in SUBSET (0..MaxCount) /\ T # {}
  BY <1>1 DEF CopiesOf, TypeOK
<1>3. \E n \in 0..MaxCount : Top(n)
  <2>1. PICK n \in T : \A y \in T : y <= n
    BY <1>2, GreatestOf, Limits
  <2>2. n \in 0..MaxCount /\ Top(n)
    BY <1>2, <2>1
  <2>3. QED
    BY <2>2
<1>4. Deliveries[a] = CHOOSE n \in 0..MaxCount : Top(n)
  BY DEF Deliveries
<1>5. QED
  BY <1>3, <1>4

LEMMA HighestNext == ASSUME ConstantsType PROVE TypeOK' => Highest'
<1>1. TypeOK => Highest
  BY HighestNow
<1>2. QED
  BY <1>1, PTL

LEMMA DeliveriesRise ==
    ASSUME ConstantsType, TypeOK, TypeOK', NEW k \in {0, 1},
           \A c \in Copies : rows'[c].count \in {rows[c].count, rows[c].count + k}
    PROVE  \A a \in Activities : Deliveries'[a] \in {Deliveries[a], Deliveries[a] + k}
<1> TAKE a \in Activities
<1>1. CopiesOf(a) \subseteq Copies
  BY DEF CopiesOf
<1>2. \A c \in Copies : rows[c].count \in Nat /\ rows'[c].count \in Nat
  BY DEF TypeOK
<1>3. Deliveries[a] \in Nat /\ Deliveries'[a] \in Nat
  BY HighestNow, HighestNext DEF Highest
<1>4. Deliveries'[a] <= Deliveries[a] + k
  <2>1. PICK c \in CopiesOf(a)' : rows'[c].count = Deliveries'[a]
    BY HighestNext DEF Highest
  <2>2. c \in CopiesOf(a)
    BY <2>1 DEF CopiesOf
  <2>3. rows[c].count <= Deliveries[a]
    BY <2>2, HighestNow DEF Highest
  <2>4. QED
    BY <1>1, <1>2, <1>3, <2>1, <2>2, <2>3
<1>5. Deliveries[a] <= Deliveries'[a]
  <2>1. PICK c \in CopiesOf(a) : rows[c].count = Deliveries[a]
    BY HighestNow DEF Highest
  <2>2. rows'[c].count <= Deliveries'[a]
    BY HighestNext DEF Highest, CopiesOf
  <2>3. QED
    BY <1>1, <1>2, <1>3, <2>1, <2>2
<1>6. QED
  BY <1>3, <1>4, <1>5

LEMMA DeliveriesStay ==
    ASSUME ConstantsType, TypeOK, TypeOK', \A c \in Copies : rows'[c].count = rows[c].count
    PROVE  Deliveries' = Deliveries
<1>1. \A a \in Activities : Deliveries[a] \in Nat
  BY HighestNow DEF Highest
<1>2. \A c \in Copies : rows'[c].count \in {rows[c].count, rows[c].count + 0}
  OBVIOUS
<1>3. \A a \in Activities : Deliveries'[a] \in {Deliveries[a], Deliveries[a] + 0}
  BY <1>2, DeliveriesRise
<1>4. \A a \in Activities : Deliveries'[a] = Deliveries[a]
  BY <1>1, <1>3
<1>5. QED
  BY <1>4 DEF Deliveries

Promised == Promise!Next \/ UNCHANGED <<Fate, Deliveries>>

LEMMA StepKeepsPromise ==
    ASSUME ConstantsType, IInv, IInv', [Next]_vars
    PROVE  Promised
<1> USE DEF Queue, Knowledge
<1>0. TypeOK /\ TypeOK' /\ Batch /\ Decision /\ NothingOversized
  BY DEF IInv
<1>1. ASSUME UNCHANGED <<teams, done>>,
             \A c \in Copies : /\ rows'[c].count = rows[c].count
                               /\ rows'[c].at \in Held <=> rows[c].at \in Held
      PROVE  Promised
  <2>1. \A b \in Activities : HasCopy(b)' <=> HasCopy(b)
    BY <1>1 DEF HasCopy, CopiesOf
  <2>2. \A b \in Activities : Fate'[b] = Fate[b]
    BY <1>1, <2>1, FateStays
  <2>3. QED
    BY <1>0, <1>1, <2>2, NoFateChanges, DeliveriesStay DEF Promised
<1>2. ASSUME NEW a \in Activities, Offer(a) PROVE Promised
  <2>1. \A b \in Activities : HasCopy(b)' <=> HasCopy(b)
    BY <1>2 DEF Offer, HasCopy, CopiesOf
  <2>2. done' = done /\ rows' = rows
        /\ \A b \in Activities : teams'[b] = "answered" <=> teams[b] = "answered"
    BY <1>0, <1>2 DEF Offer, puller, TypeOK
  <2>3. \A b \in Activities : Fate'[b] = Fate[b]
    BY <2>1, <2>2, FateStays
  <2>4. QED
    BY <1>0, <2>2, <2>3, NoFateChanges, DeliveriesStay DEF Promised
(* A copy of a is stored, or not. *)
<1>3. ASSUME NEW a \in Activities, Stored(a) \/ UNCHANGED rows
      PROVE  /\ Deliveries' = Deliveries
             /\ \A b \in Activities : b # a => (HasCopy(b)' <=> HasCopy(b))
             /\ Stored(a) => HasCopy(a)'
  <2>1. CASE UNCHANGED rows /\ ~Stored(a)
    BY <1>0, <2>1, DeliveriesStay DEF HasCopy, CopiesOf
  <2>2. CASE Stored(a)
    <3>1. PICK c \in Copies : /\ c[1] = a /\ rows[c].at = "none"
                              /\ rows' = [rows EXCEPT ![c].at = "visible"]
      BY <1>0, <2>2, StoredEffect
    <3>2. /\ rows'[c].at = "visible" /\ rows'[c].count = rows[c].count
          /\ \A d \in Copies : d # c => rows'[d] = rows[d]
      BY <1>0, <3>1, MoveRow
    <3>3. \A b \in Activities : b # a => (HasCopy(b)' <=> HasCopy(b))
      BY <3>1, <3>2 DEF HasCopy, CopiesOf
    <3>4. HasCopy(a)'
      BY <3>1, <3>2 DEF HasCopy, CopiesOf, Held
    <3>5. Deliveries' = Deliveries
      BY <1>0, <3>2, DeliveriesStay
    <3>6. QED
      BY <3>3, <3>4, <3>5
  <2>3. QED
    BY <1>3, <2>1, <2>2
<1>4. ASSUME NEW a \in Activities, Receive(a) PROVE Promised
  <2>1. /\ done' = done /\ teams[a] = "posting" /\ teams'[a] = "answered"
        /\ \A b \in Activities : b # a => teams'[b] = teams[b]
        /\ IF a \in Oversized THEN UNCHANGED rows ELSE Stored(a)
    BY <1>0, <1>4 DEF Receive, puller, TypeOK
  <2>2. \A b \in Activities : b # a => Fate'[b] = Fate[b]
    BY <1>3, <2>1, FateStays
  <2>3. Deliveries' = Deliveries /\ Fate' = [Fate EXCEPT ![a] = Fate'[a]]
    BY <1>3, <2>1, <2>2, OneFateChanges
  <2>4. CASE a \in done
    <3>1. Fate'[a] = Fate[a]
      BY <2>1, <2>4, FateNow, FateNext DEF FateCases
    <3>2. QED
      BY <2>2, <2>3, <3>1, NoFateChanges DEF Promised
  <2>5. CASE a \notin done /\ HasCopy(a)'
    <3>1. Fate[a] = "absent" /\ Fate'[a] = "held"
      BY <2>1, <2>5, FateNow, FateNext DEF FateCases
    <3>2. Promise!Hold(a)
      BY <2>3, <3>1 DEF Promise!Hold
    <3>3. QED
      BY <3>2 DEF Promised, Promise!Next
  <2>6. CASE a \notin done /\ ~HasCopy(a)'
    <3>1. a \in Oversized
      BY <1>3, <2>1, <2>6
    <3>2. Fate[a] = "absent" /\ Fate'[a] = "dropped"
      BY <2>1, <2>6, FateNow, FateNext DEF FateCases
    <3>3. Promise!Drop(a)
      BY <2>3, <3>1, <3>2 DEF Promise!Drop
    <3>4. QED
      BY <3>3 DEF Promised, Promise!Next, Promise!Settle
  <2>7. QED
    BY <2>4, <2>5, <2>6
<1>5. ASSUME NEW a \in Activities, ReceiveFails(a) PROVE Promised
  <2>1. /\ done' = done /\ teams' = teams /\ teams[a] = "posting"
        /\ Stored(a) \/ UNCHANGED rows
    BY <1>5 DEF ReceiveFails, puller
  <2>2. \A b \in Activities : b # a => Fate'[b] = Fate[b]
    BY <1>3, <2>1, FateStays
  <2>3. Fate'[a] = Fate[a]
    BY <2>1, FateNow, FateNext DEF FateCases
  <2>4. QED
    BY <1>3, <2>1, <2>2, <2>3, NoFateChanges DEF Promised
<1>6. ASSUME NEW c \in Copies, LeaseEnds(c) PROVE Promised
  <2>1. UNCHANGED <<teams, done>> /\ rows[c].at = "leased"
        /\ rows' = [rows EXCEPT ![c].at = "visible"]
    BY <1>6 DEF LeaseEnds, puller
  <2>2. \A d \in Copies : /\ rows'[d].count = rows[d].count
                          /\ rows'[d].at \in Held <=> rows[d].at \in Held
    BY <1>0, <2>1, MoveRow DEF Held
  <2>3. QED
    BY <1>1, <2>1, <2>2
(* A batch is handed out, whether or not the answer arrives. *)
<1>7. ASSUME NEW items \in SUBSET Visible, rows' = Leased(items), UNCHANGED <<teams, done>>
      PROVE  Promised
  <2>1. \A c \in Copies : /\ rows'[c].count \in {rows[c].count, rows[c].count + 1}
                          /\ rows'[c].at \in Held <=> rows[c].at \in Held
    BY <1>7 DEF Leased, Visible, Held
  <2>2. \A b \in Activities : HasCopy(b)' <=> HasCopy(b)
    BY <2>1 DEF HasCopy, CopiesOf
  <2>3. \A b \in Activities : Fate'[b] = Fate[b]
    BY <1>7, <2>2, FateStays
  <2>4. \A a \in Activities : Deliveries'[a] \in {Deliveries[a], Deliveries[a] + 1}
    BY <1>0, <2>1, DeliveriesRise
  <2>5. Deliveries' \in [Activities -> Nat]
    <3>1. \A a \in Activities : Deliveries'[a] \in Nat
      BY <1>0, HighestNext DEF Highest
    <3>2. QED
      BY <3>1 DEF Deliveries
  <2>6. Promise!Deliver
    BY <2>3, <2>4, <2>5, NoFateChanges DEF Promise!Deliver
  <2>7. QED
    BY <2>6 DEF Promised, Promise!Next
<1>8. CASE Pull
  <2> DEFINE n == IF Cardinality(Visible) < MaxBatch THEN Cardinality(Visible) ELSE MaxBatch
  <2>1. PICK items \in Batches(n) : rows' = Leased({items[i] : i \in DOMAIN items})
    BY <1>8 DEF Pull
  <2>2. {items[i] : i \in DOMAIN items} \in SUBSET Visible
    BY <2>1 DEF Batches
  <2>3. UNCHANGED <<teams, done>>
    BY <1>8 DEF Pull
  <2>4. QED
    BY <1>7, <2>1, <2>2, <2>3
<1>9. CASE PullFails
  <2>1. PICK c \in Visible : rows' = Leased({c})
    BY <1>9 DEF PullFails
  <2>2. UNCHANGED <<teams, done>>
    BY <1>9 DEF PullFails, puller
  <2>3. QED
    BY <1>7, <2>1, <2>2
<1>10. CASE Begin \/ HandlerRaises \/ AckFails \/ Stop \/ Start \/ UNCHANGED vars
  <2>1. UNCHANGED <<teams, rows, done>>
    BY <1>10 DEF Begin, HandlerRaises, AckFails, Stop, Start, vars
  <2>2. QED
    BY <1>1, <2>1
<1>11. CASE HandlerReturns
  <2> DEFINE a == Activity
  <2>1. /\ step = "handling" /\ batch # <<>> /\ UNCHANGED <<teams, rows>>
        /\ done' = done \cup {a}
    BY <1>0, <1>11 DEF HandlerReturns, TypeOK
  <2>2. /\ Current \in Copies /\ a \in Activities /\ rows[Current].at \in Held
        /\ a \notin Unreadable
    BY <1>0, <2>1, FirstItem DEF Decision
  <2>3. a \notin Oversized
    BY <1>0, <2>2 DEF NothingOversized, Activity, Held
  <2>4. HasCopy(a)
    BY <2>2 DEF HasCopy, CopiesOf, Activity
  <2>5. \A b \in Activities : HasCopy(b)' <=> HasCopy(b)
    BY <2>1 DEF HasCopy, CopiesOf
  <2>6. Deliveries' = Deliveries
    BY <1>0, <2>1, DeliveriesStay
  <2> HIDE DEF a
  <2>7. \A b \in Activities : b # a => Fate'[b] = Fate[b]
    BY <2>1, <2>5, FateStays
  <2>8. Fate'[a] = "handled" /\ Fate[a] \in {"absent", "held", "handled"}
    BY <2>1, <2>2, <2>4, FateNow, FateNext DEF FateCases
  <2>9. CASE Fate[a] = "handled"
    BY <2>6, <2>7, <2>8, <2>9, NoFateChanges DEF Promised
  <2>10. CASE Fate[a] \in {"absent", "held"}
    <3>1. Fate' = [Fate EXCEPT ![a] = "handled"]
      BY <2>2, <2>7, <2>8, OneFateChanges
    <3>2. Promise!Handle(a)
      BY <2>2, <2>3, <2>6, <2>10, <3>1 DEF Promise!Handle
    <3>3. QED
      BY <2>2, <3>2 DEF Promised, Promise!Next, Promise!Settle
  <2>11. QED
    BY <2>8, <2>9, <2>10
<1>12. CASE Ack
  <2> DEFINE a == Activity
             c == Current
  <2>1. /\ step = "acking" /\ batch # <<>> /\ UNCHANGED <<teams, done>>
        /\ c \in Copies /\ a \in Activities /\ a = c[1]
        /\ rows[c].at \in Held /\ rows[c].count = Receipt
        /\ rows' = [rows EXCEPT ![c].at = "gone"]
    BY <1>0, <1>12, FirstItem DEF Ack, TypeOK, Activity
  <2>2. a \in Unreadable \cup done \/ rows[c].count > MaxDeliveries
    BY <1>0, <2>1 DEF Decision
  <2> HIDE DEF a, c
  <2>3. /\ rows'[c].count = rows[c].count
        /\ \A d \in Copies : d # c => rows'[d] = rows[d]
    BY <1>0, <2>1, MoveRow
  <2>4. Deliveries' = Deliveries
    BY <1>0, <2>3, DeliveriesStay
  <2>5. \A b \in Activities : b # a => (HasCopy(b)' <=> HasCopy(b))
    BY <2>1, <2>3 DEF HasCopy, CopiesOf
  <2>6. \A b \in Activities : b # a => Fate'[b] = Fate[b]
    BY <2>1, <2>5, FateStays
  <2>7. CASE Fate'[a] = Fate[a]
    BY <2>4, <2>6, <2>7, NoFateChanges DEF Promised
  <2>8. CASE Fate'[a] # Fate[a]
    <3>1. c \in CopiesOf(a) /\ HasCopy(a)
      BY <2>1 DEF HasCopy, CopiesOf
    <3>2. Fate[a] = "held" /\ Fate'[a] = "dropped" /\ a \notin done
      BY <2>1, <2>8, <3>1, FateNow, FateNext DEF FateCases
    <3>3. a \in Unreadable \/ Deliveries[a] > MaxDeliveries
      <4>1. rows[c].count <= Deliveries[a] /\ Deliveries[a] \in Nat
        BY <1>0, <2>1, <3>1, HighestNow DEF Highest
      <4>2. rows[c].count \in Nat
        BY <1>0, <2>1 DEF TypeOK
      <4>3. QED
        BY <2>2, <3>2, <4>1, <4>2, Limits
    <3>4. Fate' = [Fate EXCEPT ![a] = "dropped"]
      BY <2>1, <2>6, <3>2, OneFateChanges
    <3>5. Promise!Drop(a)
      BY <2>4, <3>2, <3>3, <3>4 DEF Promise!Drop
    <3>6. QED
      BY <2>1, <3>5 DEF Promised, Promise!Next, Promise!Settle
  <2>9. QED
    BY <2>7, <2>8
<1>13. QED
  BY <1>2, <1>4, <1>5, <1>6, <1>8, <1>9, <1>10, <1>11, <1>12 DEF Next

(* The relay implements the safety part of RelayPromise: each step of the  *)
(* receiver, the queue and the puller holds, delivers, handles or drops as *)
(* the promise allows.  In particular an activity Teams was answered for   *)
(* is dropped only if it is hopeless or came more often than the limit.    *)
THEOREM RelayImplementsPromise ==
    ASSUME ConstantsType
    PROVE  Spec => Promise!Init /\ [][Promise!Next]_(Promise!vars)
<1>1. Init => Promise!Init
  <2> SUFFICES ASSUME Init PROVE Promise!Init
    OBVIOUS
  <2>1. TypeOK
    BY InitInv DEF IInv, Queue
  <2>2. \A a \in Activities : Fate[a] = "absent"
    BY FateNow DEF Init, FateCases
  <2>3. \A a \in Activities : Deliveries[a] = 0
    BY <2>1, HighestNow DEF Init, Highest, CopiesOf
  <2>4. QED
    BY <2>2, <2>3 DEF Promise!Init, Fate, Deliveries
<1>2. IInv /\ [Next]_vars /\ IInv' => [Promise!Next]_(Promise!vars)
  BY StepKeepsPromise DEF Promised, Promise!vars
<1>3. QED
  BY <1>1, <1>2, Invariant, PTL DEF Spec
=============================================================================
