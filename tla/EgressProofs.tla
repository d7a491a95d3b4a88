---------------------------- MODULE EgressProofs ----------------------------
(***************************************************************************)
(* Safety of the sending half for every pair of queue sizes with           *)
(* tx_queue >= rx_queue >= 2.                                              *)
(***************************************************************************)
EXTENDS Egress, FiniteSetTheorems, TLAPS

-----------------------------------------------------------------------------
(* The list operations keep every context on the list exactly once.  Each   *)
(* takes what is at position from[p] of the old list to position p.         *)
LEMMA Positions ==
    /\ 1 \in Pos /\ 2 \in Pos /\ rx_queue \in Pos
    /\ \A i \in Pos : i \in Int /\ 1 <= i /\ i <= rx_queue
    /\ \A i \in Pos : i # rx_queue => i + 1 \in Pos
    /\ \A i \in Pos : i # 1 => i - 1 \in Pos
BY RingAssumption DEF RingAssumption, Pos

LEMMA MovedIsList ==
    ASSUME NEW ring, IsList(ring),
           NEW from \in [Pos -> Pos], NEW to \in [Pos -> Pos],
           \A p \in Pos : from[to[p]] = p /\ to[from[p]] = p,
           NEW moved, moved = [p \in Pos |-> ring[from[p]]]
    PROVE  IsList(moved)
<1>1. moved \in [Pos -> Ctx]
  BY DEF IsList
<1>2. ASSUME NEW i \in Pos, NEW j \in Pos, moved[i] = moved[j]
      PROVE  i = j
  <2>1. from[i] = from[j]
    BY <1>2 DEF IsList
  <2> QED BY <2>1
<1>3. ASSUME NEW c \in Ctx PROVE \E i \in Pos : moved[i] = c
  <2>1. PICK k \in Pos : ring[k] = c
    BY DEF IsList
  <2> QED BY <2>1, to[k] \in Pos, moved[to[k]] = c
<1> QED BY <1>1, <1>2, <1>3 DEF IsList

LEMMA MarkBusyIsList ==
    ASSUME NEW ring, IsList(ring)
    PROVE  IsList(MarkBusy(ring))
<1> DEFINE from == [p \in Pos |-> IF p = rx_queue THEN 1 ELSE p + 1]
           to   == [p \in Pos |-> IF p = 1 THEN rx_queue ELSE p - 1]
<1>1. from \in [Pos -> Pos] /\ to \in [Pos -> Pos]
  BY Positions
<1>2. \A p \in Pos : from[to[p]] = p /\ to[from[p]] = p
  BY <1>1, Positions
<1>3. MarkBusy(ring) = [p \in Pos |-> ring[from[p]]]
  BY DEF MarkBusy
<1> QED
  <2> HIDE DEF from, to
  <2> QED BY <1>1, <1>2, <1>3, MovedIsList

(* What MarkFree does, with the position of the freed context named.        *)
LEMMA MarkFreeAt ==
    ASSUME NEW ring, IsList(ring), NEW c \in Ctx
    PROVE  \E at \in Pos :
              /\ ring[at] = c
              /\ MarkFree(ring, c) =
                    [i \in Pos |-> IF i = 1 THEN c
                                   ELSE IF i <= at THEN ring[i - 1] ELSE ring[i]]
<1> DEFINE at == CHOOSE i \in Pos : ring[i] = c
<1>1. \E i \in Pos : ring[i] = c
  BY DEF IsList
<1>2. at \in Pos /\ ring[at] = c
  BY <1>1
<1>3. MarkFree(ring, c) =
        [i \in Pos |-> IF i = 1 THEN c ELSE IF i <= at THEN ring[i - 1] ELSE ring[i]]
  BY DEF MarkFree
<1> QED BY <1>2, <1>3

LEMMA MarkFreeIsList ==
    ASSUME NEW ring, IsList(ring), NEW c \in Ctx
    PROVE  IsList(MarkFree(ring, c))
<1>1. PICK at \in Pos :
        /\ ring[at] = c
        /\ MarkFree(ring, c) = [i \in Pos |-> IF i = 1 THEN c
                                              ELSE IF i <= at THEN ring[i - 1] ELSE ring[i]]
  BY MarkFreeAt
<1> DEFINE from == [p \in Pos |-> IF p = 1 THEN at ELSE IF p <= at THEN p - 1 ELSE p]
           to   == [p \in Pos |-> IF p = at THEN 1 ELSE IF p < at THEN p + 1 ELSE p]
<1>2. from \in [Pos -> Pos] /\ to \in [Pos -> Pos]
  BY Positions
<1>3. \A p \in Pos : from[to[p]] = p /\ to[from[p]] = p
  BY <1>2, Positions
<1>4. MarkFree(ring, c) = [p \in Pos |-> ring[from[p]]]
  BY <1>1
<1> QED
  <2> HIDE DEF from, to
  <2> QED BY <1>2, <1>3, <1>4, MovedIsList

-----------------------------------------------------------------------------
(* Where the used contexts are: behind the free ones (Suffix), the first k  *)
(* positions being free (FreeUpTo), or exactly those (FreeExactly).         *)
Suffix(ring, busy) == \A i, j \in Pos : i < j /\ ring[i] \in busy => ring[j] \in busy
FreeUpTo(ring, busy, k) == \A i \in Pos : i <= k => ring[i] \notin busy
FreeExactly(ring, busy, k) == \A i \in Pos : ring[i] \in busy <=> i > k

(* Posting on a free head uses up one free position, and no more.           *)
LEMMA PostMoves ==
    ASSUME NEW ring, IsList(ring), NEW busy, ring[1] \notin busy,
           NEW k \in Int, Suffix(ring, busy)
    PROVE  /\ Suffix(MarkBusy(ring), busy \cup {ring[1]})
           /\ FreeUpTo(ring, busy, k) /\ k <= rx_queue =>
                 FreeUpTo(MarkBusy(ring), busy \cup {ring[1]}, k - 1)
           /\ FreeExactly(ring, busy, k) /\ k <= rx_queue =>
                 FreeExactly(MarkBusy(ring), busy \cup {ring[1]}, k - 1)
<1> DEFINE moved == MarkBusy(ring)
           used  == busy \cup {ring[1]}
<1>1. moved[rx_queue] \in used
  BY Positions DEF MarkBusy
<1>2. \A i \in Pos : i # rx_queue =>
        i + 1 \in Pos /\ moved[i] = ring[i + 1] /\ ring[i + 1] # ring[1]
  <2>1. \A i \in Pos : i # rx_queue => i + 1 \in Pos /\ moved[i] = ring[i + 1] /\ i + 1 # 1
    BY Positions DEF MarkBusy
  <2> QED BY <2>1, Positions DEF IsList
<1>3. \A i \in Pos : i # rx_queue => (moved[i] \in used <=> ring[i + 1] \in busy)
  BY <1>2
<1> HIDE DEF moved, used
<1>4. Suffix(moved, used)
  <2> SUFFICES ASSUME NEW i \in Pos, NEW j \in Pos, i < j, moved[i] \in used
               PROVE  moved[j] \in used
    BY DEF Suffix
  <2>1. CASE j = rx_queue
    BY <2>1, <1>1
  <2>2. CASE j # rx_queue
    <3>1. i # rx_queue /\ i + 1 < j + 1
      BY <2>2, Positions
    <3>2. ring[i + 1] \in busy
      BY <3>1, <1>3
    <3>3. ring[j + 1] \in busy
      BY <3>1, <3>2, <2>2, <1>2 DEF Suffix
    <3> QED BY <3>3, <2>2, <1>3
  <2> QED BY <2>1, <2>2
<1>5. ASSUME FreeUpTo(ring, busy, k), k <= rx_queue
      PROVE  FreeUpTo(moved, used, k - 1)
  <2> SUFFICES ASSUME NEW i \in Pos, i <= k - 1
               PROVE  moved[i] \notin used
    BY DEF FreeUpTo
  <2>1. i # rx_queue /\ i + 1 <= k
    BY <1>5, Positions
  <2> QED BY <2>1, <1>2, <1>3, <1>5 DEF FreeUpTo
<1>6. ASSUME FreeExactly(ring, busy, k), k <= rx_queue
      PROVE  FreeExactly(moved, used, k - 1)
  <2> SUFFICES ASSUME NEW i \in Pos
               PROVE  moved[i] \in used <=> i > k - 1
    BY DEF FreeExactly
  <2>1. CASE i = rx_queue
    BY <2>1, <1>1, <1>6, Positions
  <2>2. CASE i # rx_queue
    <3>1. i + 1 > k <=> i > k - 1
      BY Positions
    <3> QED BY <2>2, <3>1, <1>2, <1>3, <1>6 DEF FreeExactly
  <2> QED BY <2>1, <2>2
<1> QED BY <1>4, <1>5, <1>6 DEF moved, used

(* Releasing a used context adds one free position, whatever place in the   *)
(* list its completion finds it at.                                         *)
LEMMA ReleaseMoves ==
    ASSUME NEW ring, IsList(ring), NEW busy, NEW c \in busy, c \in Ctx,
           NEW k \in Int, Suffix(ring, busy), FreeUpTo(ring, busy, k)
    PROVE  /\ k < rx_queue
           /\ Suffix(MarkFree(ring, c), busy \ {c})
           /\ FreeUpTo(MarkFree(ring, c), busy \ {c}, k + 1)
           /\ FreeExactly(ring, busy, k) /\ k >= 0 =>
                 FreeExactly(MarkFree(ring, c), busy \ {c}, k + 1)
<1> DEFINE moved == MarkFree(ring, c)
           used  == busy \ {c}
<1>1. PICK at \in Pos :
        /\ ring[at] = c
        /\ moved = [i \in Pos |-> IF i = 1 THEN c
                                  ELSE IF i <= at THEN ring[i - 1] ELSE ring[i]]
  BY MarkFreeAt
<1>2. \A p \in Pos : p # at => ring[p] # c
  BY <1>1 DEF IsList
<1>3. moved[1] \notin used
  BY <1>1, Positions
<1>4. \A i \in Pos : i # 1 /\ i <= at =>
        i - 1 \in Pos /\ (moved[i] \in used <=> ring[i - 1] \in busy)
  <2>1. \A i \in Pos : i # 1 /\ i <= at =>
          i - 1 \in Pos /\ moved[i] = ring[i - 1] /\ i - 1 # at
    BY <1>1, Positions
  <2> QED BY <2>1, <1>2
<1>5. \A i \in Pos : i # 1 /\ i > at => (moved[i] \in used <=> ring[i] \in busy)
  <2>1. \A i \in Pos : i # 1 /\ i > at => moved[i] = ring[i] /\ i # at
    BY <1>1, Positions
  <2> QED BY <2>1, <1>2
<1>6. at > k
  BY <1>1, Positions DEF FreeUpTo
<1>7. \A p \in Pos : p >= at => ring[p] \in busy
  BY <1>1, Positions DEF Suffix
<1> HIDE DEF moved, used
<1>8. Suffix(moved, used)
  <2> SUFFICES ASSUME NEW i \in Pos, NEW j \in Pos, i < j, moved[i] \in used
               PROVE  moved[j] \in used
    BY DEF Suffix
  <2>1. i # 1 /\ j # 1
    BY <1>3, Positions
  <2>2. CASE j > at
    BY <2>1, <2>2, <1>5, <1>7, Positions
  <2>3. CASE j <= at
    <3>1. i <= at /\ i - 1 < j - 1
      BY <2>3, Positions
    <3>2. ring[i - 1] \in busy
      BY <2>1, <3>1, <1>4
    <3>3. ring[j - 1] \in busy
      BY <2>1, <2>3, <3>1, <3>2, <1>4 DEF Suffix
    <3> QED BY <2>1, <2>3, <3>3, <1>4
  <2> QED BY <2>2, <2>3, Positions
<1>9. FreeUpTo(moved, used, k + 1)
  <2> SUFFICES ASSUME NEW i \in Pos, i <= k + 1, i # 1
               PROVE  moved[i] \notin used
    BY <1>3 DEF FreeUpTo
  <2>1. i <= at /\ i - 1 <= k
    BY <1>6, Positions
  <2> QED BY <2>1, <1>4 DEF FreeUpTo
<1>10. ASSUME FreeExactly(ring, busy, k), k >= 0
       PROVE  FreeExactly(moved, used, k + 1)
  <2> SUFFICES ASSUME NEW i \in Pos
               PROVE  moved[i] \in used <=> i > k + 1
    BY DEF FreeExactly
  <2>1. CASE i = 1
    BY <2>1, <1>3, <1>10
  <2>2. CASE i # 1 /\ i <= at
    <3>1. i - 1 > k <=> i > k + 1
      BY Positions
    <3> QED BY <2>2, <3>1, <1>4, <1>10 DEF FreeExactly
  <2>3. CASE i # 1 /\ i > at
    BY <2>3, <1>5, <1>6, <1>7, Positions
  <2> QED BY <2>1, <2>2, <2>3, Positions
<1>11. k < rx_queue
  BY <1>6, Positions
<1> QED BY <1>8, <1>9, <1>10, <1>11 DEF moved, used

(* A flush frees nothing unless the head is used, and then everything: the  *)
(* used contexts being a suffix, the walk from the head sees no other case. *)
LEMMA FlushMoves ==
    ASSUME NEW ring, IsList(ring), NEW busy, busy \subseteq Ctx,
           Suffix(ring, busy)
    PROVE  /\ Cardinality(FlushedBy(ring, busy)) \in 0 .. rx_queue
           /\ ring[1] \notin busy =>
                 FlushedBy(ring, busy) = {} /\ Cardinality(FlushedBy(ring, busy)) = 0
           /\ ring[1] \in busy => busy \ FlushedBy(ring, busy) = {}
<1> DEFINE flushed == FlushedBy(ring, busy)
<1>1. flushed \subseteq Ctx
  BY DEF FlushedBy, IsList
<1>2. IsFiniteSet(Ctx) /\ Cardinality(Ctx) = rx_queue
  BY FS_Interval, RingAssumption DEF Ctx, RingAssumption
<1>3. Cardinality(flushed) \in 0 .. rx_queue
  <2>1. IsFiniteSet(flushed) /\ Cardinality(flushed) <= rx_queue
    BY <1>1, <1>2, FS_Subset
  <2>2. Cardinality(flushed) \in Nat
    BY <2>1, FS_CardinalityType
  <2> QED BY <2>1, <2>2
<1>4. ASSUME ring[1] \notin busy
      PROVE  flushed = {} /\ Cardinality(flushed) = 0
  <2>1. ASSUME NEW k \in Pos PROVE ~ \A j \in 1 .. k : ring[j] \in busy
    <3>1. 1 \in 1 .. k
      BY Positions
    <3> QED BY <3>1, <1>4
  <2>2. flushed = {}
    BY <2>1 DEF FlushedBy
  <2> QED BY <2>2, FS_EmptySet
<1>5. ASSUME ring[1] \in busy
      PROVE  busy \ flushed = {}
  <2>1. \A j \in Pos : ring[j] \in busy
    BY <1>5, Positions DEF Suffix
  <2>2. ASSUME NEW k \in Pos, NEW j \in 1 .. k PROVE j \in Pos
    BY Positions DEF Pos
  <2>3. ASSUME NEW k \in Pos PROVE ring[k] \in flushed
    <3>1. \A j \in 1 .. k : ring[j] \in busy
      BY <2>1, <2>2
    <3> QED BY <3>1 DEF FlushedBy
  <2>4. \A c \in Ctx : c \in flushed
    BY <2>3 DEF IsList
  <2> QED BY <2>4
<1> QED BY <1>3, <1>4, <1>5

-----------------------------------------------------------------------------
(* How far the counter says the free prefix reaches.                        *)
Spare == stageout_counter - (tx_queue - rx_queue)

(* The inductive invariant.  CounterMatchesRing is not inductive without    *)
(* the order of the list (BusySuffix); and since an endpoint that closes    *)
(* cleanly still handles completions, the counter's part of it must survive *)
(* the TX errors that leave the counter behind, as FreeUpTo does.           *)
EgressInv ==
    /\ TypeOK
    /\ Suffix(egress_ring, mr_handle)
    /\ FreeUpTo(egress_ring, mr_handle, Spare)
    /\ state # "CLOSING" =>
          /\ ~error
          /\ Spare >= 0
          /\ FreeExactly(egress_ring, mr_handle, Spare)
    /\ HeldWhileInTransit
    /\ FullWindowBlocksPipe
    /\ NothingStagedBeforeConnected
    /\ state = "CONNECTING" => stageout_counter = tx_queue
    /\ state = "ACTIVE" => (pipe_out = "IDLE" <=> stageout_counter > 0)

(* The two assumptions in the form the arithmetic of Spare uses.            *)
LEMMA QueueSizes ==
    /\ rx_queue \in Int /\ tx_queue \in Int
    /\ rx_queue >= 2 /\ tx_queue >= rx_queue
BY RingAssumption, TxQueueAssumption DEF RingAssumption, TxQueueAssumption

LEMMA SpareIsInt == TypeOK => Spare \in Int /\ Spare <= rx_queue
BY QueueSizes DEF TypeOK, Spare

(* A counter at its limit means that no context is in use.                  *)
LEMMA EmptyMeansFree == EgressInv /\ egress_empty => mr_handle = {}
<1> SUFFICES ASSUME EgressInv, egress_empty PROVE mr_handle = {}
  OBVIOUS
<1>1. Spare = rx_queue
  BY QueueSizes DEF egress_empty, Spare
<1>2. \A i \in Pos : egress_ring[i] \notin mr_handle
  BY <1>1, Positions DEF EgressInv, FreeUpTo
<1> QED BY <1>2 DEF EgressInv, TypeOK, RingTypeOK, IsList

LEMMA InitInv == Init => EgressInv
<1> SUFFICES ASSUME Init PROVE EgressInv
  OBVIOUS
<1> USE DEF Init, EgressInit, RingInit
<1>1. IsList(egress_ring)
  BY DEF IsList, Pos, Ctx
<1>2. TypeOK
  <2>1. stageout_counter \in 0 .. tx_queue
    BY QueueSizes
  <2>2. RingTypeOK
    BY <1>1 DEF RingTypeOK
  <2> QED BY <2>1, <2>2 DEF TypeOK
<1>3. Spare = rx_queue
  BY QueueSizes DEF Spare
<1>4. FreeExactly(egress_ring, mr_handle, Spare)
  BY <1>3, Positions DEF FreeExactly
<1>5. Suffix(egress_ring, mr_handle) /\ FreeUpTo(egress_ring, mr_handle, Spare)
  BY DEF Suffix, FreeUpTo
<1>6. HeldWhileInTransit /\ NothingStagedBeforeConnected
  BY DEF HeldWhileInTransit, NothingStagedBeforeConnected
<1>7. FullWindowBlocksPipe
  BY QueueSizes DEF FullWindowBlocksPipe
<1> QED BY <1>2, <1>3, <1>4, <1>5, <1>6, <1>7, QueueSizes DEF EgressInv

(* Closing with or without a flush keeps the list, the order of the list    *)
(* and the counter's bounds.                                                *)
LEMMA FlushStep ==
    ASSUME NEW ring, IsList(ring), NEW busy, busy \subseteq Ctx,
           NEW failed \in BOOLEAN,
           stageout_counter \in 0 .. tx_queue,
           Suffix(ring, busy), FreeUpTo(ring, busy, Spare),
           FlushEgress(ring, busy, failed)
    PROVE  /\ RingTypeOK'
           /\ mr_handle' \subseteq busy
           /\ ~failed => mr_handle' = busy
           /\ stageout_counter' \in 0 .. tx_queue
           /\ stageout_counter' >= stageout_counter
           /\ Suffix(egress_ring', mr_handle')
           /\ FreeUpTo(egress_ring', mr_handle', Spare')
<1> DEFINE flushed == IF failed THEN FlushedBy(ring, busy) ELSE {}
<1>1. /\ egress_ring' = ring
      /\ mr_handle' = busy \ flushed
      /\ stageout_counter' = stageout_counter + Cardinality(flushed)
  BY DEF FlushEgress
<1>2. stageout_counter \in Int /\ 0 <= stageout_counter /\ stageout_counter <= tx_queue
  BY QueueSizes
<1>3. RingTypeOK'
  BY <1>1 DEF RingTypeOK
<1>4. CASE flushed = {} /\ Cardinality(flushed) = 0
  <2>1. mr_handle' = busy
    BY <1>1, <1>4
  <2>2. stageout_counter' = stageout_counter
    BY <1>1, <1>2, <1>4
  <2>3. Spare' = Spare
    BY <2>2 DEF Spare
  <2> QED BY <1>1, <1>2, <1>3, <2>1, <2>2, <2>3, QueueSizes
<1>5. CASE failed /\ ring[1] \in busy
  <2>1. mr_handle' = {}
    BY <1>1, <1>5, FlushMoves
  <2>2. Cardinality(flushed) \in 0 .. rx_queue
    BY <1>5, FlushMoves
  <2>3. ~ (1 <= Spare)
    BY <1>5, Positions DEF FreeUpTo
  <2>4. stageout_counter' \in 0 .. tx_queue /\ stageout_counter' >= stageout_counter
    BY <1>1, <1>2, <2>2, <2>3, QueueSizes DEF Spare
  <2>5. Suffix(egress_ring', mr_handle') /\ FreeUpTo(egress_ring', mr_handle', Spare')
    BY <2>1 DEF Suffix, FreeUpTo
  <2> QED BY <1>1, <1>3, <1>5, <2>1, <2>4, <2>5
<1>6. CASE failed /\ ring[1] \notin busy
  BY <1>4, <1>6, FlushMoves
<1>7. CASE ~failed
  BY <1>4, <1>7, FS_EmptySet
<1> QED BY <1>5, <1>6, <1>7

LEMMA StepInv == EgressInv /\ [Next]_vars => EgressInv'
<1> SUFFICES ASSUME EgressInv, [Next]_vars PROVE EgressInv'
  OBVIOUS
<1> USE DEF EgressInv
<1>0. /\ IsList(egress_ring) /\ mr_handle \subseteq Ctx
      /\ stageout_counter \in Int /\ 0 <= stageout_counter /\ stageout_counter <= tx_queue
      /\ Spare \in Int /\ Spare <= rx_queue
  BY SpareIsInt, QueueSizes DEF TypeOK, RingTypeOK
<1>1. CASE Connected
  <2>1. Spare' = Spare
    BY <1>1 DEF Connected, Spare
  <2> QED BY <1>1, <2>1, QueueSizes DEF Connected, TypeOK, RingTypeOK, IsList,
        Suffix, FreeUpTo, FreeExactly, HeldWhileInTransit, FullWindowBlocksPipe,
        NothingStagedBeforeConnected
<1>2. CASE Send
  <2>1. /\ egress_ring[1] \notin mr_handle
        /\ egress_ring' = MarkBusy(egress_ring)
        /\ mr_handle' = mr_handle \cup {egress_ring[1]}
        /\ tx_posted' = tx_posted \cup {egress_ring[1]}
    BY <1>2 DEF Send, SendStaged, PostContext, HasFreeContext, egress_ctx_head
  <2>2. stageout_counter >= 1 /\ stageout_counter' = stageout_counter - 1
    BY <1>0, <1>2 DEF Send, SendStaged, FullWindowBlocksPipe
  <2>3. Spare' = Spare - 1
    BY <1>0, <2>2, QueueSizes DEF Spare
  <2>4. egress_ring[1] \in Ctx /\ IsList(egress_ring')
    BY <1>0, <2>1, MarkBusyIsList, Positions DEF IsList
  <2>5. TypeOK'
    <3>1. stageout_counter' \in 0 .. tx_queue
      BY <1>0, <2>2, QueueSizes
    <3>2. RingTypeOK'
      BY <1>0, <2>1, <2>4 DEF RingTypeOK
    <3> QED BY <1>2, <2>1, <2>4, <3>1, <3>2 DEF TypeOK, Send, SendStaged, sharedVars
  <2>6. /\ Suffix(egress_ring', mr_handle')
        /\ FreeUpTo(egress_ring', mr_handle', Spare')
        /\ FreeExactly(egress_ring', mr_handle', Spare')
    BY <1>0, <1>2, <2>1, <2>3, PostMoves DEF Send
  <2>7. Spare' >= 0
    BY <1>0, <1>2, <2>1, <2>3, Positions DEF FreeExactly, Send
  <2>8. pipe_out' = "IDLE" <=> stageout_counter' > 0
    BY <1>0, <1>2, <2>2 DEF Send, SendStaged
  <2> QED BY <1>2, <2>1, <2>2, <2>5, <2>6, <2>7, <2>8, QueueSizes
        DEF Send, SendStaged, sharedVars, Suffix, FreeUpTo, FreeExactly,
            HeldWhileInTransit, FullWindowBlocksPipe, NothingStagedBeforeConnected
<1>3. CASE SendFails
  <2>1. /\ RingTypeOK'
        /\ stageout_counter' \in 0 .. tx_queue
        /\ Suffix(egress_ring', mr_handle')
        /\ FreeUpTo(egress_ring', mr_handle', Spare')
    BY <1>0, <1>3, FlushStep DEF SendFails, TypeOK
  <2>2. TypeOK'
    BY <1>3, <2>1 DEF SendFails, TypeOK
  <2> QED BY <1>3, <2>1, <2>2 DEF SendFails, Suffix, FreeUpTo,
        HeldWhileInTransit, FullWindowBlocksPipe, NothingStagedBeforeConnected
<1>4. CASE SendWhileClosing
  <2>1. Spare' = Spare
    BY <1>4 DEF SendWhileClosing, Spare
  <2> QED BY <1>4, <2>1 DEF SendWhileClosing, sharedVars, TypeOK, RingTypeOK, IsList,
        Suffix, FreeUpTo, HeldWhileInTransit, FullWindowBlocksPipe,
        NothingStagedBeforeConnected
<1>5. ASSUME NEW c \in Ctx, TxDone(c)
      PROVE  EgressInv'
  <2>1. CASE TxCompleted(c)
    <3>1. /\ c \in mr_handle /\ ~error
          /\ egress_ring' = MarkFree(egress_ring, c)
          /\ mr_handle' = mr_handle \ {c}
          /\ tx_posted' = tx_posted \ {c}
          /\ stageout_counter' = stageout_counter + 1
      BY <2>1 DEF TxCompleted, Completed, ReleaseContext, HeldWhileInTransit
    <3>2. Spare' = Spare + 1
      BY <1>0, <3>1, QueueSizes DEF Spare
    <3>3. IsList(egress_ring')
      BY <1>0, <3>1, MarkFreeIsList
    <3>4. /\ Spare < rx_queue
          /\ Suffix(egress_ring', mr_handle')
          /\ FreeUpTo(egress_ring', mr_handle', Spare')
          /\ state # "CLOSING" => FreeExactly(egress_ring', mr_handle', Spare')
      BY <1>0, <3>1, <3>2, ReleaseMoves
    <3>5. stageout_counter' \in 0 .. tx_queue /\ stageout_counter' # 0
      BY <1>0, <3>1, <3>4, QueueSizes DEF Spare
    <3>6. RingTypeOK'
      BY <1>0, <3>1, <3>3 DEF RingTypeOK
    <3>7. TypeOK'
      BY <2>1, <3>1, <3>5, <3>6 DEF TypeOK, TxCompleted, Completed, sharedVars
    <3>8. /\ state' = state /\ error' = error
          /\ stageout_state' = stageout_state
      BY <2>1 DEF TxCompleted, sharedVars
    <3>9. state # "CLOSING" => Spare' >= 0
      BY <1>0, <3>2
    <3>10. state # "CONNECTING"
      BY <2>1 DEF TxCompleted
    <3>11. HeldWhileInTransit' /\ FullWindowBlocksPipe' /\ NothingStagedBeforeConnected'
      BY <3>1, <3>5, <3>8
         DEF HeldWhileInTransit, FullWindowBlocksPipe, NothingStagedBeforeConnected
    <3>12. state = "ACTIVE" => (pipe_out' = "IDLE" <=> stageout_counter' > 0)
      <4>1. stageout_counter' > 0
        BY <1>0, <3>1
      <4>2. stageout_counter > 0 <=> stageout_counter # 0
        BY <1>0
      <4> QED BY <2>1, <4>1, <4>2 DEF TxCompleted, Completed
    <3> QED BY <3>4, <3>7, <3>8, <3>9, <3>10, <3>11, <3>12 DEF Suffix, FreeUpTo, FreeExactly
  <2>2. CASE TxDiscarded(c)
    <3>1. Spare' = Spare
      BY <2>2 DEF TxDiscarded, Spare
    <3> QED BY <2>2, <3>1 DEF TxDiscarded, sharedVars, TypeOK, RingTypeOK, IsList,
          Suffix, FreeUpTo, HeldWhileInTransit, FullWindowBlocksPipe,
          NothingStagedBeforeConnected
  <2>3. CASE TxError(c)
    <3> DEFINE ring == MarkFree(egress_ring, c)
               busy == mr_handle \ {c}
    <3>1. c \in mr_handle
      BY <2>3 DEF TxError, HeldWhileInTransit
    <3>2. IsList(ring) /\ busy \subseteq Ctx
      BY <1>0, MarkFreeIsList
    <3>3. Suffix(ring, busy) /\ FreeUpTo(ring, busy, Spare + 1)
      BY <1>0, <3>1, ReleaseMoves
    <3>4. FreeUpTo(ring, busy, Spare)
      BY <1>0, <3>3, Positions DEF FreeUpTo
    <3>5. FlushEgress(ring, busy, TRUE)
      BY <2>3 DEF TxError
    <3> HIDE DEF ring, busy
    <3>6. /\ RingTypeOK'
          /\ stageout_counter' \in 0 .. tx_queue
          /\ stageout_counter' >= stageout_counter
          /\ Suffix(egress_ring', mr_handle')
          /\ FreeUpTo(egress_ring', mr_handle', Spare')
      BY <1>0, <3>2, <3>3, <3>4, <3>5, FlushStep DEF TypeOK
    <3>7. TypeOK'
      BY <2>3, <3>6 DEF TxError, TypeOK
    <3>8. FullWindowBlocksPipe'
      BY <1>0, <2>3, <3>6, QueueSizes DEF TxError, FullWindowBlocksPipe
    <3> QED BY <2>3, <3>6, <3>7, <3>8 DEF TxError, Suffix, FreeUpTo,
          HeldWhileInTransit, NothingStagedBeforeConnected
  <2>4. CASE TxErrorWhileClosing(c)
    <3>1. /\ c \in mr_handle /\ ~error
          /\ egress_ring' = MarkFree(egress_ring, c)
          /\ mr_handle' = mr_handle \ {c}
          /\ tx_posted' = tx_posted \ {c}
      BY <2>4 DEF TxErrorWhileClosing, ReleaseContext, HeldWhileInTransit
    <3>2. Spare' = Spare
      BY <2>4 DEF TxErrorWhileClosing, Spare
    <3>3. IsList(egress_ring')
      BY <1>0, <3>1, MarkFreeIsList
    <3>4. Suffix(egress_ring', mr_handle') /\ FreeUpTo(egress_ring', mr_handle', Spare + 1)
      BY <1>0, <3>1, ReleaseMoves
    <3>5. FreeUpTo(egress_ring', mr_handle', Spare')
      BY <1>0, <3>2, <3>4, Positions DEF FreeUpTo
    <3>6. RingTypeOK'
      BY <1>0, <3>1, <3>3 DEF RingTypeOK
    <3>7. TypeOK'
      BY <2>4, <3>1, <3>6 DEF TypeOK, TxErrorWhileClosing, sharedVars
    <3> QED BY <2>4, <3>1, <3>4, <3>5, <3>7 DEF TxErrorWhileClosing, sharedVars,
          Suffix, FreeUpTo, HeldWhileInTransit, FullWindowBlocksPipe,
          NothingStagedBeforeConnected
  <2> QED BY <1>5, <2>1, <2>2, <2>3, <2>4 DEF TxDone
<1>6. ASSUME NEW failed \in BOOLEAN, Stop(failed)
      PROVE  EgressInv'
  <2>1. /\ RingTypeOK'
        /\ ~failed => mr_handle' = mr_handle
        /\ stageout_counter' \in 0 .. tx_queue
        /\ stageout_counter' >= stageout_counter
        /\ Suffix(egress_ring', mr_handle')
        /\ FreeUpTo(egress_ring', mr_handle', Spare')
    BY <1>0, <1>6, FlushStep DEF Stop, TypeOK
  <2>2. TypeOK'
    BY <1>6, <2>1 DEF Stop, TypeOK
  <2>3. FullWindowBlocksPipe'
    BY <1>0, <1>6, <2>1, QueueSizes DEF Stop, FullWindowBlocksPipe
  <2>4. HeldWhileInTransit' /\ NothingStagedBeforeConnected'
    BY <1>6, <2>1 DEF Stop, HeldWhileInTransit, NothingStagedBeforeConnected
  <2> QED BY <1>6, <2>1, <2>2, <2>3, <2>4 DEF Stop, Suffix, FreeUpTo
<1>7. CASE ConnectFails
  <2>1. /\ RingTypeOK'
        /\ stageout_counter' \in 0 .. tx_queue
        /\ stageout_counter' >= stageout_counter
        /\ Suffix(egress_ring', mr_handle')
        /\ FreeUpTo(egress_ring', mr_handle', Spare')
    BY <1>0, <1>7, FlushStep DEF ConnectFails, TypeOK
  <2>2. TypeOK'
    BY <1>7, <2>1 DEF ConnectFails, TypeOK
  <2>3. FullWindowBlocksPipe'
    BY <1>0, <1>7, <2>1, QueueSizes DEF ConnectFails, FullWindowBlocksPipe
  <2>4. HeldWhileInTransit' /\ NothingStagedBeforeConnected'
    BY <1>7, <2>1 DEF ConnectFails, HeldWhileInTransit, NothingStagedBeforeConnected
  <2> QED BY <1>7, <2>1, <2>2, <2>3, <2>4 DEF ConnectFails, Suffix, FreeUpTo
<1>8. CASE UNCHANGED vars
  <2>1. Spare' = Spare
    BY <1>8 DEF vars, egressVars, Spare
  <2> QED BY <1>8, <2>1 DEF vars, egressVars, sharedVars, TypeOK, RingTypeOK, IsList,
        Suffix, FreeUpTo, FreeExactly, HeldWhileInTransit, FullWindowBlocksPipe,
        NothingStagedBeforeConnected
<1> QED BY <1>1, <1>2, <1>3, <1>4, <1>5, <1>6, <1>7, <1>8 DEF Next

(* Nothing is posted before the connection, whatever ends the wait for it.  *)
LEMMA EmptyUntilConnected ==
    ASSUME EgressInv, [Next]_vars, state = "CONNECTING"
    PROVE  stageout_counter' = tx_queue
<1>1. mr_handle = {} /\ stageout_counter = tx_queue
  BY EmptyMeansFree DEF EgressInv, egress_empty
<1>2. ASSUME NEW failed \in BOOLEAN, FlushEgress(egress_ring, mr_handle, failed)
      PROVE  stageout_counter' = tx_queue
  <2>1. IsList(egress_ring) /\ Suffix(egress_ring, {}) /\ egress_ring[1] \notin {}
    BY DEF EgressInv, TypeOK, RingTypeOK, Suffix
  <2>2. Cardinality(FlushedBy(egress_ring, mr_handle)) = 0
    BY <1>1, <2>1, FlushMoves
  <2>3. Cardinality({}) = 0
    BY FS_EmptySet
  <2> QED BY <1>1, <1>2, <2>2, <2>3, QueueSizes DEF FlushEgress
<1>3. CASE ConnectFails
  BY <1>2, <1>3 DEF ConnectFails
<1>4. ASSUME NEW failed \in BOOLEAN, Stop(failed) PROVE stageout_counter' = tx_queue
  BY <1>2, <1>4 DEF Stop
<1>5. CASE Connected \/ UNCHANGED vars
  BY <1>1, <1>5 DEF Connected, vars, egressVars
<1> QED BY <1>3, <1>4, <1>5 DEF Next, Send, SendFails, SendWhileClosing, TxDone,
        TxCompleted, TxDiscarded, TxError, TxErrorWhileClosing

LEMMA SpecInv == Spec => []EgressInv
BY InitInv, StepInv, PTL DEF Spec

-----------------------------------------------------------------------------
(* The variables stay in their types: in particular stageout_counter never  *)
(* wraps below zero nor passes the size of the queue, and the list keeps    *)
(* every context exactly once through every order of completions.           *)
THEOREM TypeCorrect == Spec => []TypeOK
BY SpecInv, PTL DEF EgressInv

(* nn_sofi_egress_get_context may look at the head alone.                   *)
THEOREM BusyContextsLast == Spec => []BusySuffix
<1>1. EgressInv => BusySuffix
  BY DEF EgressInv, BusySuffix, Suffix
<1> QED BY <1>1, SpecInv, PTL

(* The counter and the list agree while the endpoint is active.             *)
THEOREM CounterIsExact == Spec => []CounterMatchesRing
<1>1. EgressInv => CounterMatchesRing
  BY DEF EgressInv, CounterMatchesRing, FreeExactly, Spare
<1> QED BY <1>1, SpecInv, PTL

(* No context is reused while its send is in transit.                       *)
THEOREM NoReuseInTransit == Spec => []HeldWhileInTransit
<1>1. EgressInv => HeldWhileInTransit
  BY DEF EgressInv
<1> QED BY <1>1, SpecInv, PTL

(* The completion that reopens a full window finds the pipe waiting for it. *)
THEOREM CallbackIsExpected == Spec => []FullWindowBlocksPipe
<1>1. EgressInv => FullWindowBlocksPipe
  BY DEF EgressInv
<1> QED BY <1>1, SpecInv, PTL

(* With queues of equal size, as by default, back-pressure is exact: a      *)
(* message is accepted if and only if there is a context for it.            *)
LEMMA HeadTellsAll ==
    ASSUME tx_queue = rx_queue, EgressInv, state = "ACTIVE"
    PROVE  /\ HasFreeContext <=> stageout_counter > 0
           /\ stageout_counter = 0 <=> mr_handle = Ctx
<1>1. Spare = stageout_counter /\ stageout_counter \in Int /\ stageout_counter >= 0
  BY QueueSizes DEF EgressInv, TypeOK, Spare
<1>2. HasFreeContext <=> stageout_counter > 0
  BY <1>1, Positions DEF EgressInv, FreeExactly, HasFreeContext, egress_ctx_head
<1>3. ASSUME stageout_counter = 0 PROVE mr_handle = Ctx
  <2>1. \A i \in Pos : egress_ring[i] \in mr_handle
    BY <1>1, <1>3, Positions DEF EgressInv, FreeExactly
  <2>2. \A c \in Ctx : c \in mr_handle
    BY <2>1 DEF EgressInv, TypeOK, RingTypeOK, IsList
  <2> QED BY <2>2 DEF EgressInv, TypeOK, RingTypeOK
<1>4. ASSUME mr_handle = Ctx PROVE stageout_counter = 0
  <2>1. egress_ring[1] \in Ctx
    BY Positions DEF EgressInv, TypeOK, RingTypeOK, IsList
  <2> QED BY <1>1, <1>2, <1>4, <2>1 DEF HasFreeContext, egress_ctx_head
<1> QED BY <1>2, <1>3, <1>4

THEOREM BackPressureIsExact ==
    ASSUME tx_queue = rx_queue
    PROVE  Spec => []PipeOpenIffContext
<1>1. EgressInv => PipeOpenIffContext
  BY HeadTellsAll DEF EgressInv, PipeOpenIffContext
<1> QED BY <1>1, SpecInv, PTL

(* No step after the STOP action puts a send in transit.                    *)
THEOREM QuietAfterStop == Spec => NoSendAfterStop
<1>1. EgressInv /\ [Next]_vars =>
        [state = "CLOSING" => /\ tx_posted' \subseteq tx_posted
                              /\ mr_handle' \subseteq mr_handle]_vars
  BY DEF Next, Connected, ConnectFails, Send, SendFails, SendWhileClosing, TxDone, TxCompleted,
         Completed, ReleaseContext, TxDiscarded, TxError, TxErrorWhileClosing, Stop,
         vars
<1> QED BY <1>1, SpecInv, PTL DEF Spec, NoSendAfterStop

-----------------------------------------------------------------------------
(* The sending half implements the window: every step is a step of          *)
(* SendWindow, or changes nothing SendWindow sees.                          *)
LEMMA WindowStep ==
    ASSUME tx_queue = rx_queue, EgressInv, EgressInv', [Next]_vars
    PROVE  [Window!Next]_(Window!windowVars)
<1> USE DEF Window!Next, Window!windowVars
<1>1. CASE Connected
  BY <1>1 DEF Connected, Window!Open
<1>2. CASE Send
  <2>1. /\ state = "ACTIVE" /\ state' = "ACTIVE" /\ pipe_out = "IDLE"
        /\ egress_ctx_head \notin mr_handle
        /\ mr_handle' = mr_handle \cup {egress_ctx_head}
    BY <1>2 DEF Send, SendStaged, PostContext, HasFreeContext, sharedVars
  <2>2. pipe_out' = "IDLE" <=> stageout_counter' > 0
    BY <2>1 DEF EgressInv
  <2>3. stageout_counter' = 0 <=> mr_handle' = Ctx
    <3>1. Spare' = stageout_counter' /\ stageout_counter' \in Int /\ stageout_counter' >= 0
      <4>1. stageout_counter' \in 0 .. tx_queue
        BY DEF EgressInv, TypeOK
      <4>2. Spare' = stageout_counter' - (tx_queue - rx_queue)
        BY DEF Spare
      <4>3. tx_queue - rx_queue = 0
        BY QueueSizes
      <4>4. stageout_counter' \in Int /\ stageout_counter' >= 0
        BY <4>1, QueueSizes
      <4>5. Spare' = stageout_counter'
        <5> HIDE DEF Spare
        <5> QED BY <4>2, <4>3, <4>4
      <4> QED BY <4>4, <4>5
    <3>2. ASSUME stageout_counter' = 0 PROVE mr_handle' = Ctx
      <4>1. \A i \in Pos : egress_ring'[i] \in mr_handle'
        BY <2>1, <3>1, <3>2, Positions DEF EgressInv, FreeExactly
      <4>2. \A c \in Ctx : c \in mr_handle'
        BY <4>1 DEF EgressInv, TypeOK, RingTypeOK, IsList
      <4> QED BY <4>2 DEF EgressInv, TypeOK, RingTypeOK
    <3>3. ASSUME mr_handle' = Ctx PROVE stageout_counter' = 0
      <4>1. egress_ring'[1] \in mr_handle'
        BY <3>3, Positions DEF EgressInv, TypeOK, RingTypeOK, IsList
      <4> QED BY <2>1, <3>1, <4>1, Positions DEF EgressInv, FreeExactly
    <3> QED BY <3>2, <3>3
  <2>4. egress_ctx_head \in Ctx
    BY Positions DEF EgressInv, TypeOK, RingTypeOK, IsList, egress_ctx_head
  <2>5. stageout_counter' > 0 <=> stageout_counter' # 0
    BY DEF EgressInv, TypeOK
  <2>6. Window!Accept(egress_ctx_head)
    BY <2>1, <2>2, <2>3, <2>5 DEF Window!Accept
  <2> QED BY <2>4, <2>6
<1>3. CASE SendFails
  BY <1>3 DEF SendFails, FlushEgress, Window!Close
<1>4. CASE SendWhileClosing
  BY <1>4 DEF SendWhileClosing, sharedVars, Window!Close
<1>5. ASSUME NEW c \in Ctx, TxDone(c)
      PROVE  [Window!Next]_(Window!windowVars)
  <2>1. CASE TxCompleted(c) /\ state = "ACTIVE"
    <3>1. /\ c \in mr_handle /\ mr_handle' = mr_handle \ {c}
          /\ state' = "ACTIVE"
          /\ stageout_counter' = stageout_counter + 1
      BY <2>1 DEF TxCompleted, Completed, ReleaseContext, sharedVars,
            EgressInv, HeldWhileInTransit
    <3>2. stageout_counter' > 0
      BY <3>1 DEF EgressInv, TypeOK
    <3>3. pipe_out' = "IDLE"
      BY <3>1, <3>2 DEF EgressInv
    <3>4. Window!Finish(c)
      BY <2>1, <3>1, <3>3 DEF Window!Finish
    <3> QED BY <3>4
  <2>2. CASE TxCompleted(c) /\ state # "ACTIVE"
    BY <2>2 DEF TxCompleted, Completed, ReleaseContext, sharedVars, Window!Close
  <2>3. CASE TxDiscarded(c)
    BY <2>3 DEF TxDiscarded, sharedVars
  <2>4. CASE TxError(c)
    BY <2>4 DEF TxError, FlushEgress, Window!Close
  <2>5. CASE TxErrorWhileClosing(c)
    BY <2>5 DEF TxErrorWhileClosing, ReleaseContext, sharedVars, Window!Close
  <2> QED BY <1>5, <2>1, <2>2, <2>3, <2>4, <2>5 DEF TxDone
<1>6. ASSUME NEW failed \in BOOLEAN, Stop(failed)
      PROVE  [Window!Next]_(Window!windowVars)
  BY <1>6 DEF Stop, FlushEgress, Window!Close
<1>7. CASE ConnectFails
  BY <1>7 DEF ConnectFails, FlushEgress, Window!Close
<1>8. CASE UNCHANGED vars
  BY <1>8 DEF vars, egressVars, sharedVars
<1> QED BY <1>1, <1>2, <1>3, <1>4, <1>5, <1>6, <1>7, <1>8 DEF Next

(* With queues of equal size nanomsg is promised a window of contexts.      *)
THEOREM EgressImplementsWindow ==
    ASSUME tx_queue = rx_queue
    PROVE  Spec => ImplementsWindow
<1>1. Init => Window!Init
  BY DEF Init, EgressInit, RingInit, Window!Init
<1> QED BY <1>1, WindowStep, SpecInv, PTL DEF Spec, ImplementsWindow, Window!Spec
=============================================================================
