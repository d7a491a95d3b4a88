-------------------------- MODULE EgressListProofs --------------------------
(***************************************************************************)
(* The pointers of sofi.c are the list they are meant to be, for every     *)
(* number of contexts: the links of both directions agree, and every       *)
(* pointer operation is the operation of that name on EgressRing.          *)
(*                                                                         *)
(* The invariant says that some sequence of all contexts is what the       *)
(* pointers describe.  That walking from the head along next visits this   *)
(* sequence and no other is FollowIs; it needs the least position at which *)
(* two walks differ, for there is no induction over positions to cite.     *)
(***************************************************************************)
EXTENDS EgressList, WellFoundedInduction, TLAPS

(* The pointers describe the sequence s.                                    *)
Linked(s) ==
    /\ egress_ctx_head = s[1]
    /\ egress_ctx_tail = s[rx_queue]
    /\ \A i \in Ctx : next[s[i]] = IF i = rx_queue THEN NULL ELSE s[i + 1]
    /\ \A i \in Ctx : prev[s[i]] = IF i = 1 THEN NULL ELSE s[i - 1]

ListInv ==
    /\ next \in [Ctx -> Ctx \cup {NULL}]
    /\ prev \in [Ctx -> Ctx \cup {NULL}]
    /\ mr_handle \subseteq Ctx
    /\ \E s : Ring!IsList(s) /\ Linked(s)

-----------------------------------------------------------------------------
(* Positions and contexts are the same numbers.                             *)
LEMMA Positions ==
    /\ 1 \in Ctx /\ 2 \in Ctx /\ rx_queue \in Ctx /\ rx_queue - 1 \in Ctx
    /\ Ctx \subseteq Nat /\ NULL \notin Ctx
    /\ \A i \in Ctx : 1 <= i /\ i <= rx_queue
    /\ \A i \in Ctx : i # rx_queue => i + 1 \in Ctx
    /\ \A i \in Ctx : i # 1 => i - 1 \in Ctx
    /\ Ring!Ctx = Ctx /\ Ring!Pos = Ctx
BY ListAssumption DEF Ctx, NULL, Ring!Ctx, Ring!Pos

LEMMA IsListMeans ==
    ASSUME NEW s, Ring!IsList(s)
    PROVE  /\ s \in [Ctx -> Ctx]
           /\ \A i, j \in Ctx : s[i] = s[j] => i = j
           /\ \A c \in Ctx : \E i \in Ctx : s[i] = c
BY Positions DEF Ring!IsList

(* A list rearranged by a permutation of the positions is a list.           *)
LEMMA MovedIsList ==
    ASSUME NEW s, Ring!IsList(s),
           NEW from \in [Ctx -> Ctx], NEW to \in [Ctx -> Ctx],
           \A p \in Ctx : from[to[p]] = p /\ to[from[p]] = p,
           NEW moved, moved = [p \in Ctx |-> s[from[p]]]
    PROVE  Ring!IsList(moved)
<1>1. moved \in [Ctx -> Ctx]
  BY IsListMeans
<1>2. ASSUME NEW i \in Ctx, NEW j \in Ctx, moved[i] = moved[j]
      PROVE  i = j
  <2>1. from[i] = from[j]
    BY <1>2, IsListMeans
  <2> QED BY <2>1
<1>3. ASSUME NEW c \in Ctx PROVE \E i \in Ctx : moved[i] = c
  <2>1. PICK k \in Ctx : s[k] = c
    BY IsListMeans
  <2> QED BY <2>1, to[k] \in Ctx, moved[to[k]] = c
<1> QED BY <1>1, <1>2, <1>3, Positions DEF Ring!IsList

LEMMA BusyMoved ==
    ASSUME NEW s, Ring!IsList(s)
    PROVE  /\ Ring!IsList(Ring!MarkBusy(s))
           /\ Ring!MarkBusy(s) =
                 [i \in Ctx |-> IF i = rx_queue THEN s[1] ELSE s[i + 1]]
<1> DEFINE from == [p \in Ctx |-> IF p = rx_queue THEN 1 ELSE p + 1]
           to   == [p \in Ctx |-> IF p = 1 THEN rx_queue ELSE p - 1]
<1>1. from \in [Ctx -> Ctx] /\ to \in [Ctx -> Ctx]
  BY Positions
<1>2. \A p \in Ctx : from[to[p]] = p /\ to[from[p]] = p
  BY <1>1, Positions
<1>3. Ring!MarkBusy(s) = [i \in Ctx |-> IF i = rx_queue THEN s[1] ELSE s[i + 1]]
  BY Positions DEF Ring!MarkBusy
<1>4. Ring!MarkBusy(s) = [p \in Ctx |-> s[from[p]]]
  BY <1>3
<1> HIDE DEF from, to
<1> QED BY <1>1, <1>2, <1>3, <1>4, MovedIsList

LEMMA FreeMoved ==
    ASSUME NEW s, Ring!IsList(s), NEW at \in Ctx
    PROVE  /\ Ring!IsList(Ring!MarkFree(s, s[at]))
           /\ Ring!MarkFree(s, s[at]) =
                 [i \in Ctx |-> IF i = 1 THEN s[at]
                                ELSE IF i <= at THEN s[i - 1] ELSE s[i]]
<1> DEFINE from == [p \in Ctx |-> IF p = 1 THEN at ELSE IF p <= at THEN p - 1 ELSE p]
           to   == [p \in Ctx |-> IF p = at THEN 1 ELSE IF p < at THEN p + 1 ELSE p]
           found == CHOOSE i \in Ctx : s[i] = s[at]
<1>1. found = at
  BY IsListMeans
<1>2. from \in [Ctx -> Ctx] /\ to \in [Ctx -> Ctx]
  BY Positions
<1>3. \A p \in Ctx : from[to[p]] = p /\ to[from[p]] = p
  BY <1>2, Positions
<1>4. Ring!MarkFree(s, s[at]) =
        [i \in Ctx |-> IF i = 1 THEN s[at]
                       ELSE IF i <= found THEN s[i - 1] ELSE s[i]]
  BY Positions DEF Ring!MarkFree
<1>5. Ring!MarkFree(s, s[at]) =
        [i \in Ctx |-> IF i = 1 THEN s[at]
                       ELSE IF i <= at THEN s[i - 1] ELSE s[i]]
  BY <1>1, <1>4
<1>6. Ring!MarkFree(s, s[at]) = [p \in Ctx |-> s[from[p]]]
  BY <1>5
<1> HIDE DEF from, to, found
<1> QED BY <1>2, <1>3, <1>5, <1>6, MovedIsList

-----------------------------------------------------------------------------
(* Walking from the head.  Step is what FollowNext is the solution of.      *)
Step(f) ==
    [i \in Ctx |-> IF i = 1 THEN egress_ctx_head
                   ELSE IF f[i - 1] = NULL THEN NULL ELSE next[f[i - 1]]]

LEMMA LeastNumber ==
    ASSUME NEW T \in SUBSET Nat, T # {}
    PROVE  \E x \in T : \A y \in T : x <= y
<1>1. IsWellFoundedOn(OpToRel(<, Nat), Nat)
  BY NatLessThanWellFounded
<1>2. PICK x \in T : \A y \in T : ~(<<y, x>> \in OpToRel(<, Nat))
  BY <1>1, WFMin
<1>3. \A y \in T : ~(y < x)
  BY <1>2 DEF OpToRel
<1> QED BY <1>3

WalkIsOrder == \A s : Ring!IsList(s) /\ Linked(s) => FollowNext = s

LEMMA FollowIs == WalkIsOrder
<1> SUFFICES ASSUME NEW s, Ring!IsList(s), Linked(s)
             PROVE  FollowNext = s
  BY DEF WalkIsOrder
<1>1. /\ s \in [Ctx -> Ctx] /\ s = [i \in Ctx |-> s[i]]
      /\ \A i \in Ctx : s[i] # NULL
  BY IsListMeans, Positions
<1>2. s = Step(s)
  <2>1. ASSUME NEW i \in Ctx PROVE s[i] = Step(s)[i]
    <3>1. CASE i = 1
      BY <3>1 DEF Step, Linked
    <3>2. CASE i # 1
      <4>1. i - 1 \in Ctx /\ i - 1 # rx_queue /\ (i - 1) + 1 = i
        BY <3>2, Positions
      <4>2. next[s[i - 1]] = s[i]
        BY <4>1 DEF Linked
      <4> QED BY <1>1, <3>2, <4>1, <4>2 DEF Step
    <3> QED BY <3>1, <3>2
  <2>2. Step(s) = [i \in Ctx |-> Step(s)[i]]
    BY DEF Step
  <2> QED BY <1>1, <2>1, <2>2
<1>3. ASSUME NEW f, f = Step(f) PROVE f = s
  <2> DEFINE Differ == {i \in Ctx : f[i] # s[i]}
  <2>1. CASE Differ = {}
    <3>1. f = [i \in Ctx |-> f[i]]
      BY <1>3 DEF Step
    <3> QED BY <2>1, <3>1, <1>1
  <2>2. CASE Differ # {}
    <3>1. Differ \in SUBSET Nat
      BY Positions
    <3>2. PICK x \in Differ : \A y \in Differ : x <= y
      BY <2>2, <3>1, LeastNumber
    <3>3. CASE x = 1
      BY <3>2, <3>3, <1>2, <1>3 DEF Step
    <3>4. CASE x # 1
      <4>1. x - 1 \in Ctx /\ x \in Ctx /\ ~(x <= x - 1)
        BY <3>2, <3>4, Positions
      <4>2. f[x - 1] = s[x - 1]
        BY <3>2, <4>1
      <4>3. f[x] = Step(f)[x] /\ s[x] = Step(s)[x]
        BY <1>2, <1>3
      <4>4. Step(f)[x] = Step(s)[x]
        BY <4>1, <4>2, <3>4 DEF Step
      <4> QED BY <3>2, <4>3, <4>4
    <3> QED BY <3>3, <3>4
  <2> QED BY <2>1, <2>2
<1>4. FollowNext = CHOOSE f : f = Step(f)
  BY DEF FollowNext, Step
<1> QED BY <1>2, <1>3, <1>4

-----------------------------------------------------------------------------
(* The pointer operations, on pointers that describe s.  Every assignment   *)
(* is to the link of a context whose position is known, and two contexts    *)
(* at different positions differ.                                           *)
LinkTypes ==
    /\ next \in [Ctx -> Ctx \cup {NULL}]
    /\ prev \in [Ctx -> Ctx \cup {NULL}]

LEMMA MarkBusyLinks ==
    ASSUME LinkTypes, NEW s, Ring!IsList(s), Linked(s), MarkBusy(egress_ctx_head)
    PROVE  LinkTypes' /\ Linked(Ring!MarkBusy(s))'
<1> DEFINE t == Ring!MarkBusy(s)
           next1 == [next EXCEPT ![s[rx_queue]] = s[1]]
<1>1. /\ s \in [Ctx -> Ctx]
      /\ \A i, j \in Ctx : s[i] = s[j] => i = j
      /\ \A i \in Ctx : s[i] # NULL
  BY IsListMeans, Positions
<1>2. /\ \A i \in Ctx : i # rx_queue => t[i] = s[i + 1]
      /\ t[rx_queue] = s[1]
  BY BusyMoved, Positions
<1> HIDE DEF t
<1>3. next1[s[1]] = s[2]
  <2>1. s[1] # s[rx_queue] /\ 1 # rx_queue /\ 1 + 1 = 2
    BY <1>1, Positions, ListAssumption
  <2> QED BY <2>1, <1>1, Positions DEF Linked, LinkTypes
<1>4. /\ prev' = [prev EXCEPT ![s[1]] = s[rx_queue], ![s[2]] = NULL]
      /\ next' = [next EXCEPT ![s[rx_queue]] = s[1], ![s[1]] = NULL]
      /\ egress_ctx_head' = s[2] /\ egress_ctx_tail' = s[1]
  BY <1>3 DEF MarkBusy, Linked
<1> HIDE DEF next1
<1>5. /\ \A c \in Ctx : next'[c] = IF c = s[1] THEN NULL
                                   ELSE IF c = s[rx_queue] THEN s[1] ELSE next[c]
      /\ \A c \in Ctx : prev'[c] = IF c = s[2] THEN NULL
                                   ELSE IF c = s[1] THEN s[rx_queue] ELSE prev[c]
  BY <1>1, <1>4, Positions DEF LinkTypes
<1>6. ASSUME NEW i \in Ctx
      PROVE  next'[t[i]] = IF i = rx_queue THEN NULL ELSE t[i + 1]
  <2>1. CASE i = rx_queue
    BY <2>1, <1>1, <1>2, <1>5, Positions
  <2>2. CASE i # rx_queue
    <3>1. i + 1 \in Ctx /\ t[i] = s[i + 1] /\ i + 1 # 1 /\ s[i + 1] # s[1]
      BY <2>2, <1>1, <1>2, Positions
    <3>2. CASE i + 1 = rx_queue
      BY <2>2, <3>1, <3>2, <1>1, <1>2, <1>5
    <3>3. CASE i + 1 # rx_queue
      <4>1. s[i + 1] # s[rx_queue] /\ t[i + 1] = s[(i + 1) + 1]
        BY <3>1, <3>3, <1>1, <1>2, Positions
      <4> QED BY <2>2, <3>1, <3>3, <4>1, <1>1, <1>5 DEF Linked
    <3> QED BY <3>2, <3>3
  <2> QED BY <2>1, <2>2
<1>7. ASSUME NEW i \in Ctx
      PROVE  prev'[t[i]] = IF i = 1 THEN NULL ELSE t[i - 1]
  <2>1. CASE i = 1
    <3>1. t[i] = s[2]
      BY <2>1, <1>2, ListAssumption, Positions
    <3> QED BY <2>1, <3>1, <1>1, <1>5, Positions
  <2>2. CASE i # 1
    <3>1. i - 1 \in Ctx /\ i - 1 # rx_queue /\ (i - 1) + 1 = i /\ t[i - 1] = s[i]
      BY <2>2, <1>2, Positions
    <3>2. CASE i = rx_queue
      <4>1. s[1] # s[2]
        BY <1>1, Positions
      <4> QED BY <2>2, <3>1, <3>2, <4>1, <1>1, <1>2, <1>5, Positions
    <3>3. CASE i # rx_queue
      <4>1. i + 1 \in Ctx /\ t[i] = s[i + 1] /\ i + 1 # 1 /\ i + 1 # 2 /\ (i + 1) - 1 = i
        BY <2>2, <3>3, <1>2, Positions
      <4>2. s[i + 1] # s[1] /\ s[i + 1] # s[2]
        BY <4>1, <1>1, Positions
      <4>3. prev[s[i + 1]] = s[i]
        BY <4>1 DEF Linked
      <4> QED BY <2>2, <3>1, <4>1, <4>2, <4>3, <1>1, <1>5
    <3> QED BY <3>2, <3>3
  <2> QED BY <2>1, <2>2
<1>8. egress_ctx_head' = t[1] /\ egress_ctx_tail' = t[rx_queue]
  BY <1>2, <1>4, ListAssumption, Positions
<1>9. LinkTypes'
  BY <1>1, <1>4, Positions DEF LinkTypes
<1> QED BY <1>6, <1>7, <1>8, <1>9 DEF Linked, t

LEMMA MarkFreeTailLinks ==
    ASSUME LinkTypes, NEW s, Ring!IsList(s), Linked(s), MarkFreeTail(s[rx_queue])
    PROVE  LinkTypes' /\ Linked(Ring!MarkFree(s, s[rx_queue]))'
<1> DEFINE n == rx_queue
           t == Ring!MarkFree(s, s[n])
<1>1. /\ s \in [Ctx -> Ctx]
      /\ \A i, j \in Ctx : s[i] = s[j] => i = j
      /\ \A i \in Ctx : s[i] # NULL
      /\ 1 # n /\ n \in Ctx /\ n - 1 \in Ctx /\ 1 \in Ctx
  BY IsListMeans, Positions, ListAssumption
<1>2. t[1] = s[n] /\ \A i \in Ctx : i # 1 => t[i] = s[i - 1]
  <2>1. t = [i \in Ctx |-> IF i = 1 THEN s[n] ELSE IF i <= n THEN s[i - 1] ELSE s[i]]
    BY <1>1, FreeMoved
  <2> QED BY <2>1, Positions
<1> HIDE DEF t
<1>3. /\ next' = [next EXCEPT ![s[n - 1]] = NULL, ![s[n]] = s[1]]
      /\ prev' = [prev EXCEPT ![s[n]] = NULL, ![s[1]] = s[n]]
      /\ egress_ctx_head' = s[n] /\ egress_ctx_tail' = s[n - 1]
  <2>1. prev[s[n]] = s[n - 1]
    BY <1>1 DEF Linked
  <2> QED BY <2>1 DEF MarkFreeTail, Linked
<1> HIDE DEF n
<1>4. /\ \A c \in Ctx : next'[c] = IF c = s[n] THEN s[1]
                                   ELSE IF c = s[n - 1] THEN NULL ELSE next[c]
      /\ \A c \in Ctx : prev'[c] = IF c = s[1] THEN s[n]
                                   ELSE IF c = s[n] THEN NULL ELSE prev[c]
  BY <1>1, <1>3 DEF LinkTypes
<1>5. ASSUME NEW i \in Ctx
      PROVE  next'[t[i]] = IF i = n THEN NULL ELSE t[i + 1]
  <2>1. CASE i = 1
    <3>1. 1 + 1 \in Ctx /\ 1 + 1 # 1 /\ (1 + 1) - 1 = 1
      BY Positions
    <3> QED BY <2>1, <3>1, <1>1, <1>2, <1>4
  <2>2. CASE i # 1
    <3>1. i - 1 \in Ctx /\ i - 1 # n /\ (i - 1) + 1 = i /\ t[i] = s[i - 1]
      BY <2>2, <1>2, Positions DEF n
    <3>2. s[i - 1] # s[n]
      BY <3>1, <1>1
    <3>3. CASE i = n
      BY <3>1, <3>2, <3>3, <1>1, <1>4
    <3>4. CASE i # n
      <4>1. i + 1 \in Ctx /\ i + 1 # 1 /\ (i + 1) - 1 = i /\ t[i + 1] = s[i]
        BY <3>4, <1>2, Positions DEF n
      <4>2. i - 1 # n - 1
        BY <3>4, <1>1, Positions
      <4>3. s[i - 1] # s[n - 1] /\ next[s[i - 1]] = s[i]
        BY <3>1, <4>2, <1>1 DEF Linked, n
      <4> QED BY <3>1, <3>2, <3>4, <4>1, <4>3, <1>1, <1>4
    <3> QED BY <3>3, <3>4
  <2> QED BY <2>1, <2>2
<1>6. ASSUME NEW i \in Ctx
      PROVE  prev'[t[i]] = IF i = 1 THEN NULL ELSE t[i - 1]
  <2>1. CASE i = 1
    <3>1. s[n] # s[1]
      BY <1>1
    <3> QED BY <2>1, <3>1, <1>1, <1>2, <1>4
  <2>2. CASE i # 1
    <3>1. i - 1 \in Ctx /\ i - 1 # n /\ t[i] = s[i - 1]
      BY <2>2, <1>2, Positions DEF n
    <3>2. s[i - 1] # s[n]
      BY <3>1, <1>1
    <3>3. CASE i - 1 = 1
      BY <2>2, <3>1, <3>3, <1>1, <1>2, <1>4
    <3>4. CASE i - 1 # 1
      <4>1. t[i - 1] = s[(i - 1) - 1] /\ prev[s[i - 1]] = s[(i - 1) - 1]
        BY <3>1, <3>4, <1>2 DEF Linked
      <4>2. s[i - 1] # s[1]
        BY <3>1, <3>4, <1>1
      <4> QED BY <2>2, <3>1, <3>2, <4>1, <4>2, <1>1, <1>4
    <3> QED BY <3>3, <3>4
  <2> QED BY <2>1, <2>2
<1>7. egress_ctx_head' = t[1] /\ egress_ctx_tail' = t[n]
  BY <1>1, <1>2, <1>3
<1>8. LinkTypes'
  BY <1>1, <1>3 DEF LinkTypes
<1> QED BY <1>5, <1>6, <1>7, <1>8 DEF Linked, t, n

LEMMA MarkFreeHeadLinks ==
    ASSUME LinkTypes, NEW s, Ring!IsList(s), Linked(s), MarkFreeHead(s[1])
    PROVE  LinkTypes' /\ Linked(Ring!MarkFree(s, s[1]))'
<1> DEFINE t == Ring!MarkFree(s, s[1])
<1>1. t = s
  <2>1. t = [i \in Ctx |-> IF i = 1 THEN s[1] ELSE IF i <= 1 THEN s[i - 1] ELSE s[i]]
    BY FreeMoved, Positions
  <2>2. \A i \in Ctx : i # 1 => ~(i <= 1)
    BY Positions
  <2>3. s = [i \in Ctx |-> s[i]]
    BY IsListMeans
  <2> QED BY <2>1, <2>2, <2>3
<1> HIDE DEF t
<1>2. UNCHANGED <<next, prev, egress_ctx_head, egress_ctx_tail>>
  BY DEF MarkFreeHead
<1>3. LinkTypes' /\ Linked(s)'
  BY <1>2 DEF LinkTypes, Linked
<1> QED BY <1>1, <1>3 DEF t

LEMMA MarkFreeMidLinks ==
    ASSUME LinkTypes, NEW s, Ring!IsList(s), Linked(s),
           NEW k \in Ctx, MarkFreeMid(s[k])
    PROVE  LinkTypes' /\ Linked(Ring!MarkFree(s, s[k]))'
<1> DEFINE n == rx_queue
           t == Ring!MarkFree(s, s[k])
<1>1. /\ s \in [Ctx -> Ctx]
      /\ \A i, j \in Ctx : s[i] = s[j] => i = j
      /\ \A i \in Ctx : s[i] # NULL
      /\ 1 # n /\ n \in Ctx /\ 1 \in Ctx
  BY IsListMeans, Positions, ListAssumption
<1>2. /\ t[1] = s[k]
      /\ \A i \in Ctx : i # 1 /\ i <= k => t[i] = s[i - 1]
      /\ \A i \in Ctx : i # 1 /\ ~(i <= k) => t[i] = s[i]
  <2>1. t = [i \in Ctx |-> IF i = 1 THEN s[k] ELSE IF i <= k THEN s[i - 1] ELSE s[i]]
    BY FreeMoved
  <2> HIDE DEF t
  <2> QED BY <2>1, <1>1
<1> HIDE DEF t
<1>3. k # 1 /\ k # n
  BY DEF MarkFreeMid, Linked
<1>4. /\ k - 1 \in Ctx /\ k + 1 \in Ctx
      /\ k - 1 # k /\ k + 1 # k /\ k + 1 # 1 /\ k - 1 # n /\ k - 1 # k + 1
      /\ (k - 1) + 1 = k /\ (k + 1) - 1 = k
  BY <1>3, Positions
<1>5. /\ next' = [next EXCEPT ![s[k - 1]] = s[k + 1], ![s[k]] = s[1]]
      /\ prev' = [prev EXCEPT ![s[k + 1]] = s[k - 1], ![s[1]] = s[k], ![s[k]] = NULL]
      /\ egress_ctx_head' = s[k] /\ egress_ctx_tail' = s[n]
  <2>1. prev[s[k]] = s[k - 1] /\ next[s[k]] = s[k + 1]
    BY <1>3 DEF Linked
  <2> QED BY <2>1 DEF MarkFreeMid, Linked
<1>6. /\ \A c \in Ctx : next'[c] = IF c = s[k] THEN s[1]
                                   ELSE IF c = s[k - 1] THEN s[k + 1] ELSE next[c]
      /\ \A c \in Ctx : prev'[c] = IF c = s[k] THEN NULL
                                   ELSE IF c = s[1] THEN s[k]
                                   ELSE IF c = s[k + 1] THEN s[k - 1] ELSE prev[c]
  <2> DEFINE a == s[k - 1]
             b == s[k]
             c == s[k + 1]
             h == s[1]
  <2>1. a \in Ctx /\ b \in Ctx /\ c \in Ctx /\ h \in Ctx
    BY <1>1, <1>4
  <2> HIDE DEF a, b, c, h
  <2>2. /\ next' = [next EXCEPT ![a] = c, ![b] = h]
        /\ prev' = [prev EXCEPT ![c] = a, ![h] = b, ![b] = NULL]
    BY <1>5 DEF a, b, c, h
  <2>3. /\ \A x \in Ctx : next'[x] = IF x = b THEN h ELSE IF x = a THEN c ELSE next[x]
        /\ \A x \in Ctx : prev'[x] = IF x = b THEN NULL ELSE IF x = h THEN b
                                     ELSE IF x = c THEN a ELSE prev[x]
    BY <2>1, <2>2 DEF LinkTypes
  <2> QED BY <2>3 DEF a, b, c, h
<1> HIDE DEF n
<1>7. ASSUME NEW i \in Ctx
      PROVE  next'[t[i]] = IF i = n THEN NULL ELSE t[i + 1]
  <2>1. CASE i = 1
    <3>1. 1 + 1 \in Ctx /\ 1 + 1 # 1 /\ (1 + 1) - 1 = 1 /\ 1 + 1 <= k
      BY <1>3, Positions
    <3>2. t[i + 1] = s[1] /\ t[i] = s[k]
      BY <2>1, <3>1, <1>2
    <3>3. next'[s[k]] = s[1]
      BY <1>1, <1>6
    <3> QED BY <2>1, <3>2, <3>3, <1>1
  <2>2. CASE i # 1 /\ i <= k
    <3>1. /\ i - 1 \in Ctx /\ i - 1 # k /\ i - 1 # n /\ (i - 1) + 1 = i
          /\ t[i] = s[i - 1] /\ i # n /\ i + 1 \in Ctx /\ i + 1 # 1 /\ (i + 1) - 1 = i
      BY <2>2, <1>2, <1>3, Positions DEF n
    <3>2. s[i - 1] # s[k] /\ next[s[i - 1]] = s[i]
      BY <3>1, <1>1 DEF Linked, n
    <3>3. CASE i = k
      <4>1. ~(i + 1 <= k)
        BY <3>3, Positions
      <4> QED BY <3>1, <3>2, <3>3, <4>1, <1>1, <1>2, <1>6
    <3>4. CASE i # k
      <4>1. i + 1 <= k /\ i - 1 # k - 1
        BY <2>2, <3>4, Positions
      <4>2. s[i - 1] # s[k - 1]
        BY <3>1, <4>1, <1>1, <1>4
      <4> QED BY <3>1, <3>2, <4>1, <4>2, <1>1, <1>2, <1>6
    <3> QED BY <3>3, <3>4
  <2>3. CASE ~(i <= k)
    <3>1. i # 1 /\ i # k /\ i # k - 1 /\ t[i] = s[i]
      BY <2>3, <1>2, Positions
    <3>2. s[i] # s[k] /\ s[i] # s[k - 1]
      BY <3>1, <1>1, <1>4
    <3>3. next'[t[i]] = IF i = n THEN NULL ELSE s[i + 1]
      BY <3>1, <3>2, <1>1, <1>6 DEF Linked, n
    <3>4. i # n => i + 1 \in Ctx /\ i + 1 # 1 /\ ~(i + 1 <= k)
      BY <2>3, Positions DEF n
    <3> QED BY <3>3, <3>4, <1>2
  <2> QED BY <2>1, <2>2, <2>3
<1>8. ASSUME NEW i \in Ctx
      PROVE  prev'[t[i]] = IF i = 1 THEN NULL ELSE t[i - 1]
  <2>1. CASE i = 1
    BY <2>1, <1>1, <1>2, <1>6
  <2>2. CASE i # 1 /\ i <= k
    <3>1. /\ i - 1 \in Ctx /\ i - 1 # k /\ i - 1 # k + 1 /\ i - 1 <= k
          /\ t[i] = s[i - 1]
      <4>1. i \in Nat /\ k \in Nat
        BY Positions
      <4> QED BY <4>1, <2>2, <1>2, Positions
    <3>2. s[i - 1] # s[k] /\ s[i - 1] # s[k + 1]
      BY <3>1, <1>1, <1>4
    <3>3. CASE i - 1 = 1
      BY <2>2, <3>1, <3>2, <3>3, <1>1, <1>2, <1>6
    <3>4. CASE i - 1 # 1
      <4>1. t[i - 1] = s[(i - 1) - 1] /\ prev[s[i - 1]] = s[(i - 1) - 1]
        BY <3>1, <3>4, <1>2 DEF Linked
      <4>2. s[i - 1] # s[1]
        BY <3>1, <3>4, <1>1
      <4> QED BY <2>2, <3>1, <3>2, <4>1, <4>2, <1>1, <1>6
    <3> QED BY <3>3, <3>4
  <2>3. CASE ~(i <= k)
    <3>1. i # 1 /\ i # k /\ t[i] = s[i] /\ i - 1 \in Ctx /\ i - 1 # 1
      BY <2>3, <1>2, <1>3, Positions
    <3>2. s[i] # s[k] /\ s[i] # s[1]
      BY <3>1, <1>1
    <3>3. CASE i = k + 1
      <4>1. i - 1 <= k /\ i - 1 = k
        BY <3>3, Positions
      <4>2. t[i - 1] = s[k - 1]
        BY <4>1, <1>2, <1>3
      <4>3. prev'[s[i]] = s[k - 1]
        BY <3>2, <3>3, <1>1, <1>4, <1>6
      <4> QED BY <3>1, <4>2, <4>3
    <3>4. CASE i # k + 1
      <4>1. ~(i - 1 <= k)
        BY <2>3, <3>4, Positions
      <4>2. prev[s[i]] = s[i - 1]
        BY <3>1 DEF Linked
      <4>3. s[i] # s[k + 1]
        BY <3>4, <1>1, <1>4
      <4>4. t[i - 1] = s[i - 1]
        BY <3>1, <4>1, <1>2
      <4> QED BY <3>1, <3>2, <4>2, <4>3, <4>4, <1>1, <1>6
    <3> QED BY <3>3, <3>4
  <2> QED BY <2>1, <2>2, <2>3
<1>9. egress_ctx_head' = t[1] /\ egress_ctx_tail' = t[n]
  <2>1. n # 1 /\ ~(n <= k)
    BY <1>1, <1>3, Positions DEF n
  <2> QED BY <2>1, <1>1, <1>2, <1>5
<1>10. LinkTypes'
  BY <1>1, <1>4, <1>5 DEF LinkTypes
<1> QED BY <1>7, <1>8, <1>9, <1>10 DEF Linked, t, n

-----------------------------------------------------------------------------
(* Steps and theorems.                                                      *)
LEMMA ListInitially ==
    ASSUME Init
    PROVE  ListInv /\ Ring!RingInit
<1> DEFINE s == [i \in Ctx |-> i]
<1>1. Ring!IsList(s)
  BY Positions DEF Ring!IsList
<1>2. Linked(s)
  <2>1. ASSUME NEW i \in Ctx
        PROVE  /\ next[i] = IF i = rx_queue THEN NULL ELSE i + 1
               /\ prev[i] = IF i = 1 THEN NULL ELSE i - 1
               /\ i # rx_queue => s[i + 1] = i + 1
               /\ i # 1 => s[i - 1] = i - 1
    BY Positions DEF Init, NULL
  <2> QED BY <2>1, Positions DEF Init, Linked
<1>3. next \in [Ctx -> Ctx \cup {NULL}] /\ prev \in [Ctx -> Ctx \cup {NULL}]
  <2>1. \A i \in Ctx : i < rx_queue => i + 1 \in Ctx
    BY Positions
  <2>2. \A i \in Ctx : i - 1 \in Ctx \cup {NULL}
    BY Positions DEF NULL
  <2> QED BY <2>1, <2>2 DEF Init
<1>4. FollowNext = s
  BY <1>1, <1>2, FollowIs DEF WalkIsOrder
<1> HIDE DEF s
<1>5. Ring!RingInit
  BY <1>4, Positions DEF Init, Ring!RingInit, s
<1> QED BY <1>1, <1>2, <1>3, <1>5 DEF ListInv, Init

LEMMA ListStep ==
    ASSUME ListInv, [Next]_vars
    PROVE  ListInv' /\ [Ring!RingNext]_(Ring!ringVars)
<1>1. PICK s : Ring!IsList(s) /\ Linked(s)
  BY DEF ListInv
<1>2. LinkTypes /\ mr_handle \subseteq Ctx
  BY DEF ListInv, LinkTypes
<1>3. FollowNext = s
  BY <1>1, FollowIs DEF WalkIsOrder
<1>4. \A t : Ring!IsList(t) /\ Linked(t)' => FollowNext' = t
  <2>1. WalkIsOrder'
    BY FollowIs, PTL
  <2> QED BY <2>1 DEF WalkIsOrder
<1>5. ASSUME NEW t, Ring!IsList(t), LinkTypes', Linked(t)', mr_handle' \subseteq Ctx
      PROVE  ListInv' /\ FollowNext' = t
  BY <1>4, <1>5 DEF ListInv, LinkTypes
<1>6. CASE PostContext
  <2>1. LinkTypes' /\ Linked(Ring!MarkBusy(s))'
    BY <1>1, <1>2, <1>6, MarkBusyLinks DEF PostContext
  <2>2. Ring!IsList(Ring!MarkBusy(s)) /\ mr_handle' \subseteq Ctx
    <3>1. s \in [Ctx -> Ctx] /\ 1 \in Ctx
      BY <1>1, IsListMeans, Positions
    <3>2. egress_ctx_head \in Ctx
      BY <3>1, <1>1 DEF Linked
    <3> QED BY <3>2, <1>1, <1>2, <1>6, BusyMoved DEF PostContext
  <2>3. ListInv' /\ FollowNext' = Ring!MarkBusy(FollowNext)
    BY <2>1, <2>2, <1>3, <1>5
  <2>4. Ring!egress_ctx_head = egress_ctx_head
    BY <1>1, <1>3 DEF Linked, Ring!egress_ctx_head
  <2>5. Ring!PostContext
    BY <1>6, <2>3, <2>4 DEF PostContext, Ring!PostContext, Ring!HasFreeContext
  <2> QED BY <2>3, <2>5 DEF Ring!RingNext
<1>7. ASSUME NEW ctx \in mr_handle, ReleaseContext(ctx)
      PROVE  ListInv' /\ [Ring!RingNext]_(Ring!ringVars)
  <2>1. PICK k \in Ctx : ctx = s[k]
    BY <1>1, <1>2, IsListMeans
  <2>2. LinkTypes' /\ Linked(Ring!MarkFree(s, ctx))'
    <3>1. CASE MarkFreeTail(ctx)
      <4>1. ctx = s[rx_queue]
        BY <3>1, <1>1 DEF MarkFreeTail, Linked
      <4> QED BY <3>1, <4>1, <1>1, <1>2, MarkFreeTailLinks
    <3>2. CASE MarkFreeHead(ctx)
      <4>1. ctx = s[1]
        BY <3>2, <1>1 DEF MarkFreeHead, Linked
      <4> QED BY <3>2, <4>1, <1>1, <1>2, MarkFreeHeadLinks
    <3>3. CASE MarkFreeMid(ctx)
      BY <3>3, <2>1, <1>1, <1>2, MarkFreeMidLinks
    <3> QED BY <1>7, <3>1, <3>2, <3>3 DEF ReleaseContext
  <2>3. Ring!IsList(Ring!MarkFree(s, ctx)) /\ mr_handle' \subseteq Ctx
    BY <1>1, <1>2, <1>7, <2>1, FreeMoved DEF ReleaseContext
  <2>4. ListInv' /\ FollowNext' = Ring!MarkFree(FollowNext, ctx)
    BY <2>2, <2>3, <1>3, <1>5
  <2>5. Ring!ReleaseContext(ctx)
    BY <1>7, <2>4 DEF ReleaseContext, Ring!ReleaseContext
  <2> QED BY <2>4, <2>5 DEF Ring!RingNext
<1>8. CASE FlushContexts
  <2>1. LinkTypes' /\ Linked(s)' /\ mr_handle' \subseteq Ctx
    BY <1>1, <1>2, <1>8 DEF FlushContexts, LinkTypes, Linked
  <2>2. ListInv' /\ FollowNext' = FollowNext
    BY <2>1, <1>1, <1>3, <1>5
  <2>3. mr_handle' = mr_handle \ Ring!FlushedBy(FollowNext, mr_handle)
    BY <1>8, Positions DEF FlushContexts, Ring!FlushedBy
  <2>4. Ring!FlushContexts
    BY <2>2, <2>3 DEF Ring!FlushContexts
  <2> QED BY <2>2, <2>4 DEF Ring!RingNext
<1>9. CASE UNCHANGED vars
  <2>1. LinkTypes' /\ Linked(s)' /\ mr_handle' = mr_handle
    BY <1>1, <1>2, <1>9 DEF vars, LinkTypes, Linked
  <2>2. ListInv' /\ FollowNext' = FollowNext
    BY <2>1, <1>1, <1>2, <1>3, <1>5
  <2> QED BY <2>1, <2>2 DEF Ring!ringVars
<1> QED BY <1>6, <1>7, <1>8, <1>9 DEF Next

LEMMA ListAlways == Spec => []ListInv
BY ListInitially, ListStep, PTL DEF Spec

LEMMA ListInvLinks == ListInv => LinksAgree
<1> SUFFICES ASSUME ListInv PROVE LinksAgree
  OBVIOUS
<1>1. PICK s : Ring!IsList(s) /\ Linked(s)
  BY DEF ListInv
<1>2. /\ s \in [Ctx -> Ctx] /\ \A c \in Ctx : \E i \in Ctx : s[i] = c
      /\ \A i \in Ctx : s[i] # NULL
  BY <1>1, IsListMeans, Positions
<1>3. /\ {egress_ctx_head, egress_ctx_tail} \subseteq Ctx
      /\ prev[egress_ctx_head] = NULL /\ next[egress_ctx_tail] = NULL
  BY <1>1, <1>2, Positions DEF Linked
<1>4. ASSUME NEW c \in Ctx, next[c] # NULL PROVE prev[next[c]] = c
  <2>1. PICK i \in Ctx : s[i] = c
    BY <1>2
  <2>2. i # rx_queue /\ next[c] = s[i + 1]
    BY <1>1, <1>4, <2>1 DEF Linked
  <2>3. i + 1 \in Ctx /\ i + 1 # 1 /\ (i + 1) - 1 = i
    BY <2>2, Positions
  <2> QED BY <1>1, <2>1, <2>2, <2>3 DEF Linked
<1>5. ASSUME NEW c \in Ctx, prev[c] # NULL PROVE next[prev[c]] = c
  <2>1. PICK i \in Ctx : s[i] = c
    BY <1>2
  <2>2. i # 1 /\ prev[c] = s[i - 1]
    BY <1>1, <1>5, <2>1 DEF Linked
  <2>3. i - 1 \in Ctx /\ i - 1 # rx_queue /\ (i - 1) + 1 = i
    BY <2>2, Positions
  <2> QED BY <1>1, <2>1, <2>2, <2>3 DEF Linked
<1> QED BY <1>3, <1>4, <1>5 DEF LinksAgree

(* The links of both directions agree and the ends are the only NULLs, so   *)
(* no operation dereferences NULL (sofi.c:208-270), for every queue.        *)
THEOREM LinksAlwaysAgree == Spec => []LinksAgree
BY ListAlways, ListInvLinks, PTL

(* For every number of contexts the pointers are the sequence Egress works  *)
(* on: no context is lost from the list or linked twice, and each branch of *)
(* nn_sofi_egress_mark_free does what EgressRing says in one line.          *)
THEOREM PointersImplementRing == Spec => ImplementsRing
BY ListAlways, ListInitially, ListStep, PTL DEF Spec, ImplementsRing, Ring!RingSpec
=============================================================================
