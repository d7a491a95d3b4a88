--------------------------- MODULE IngressProofs ----------------------------
(***************************************************************************)
(* Safety of the receiving half for every queue of two buffers or more,    *)
(* any number of messages and every result ofi_recvmsg may return.         *)
(***************************************************************************)
EXTENDS Ingress, SequenceTheorems, TLAPS

-----------------------------------------------------------------------------
(* The populated list as a sequence without repetition: what appending a    *)
(* buffer and taking the head do to the set of its buffers.                 *)
Distinct(q) == \A i, j \in DOMAIN q : q[i] = q[j] => i = j
Elements(q) == {q[i] : i \in DOMAIN q}

LEMMA AppendElements ==
    ASSUME NEW q \in Seq(Buf), NEW b \in Buf, b \notin Elements(q), Distinct(q)
    PROVE  /\ Append(q, b) \in Seq(Buf)
           /\ Elements(Append(q, b)) = Elements(q) \cup {b}
           /\ Distinct(Append(q, b))
           /\ Append(q, b) # <<>>
           /\ Len(Append(q, b)) = Len(q) + 1
<1> DEFINE r == Append(q, b)
<1>1. /\ r \in Seq(Buf) /\ Len(r) = Len(q) + 1
      /\ DOMAIN r = 1 .. Len(q) + 1 /\ DOMAIN q = 1 .. Len(q)
      /\ r[Len(q) + 1] = b
      /\ \A i \in 1 .. Len(q) : r[i] = q[i]
      /\ Len(q) \in Nat
  OBVIOUS
<1> HIDE DEF r
<1>2. \A i \in DOMAIN r : i \in DOMAIN q \/ i = Len(q) + 1
  BY <1>1
<1>3. \A i \in DOMAIN q : i \in DOMAIN r /\ r[i] = q[i]
  BY <1>1
<1>4. Len(q) + 1 \in DOMAIN r
  BY <1>1
<1>5. Elements(r) = Elements(q) \cup {b}
  BY <1>1, <1>2, <1>3, <1>4 DEF Elements
<1>6. Distinct(r)
  BY <1>1, <1>2, <1>3 DEF Distinct, Elements
<1>7. r # <<>>
  BY <1>1, <1>4
<1> QED BY <1>1, <1>5, <1>6, <1>7 DEF r

LEMMA TailElements ==
    ASSUME NEW q \in Seq(Buf), q # <<>>, Distinct(q)
    PROVE  /\ Head(q) \in Buf /\ Head(q) \in Elements(q)
           /\ Tail(q) \in Seq(Buf)
           /\ Elements(Tail(q)) = Elements(q) \ {Head(q)}
           /\ Distinct(Tail(q))
           /\ Len(Tail(q)) = Len(q) - 1
           /\ Len(q) >= 2 => Tail(q) # <<>>
<1> DEFINE r == Tail(q)
<1>1. /\ Len(q) \in Nat /\ Len(q) >= 1
      /\ DOMAIN q = 1 .. Len(q)
      /\ Head(q) = q[1] /\ q[1] \in Buf
      /\ r \in Seq(Buf) /\ Len(r) = Len(q) - 1
      /\ DOMAIN r = 1 .. Len(q) - 1
      /\ \A i \in 1 .. Len(q) - 1 : r[i] = q[i + 1]
  OBVIOUS
<1> HIDE DEF r
<1>2. 1 \in DOMAIN q
  BY <1>1
<1>3. \A i \in DOMAIN r : i + 1 \in DOMAIN q /\ i + 1 # 1 /\ r[i] = q[i + 1]
  BY <1>1
<1>4. \A i \in DOMAIN q : i # 1 => i - 1 \in DOMAIN r /\ r[i - 1] = q[i]
  BY <1>1
<1>5. Elements(r) = Elements(q) \ {Head(q)}
  <2>1. \A x \in Elements(r) : x \in Elements(q) /\ x # Head(q)
    BY <1>1, <1>2, <1>3 DEF Elements, Distinct
  <2>2. \A x \in Elements(q) : x # Head(q) => x \in Elements(r)
    BY <1>1, <1>4 DEF Elements
  <2> QED BY <2>1, <2>2
<1>6. Distinct(r)
  <2> SUFFICES ASSUME NEW i \in DOMAIN r, NEW j \in DOMAIN r, r[i] = r[j]
               PROVE  i = j
    BY DEF Distinct
  <2>1. i + 1 = j + 1
    BY <1>3 DEF Distinct
  <2> QED BY <2>1, <1>1
<1>7. Len(q) >= 2 => r # <<>>
  BY <1>1
<1> QED BY <1>1, <1>2, <1>5, <1>6, <1>7 DEF r, Elements

-----------------------------------------------------------------------------
(* What holds between any two calls of a handler: every buffer is on one    *)
(* list, and libfabric has none that holds a message.                       *)
ListsType == [free : SUBSET Buf, busy : SUBSET Buf, posted : SUBSET Buf]

Sorted(l, q) ==
    /\ l \in ListsType
    /\ q \in Seq(Buf)
    /\ Distinct(q)
    /\ l.free \cap Elements(q) = {}
    /\ l.busy \cap (l.free \cup Elements(q)) = {}
    /\ l.free \cup l.busy \cup Elements(q) = Buf
    /\ l.posted \cap Elements(q) = {}

LEMMA SetListsIs ==
    ASSUME NEW l \in ListsType, SetLists(l)
    PROVE  Lists' = l
BY DEF SetLists, Lists, ListsType

LEMMA EmptySorted ==
    /\ <<>> \in Seq(Buf)
    /\ Elements(<<>>) = {}
    /\ Distinct(<<>>)
BY DEF Elements, Distinct

(* nn_sofi_ingress_post moves at most one free buffer to libfabric.         *)
LEMMA PostedSorted ==
    ASSUME NEW l, NEW q, Sorted(l, q), NEW rc
    PROVE  /\ Sorted(Posted(l, rc), q)
           /\ l.busy = {} => \A x, y \in Posted(l, rc).busy : x = y
           /\ l.posted = l.busy => Posted(l, rc).posted = Posted(l, rc).busy
           /\ PostReturn(l, rc) = "EAGAIN" => Posted(l, rc) = l
<1> DEFINE b == CHOOSE c \in l.free : TRUE
           r == [l EXCEPT !.free = @ \ {b}, !.busy = @ \cup {b}, !.posted = @ \cup {b}]
<1>1. CASE l.free = {} \/ rc # "OK"
  <2>1. Posted(l, rc) = l
    BY <1>1 DEF Posted
  <2> QED BY <2>1
<1>2. CASE l.free # {} /\ rc = "OK"
  <2>1. b \in l.free
    BY <1>2
  <2>2. Posted(l, rc) = r
    BY <1>2 DEF Posted
  <2> HIDE DEF b
  <2>3. /\ r \in ListsType
        /\ r.free = l.free \ {b}
        /\ r.busy = l.busy \cup {b}
        /\ r.posted = l.posted \cup {b}
    BY <2>1 DEF Sorted, ListsType
  <2> HIDE DEF r
  <2>4. Sorted(r, q)
    BY <2>1, <2>3 DEF Sorted
  <2>5. l.busy = {} => \A x, y \in r.busy : x = y
    BY <2>3
  <2>6. l.posted = l.busy => r.posted = r.busy
    BY <2>3
  <2>7. PostReturn(l, rc) # "EAGAIN"
    BY <1>2 DEF PostReturn
  <2> QED BY <2>2, <2>4, <2>5, <2>6, <2>7
<1> QED BY <1>1, <1>2

LEMMA FreedSorted ==
    ASSUME NEW l, NEW q, Sorted(l, q), NEW b \in Buf
    PROVE  /\ Taken(l, b) \in ListsType
           /\ Taken(l, b).free = l.free
           /\ Taken(l, b).busy = l.busy
           /\ Taken(l, b).posted = l.posted \ {b}
           /\ MarkFree(l, b) \in ListsType
           /\ MarkFree(l, b).free = l.free \cup {b}
           /\ MarkFree(l, b).busy = l.busy \ {b}
           /\ MarkFree(l, b).posted = l.posted
           /\ MarkPopulated(l, b) \in ListsType
           /\ MarkPopulated(l, b).free = l.free
           /\ MarkPopulated(l, b).busy = l.busy \ {b}
           /\ MarkPopulated(l, b).posted = l.posted
           /\ Sorted(Taken(l, b), q)
BY DEF Sorted, ListsType, Taken, MarkFree, MarkPopulated

(* nn_sofi_ingress_flush empties the busy list, and the populated list too  *)
(* unless nanomsg was told of a message.                                    *)
LEMMA FlushSorted ==
    ASSUME NEW l, NEW q, Sorted(l, q), NEW flags, Flush(l, q, flags)
    PROVE  /\ Sorted(Lists', ingress_buf_pop')
           /\ ingress_buf_busy' = {}
           /\ rx_posted' = l.posted
           /\ "NNBUSY" \in flags =>
                 ingress_buf_pop' = q /\ ingress_flags' = flags \cup {"FLUSH"}
           /\ "NNBUSY" \notin flags =>
                 ingress_buf_pop' = <<>> /\ ingress_flags' = flags \ {"POSTLATER", "NNLATER"}
<1> DEFINE unposted == [l EXCEPT !.free = @ \cup l.busy, !.busy = {}]
           emptied  == [unposted EXCEPT !.free = @ \cup Elements(q)]
<1>1. /\ unposted \in ListsType
      /\ unposted.free = l.free \cup l.busy /\ unposted.busy = {}
      /\ unposted.posted = l.posted
  BY DEF Sorted, ListsType
<1>2. Elements(q) \subseteq Buf
  BY DEF Sorted, Elements
<1>3. /\ emptied \in ListsType
      /\ emptied.free = l.free \cup l.busy \cup Elements(q) /\ emptied.busy = {}
      /\ emptied.posted = l.posted
  <2> HIDE DEF unposted
  <2> QED BY <1>1, <1>2 DEF ListsType
<1>4. CASE "NNBUSY" \in flags
  <2>1. SetLists(unposted) /\ ingress_buf_pop' = q /\ ingress_flags' = flags \cup {"FLUSH"}
    BY <1>4 DEF Flush
  <2> HIDE DEF unposted, emptied
  <2>2. Lists' = unposted
    BY <1>1, <2>1, SetListsIs
  <2>3. Sorted(unposted, q)
    BY <1>1 DEF Sorted
  <2>4. ingress_buf_busy' = {} /\ rx_posted' = l.posted
    BY <1>1, <2>1 DEF SetLists
  <2> QED BY <1>4, <2>1, <2>2, <2>3, <2>4
<1>5. CASE "NNBUSY" \notin flags
  <2>1. /\ SetLists(emptied) /\ ingress_buf_pop' = <<>>
        /\ ingress_flags' = flags \ {"POSTLATER", "NNLATER"}
    BY <1>5 DEF Flush, Elements
  <2> HIDE DEF unposted, emptied
  <2>2. Lists' = emptied
    BY <1>3, <2>1, SetListsIs
  <2>3. Sorted(emptied, <<>>)
    BY <1>3, EmptySorted DEF Sorted
  <2>4. ingress_buf_busy' = {} /\ rx_posted' = l.posted
    BY <1>3, <2>1 DEF SetLists
  <2> QED BY <1>5, <2>1, <2>2, <2>3, <2>4
<1> QED BY <1>4, <1>5

-----------------------------------------------------------------------------
(* The inductive invariant.  The checked invariants are not inductive by    *)
(* themselves: what a flush may forget depends on which flags each state of *)
(* the FSM admits.                                                          *)
IdleBeforeConnected ==
    state = "CONNECTING" =>
        /\ ingress_buf_pop = <<>> /\ ingress_buf_busy = {} /\ rx_posted = {}
        /\ ingress_flags = {} /\ pipe_in = "DEACTIVATED"

(* At most one receive is posted: each post answers one completion.         *)
OneReceive ==
    state = "ACTIVE" =>
        /\ rx_posted = ingress_buf_busy
        /\ \A b, c \in ingress_buf_busy : b = c
        /\ "POSTLATER" \in ingress_flags => ingress_buf_busy = {}
        /\ "FLUSH" \notin ingress_flags

FlushedOrDelayed ==
    state = "CLOSING" =>
        /\ ingress_buf_busy = {}
        /\ "NNBUSY" \in ingress_flags => "FLUSH" \in ingress_flags
        /\ "NNBUSY" \notin ingress_flags => ingress_buf_pop = <<>>

IngressInv ==
    /\ TypeOK
    /\ Sorted(Lists, ingress_buf_pop)
    /\ AnnouncedMessageExists
    /\ IdleBeforeConnected
    /\ OneReceive
    /\ FlushedOrDelayed

LEMMA IngressInvImplies ==
    IngressInv => /\ TypeOK /\ AnnouncedMessageExists /\ EachBufferOnce
                  /\ QueuedMessagesSafe /\ DelayedFlushDone
<1> SUFFICES ASSUME IngressInv
             PROVE  /\ TypeOK /\ AnnouncedMessageExists /\ EachBufferOnce
                    /\ QueuedMessagesSafe /\ DelayedFlushDone
  OBVIOUS
<1>1. TypeOK /\ AnnouncedMessageExists
  BY DEF IngressInv
<1>2. EachBufferOnce
  BY DEF IngressInv, Sorted, Lists, Elements, Distinct, Populated, OneReceive,
         EachBufferOnce
<1>3. QueuedMessagesSafe
  BY DEF IngressInv, Sorted, Lists, Elements, Populated, QueuedMessagesSafe
<1>4. DelayedFlushDone
  BY DEF IngressInv, FlushedOrDelayed, AnnouncedMessageExists, DelayedFlushDone,
         ingress_empty
<1> QED BY <1>1, <1>2, <1>3, <1>4

(* What the endpoint knows of this half: what is announced is there, nothing*)
(* happens before the connection, and closing has emptied the busy list.    *)
LEMMA IngressInvFacts ==
    IngressInv => /\ pipe_in = "IDLE" => ingress_buf_pop # <<>>
                  /\ state = "CONNECTING" => ingress_empty /\ ingress_flags = {}
                  /\ state = "CLOSING" => ingress_buf_busy = {}
BY DEF IngressInv, AnnouncedMessageExists, IdleBeforeConnected, FlushedOrDelayed,
       ingress_empty

LEMMA InitIngressInv == Init => IngressInv
<1> SUFFICES ASSUME Init PROVE IngressInv
  OBVIOUS
<1>1. TypeOK
  <2>1. chunk \in [Buf -> Nat]
    BY DEF Init, IngressInit
  <2>2. arrived \in 0 .. MaxMessages /\ delivered \in Nat
    BY IngressBounds DEF Init, IngressInit
  <2> QED BY <2>1, <2>2, EmptySorted DEF Init, IngressInit, TypeOK
<1>2. Sorted(Lists, ingress_buf_pop)
  BY EmptySorted DEF Init, IngressInit, Sorted, Lists, ListsType
<1>3. AnnouncedMessageExists /\ IdleBeforeConnected /\ OneReceive /\ FlushedOrDelayed
  BY DEF Init, IngressInit, AnnouncedMessageExists, IdleBeforeConnected, OneReceive,
         FlushedOrDelayed
<1> QED BY <1>1, <1>2, <1>3 DEF IngressInv

(* Types of the lists follow from Sorted.                                   *)
LEMMA SortedTypes ==
    ASSUME Sorted(Lists, ingress_buf_pop)'
    PROVE  /\ ingress_buf_free' \subseteq Buf
           /\ ingress_buf_busy' \subseteq Buf
           /\ rx_posted' \subseteq Buf
           /\ ingress_buf_pop' \in Seq(Buf)
BY DEF Sorted, Lists, ListsType

-----------------------------------------------------------------------------
(* One lemma per action.                                                    *)
LEMMA ConnectedStep ==
    ASSUME IngressInv, NEW rc \in PostResults, Connected(rc)
    PROVE  IngressInv'
<1> USE DEF IngressInv
<1>1. /\ ingress_buf_pop = <<>> /\ Lists.busy = {} /\ Lists.posted = {}
      /\ ingress_flags = {}
  BY DEF IdleBeforeConnected, Connected, Lists
<1>2. CASE rc = "OK"
  <2> DEFINE l == Posted(Lists, rc)
  <2>1. /\ Sorted(l, ingress_buf_pop)
        /\ \A x, y \in l.busy : x = y
        /\ l.posted = l.busy
    BY <1>1, PostedSorted
  <2>2. /\ SetLists(l) /\ UNCHANGED <<ingress_buf_pop, ingress_flags, error>>
        /\ state' = "ACTIVE" /\ pipe_in' = "ASYNC"
    BY <1>2 DEF Connected
  <2> HIDE DEF l
  <2>3. Sorted(Lists, ingress_buf_pop)'
    BY <2>1, <2>2, SetListsIs DEF Sorted
  <2>4. TypeOK'
    BY <2>2, <2>3, SortedTypes DEF TypeOK, Connected
  <2>5. AnnouncedMessageExists' /\ IdleBeforeConnected' /\ FlushedOrDelayed'
    BY <1>1, <2>2 DEF AnnouncedMessageExists, IdleBeforeConnected, FlushedOrDelayed
  <2>6. OneReceive'
    BY <1>1, <2>1, <2>2 DEF OneReceive, SetLists
  <2> QED BY <2>3, <2>4, <2>5, <2>6
<1>3. CASE rc # "OK"
  <2>1. /\ Flush(Lists, ingress_buf_pop, ingress_flags) /\ state' = "CLOSING"
        /\ error' = TRUE /\ pipe_in' = "ASYNC"
    BY <1>3 DEF Connected, StopFlush
  <2>2. /\ Sorted(Lists, ingress_buf_pop)' /\ ingress_buf_busy' = {}
        /\ ingress_buf_pop' = <<>> /\ ingress_flags' = {}
    BY <1>1, <2>1, FlushSorted
  <2>3. TypeOK'
    BY <2>1, <2>2, SortedTypes DEF TypeOK, Connected
  <2>4. AnnouncedMessageExists' /\ IdleBeforeConnected' /\ OneReceive' /\ FlushedOrDelayed'
    BY <2>1, <2>2 DEF AnnouncedMessageExists, IdleBeforeConnected, OneReceive,
                     FlushedOrDelayed
  <2> QED BY <2>2, <2>3, <2>4
<1> QED BY <1>2, <1>3

(* The buffer completed is in no other place: it was busy, as only busy     *)
(* buffers are posted while the endpoint is active.                         *)
LEMMA CompletedBuffer ==
    ASSUME IngressInv, state = "ACTIVE", NEW b \in rx_posted
    PROVE  /\ b \in Buf /\ b \in ingress_buf_busy
           /\ b \notin Elements(ingress_buf_pop)
           /\ \A c \in ingress_buf_busy : c = b
           /\ "POSTLATER" \notin ingress_flags
           /\ Sorted(MarkFree(Taken(Lists, b), b), ingress_buf_pop)
           /\ MarkFree(Taken(Lists, b), b).busy = {}
           /\ MarkFree(Taken(Lists, b), b).posted = {}
           /\ Sorted(MarkPopulated(Taken(Lists, b), b), Append(ingress_buf_pop, b))
           /\ MarkPopulated(Taken(Lists, b), b).busy = {}
           /\ MarkPopulated(Taken(Lists, b), b).posted = {}
<1>1. Sorted(Lists, ingress_buf_pop) /\ b \in Buf /\ b \in ingress_buf_busy
  BY DEF IngressInv, TypeOK, OneReceive
<1>2. /\ Lists.free = ingress_buf_free /\ Lists.busy = ingress_buf_busy
      /\ Lists.posted = rx_posted
  BY DEF Lists
<1>3. /\ \A c \in ingress_buf_busy : c = b
      /\ rx_posted = ingress_buf_busy
      /\ "POSTLATER" \notin ingress_flags
  BY <1>1 DEF IngressInv, OneReceive
<1>4. b \notin Elements(ingress_buf_pop)
  BY <1>1, <1>2 DEF Sorted
<1> DEFINE t == Taken(Lists, b)
           f == MarkFree(t, b)
           p == MarkPopulated(t, b)
           q == Append(ingress_buf_pop, b)
<1>5. /\ Sorted(t, ingress_buf_pop) /\ t.free = ingress_buf_free
      /\ t.busy = ingress_buf_busy /\ t.posted = {}
  BY <1>1, <1>2, <1>3, FreedSorted
<1> HIDE DEF t
<1>6. /\ f \in ListsType /\ f.free = ingress_buf_free \cup {b}
      /\ f.busy = {} /\ f.posted = {}
      /\ p \in ListsType /\ p.free = ingress_buf_free
      /\ p.busy = {} /\ p.posted = {}
  <2>1. /\ f \in ListsType /\ f.free = t.free \cup {b}
        /\ f.busy = t.busy \ {b} /\ f.posted = t.posted
        /\ p \in ListsType /\ p.free = t.free
        /\ p.busy = t.busy \ {b} /\ p.posted = t.posted
    BY <1>1, <1>5, FreedSorted
  <2> HIDE DEF f, p
  <2> QED BY <2>1, <1>3, <1>5
<1>7. /\ q \in Seq(Buf) /\ Elements(q) = Elements(ingress_buf_pop) \cup {b}
      /\ Distinct(q)
  BY <1>1, <1>4, AppendElements DEF Sorted
<1> HIDE DEF f, p, q
<1>8. Sorted(f, ingress_buf_pop)
  BY <1>1, <1>2, <1>3, <1>4, <1>6 DEF Sorted
<1>9. Sorted(p, q)
  BY <1>1, <1>2, <1>3, <1>4, <1>6, <1>7 DEF Sorted
<1> QED BY <1>1, <1>3, <1>4, <1>6, <1>8, <1>9 DEF t, f, p, q

LEMMA NonEmpty ==
    ASSUME NEW q \in Seq(Buf)
    PROVE  q # <<>> <=> Len(q) >= 1
OBVIOUS

LEMMA RxMessageStep ==
    ASSUME IngressInv, NEW b \in Buf, NEW rc \in PostResults, RxMessage(b, rc)
    PROVE  IngressInv'
<1> DEFINE p == MarkPopulated(Taken(Lists, b), b)
           q == Append(ingress_buf_pop, b)
           l == Posted(p, rc)
<1>1. /\ state = "ACTIVE" /\ state' = "ACTIVE" /\ b \in rx_posted
      /\ ingress_buf_pop' = q
      /\ ingress_flags' = PostLater(Notify(ingress_flags), p, rc)
      /\ pipe_in' = "IDLE" /\ SetLists(l)
  BY DEF RxMessage, sharedVars
<1>2. /\ Sorted(p, q) /\ p.busy = {} /\ p.posted = {}
      /\ b \notin Elements(ingress_buf_pop)
      /\ "POSTLATER" \notin ingress_flags
  BY <1>1, CompletedBuffer
<1>3. /\ ingress_buf_pop \in Seq(Buf) /\ Distinct(ingress_buf_pop)
      /\ ingress_flags \subseteq Flag
  BY DEF IngressInv, Sorted, TypeOK
<1>4. q # <<>> /\ Len(q) = Len(ingress_buf_pop) + 1
  BY <1>2, <1>3, AppendElements
<1> HIDE DEF p, q
<1>5. /\ Sorted(l, q) /\ l.posted = l.busy
      /\ \A x, y \in l.busy : x = y
      /\ PostReturn(p, rc) = "EAGAIN" => l.busy = {}
  BY <1>2, PostedSorted
<1> HIDE DEF l
<1>6. Sorted(Lists, ingress_buf_pop)'
  BY <1>1, <1>5, SetListsIs DEF Sorted
<1>7. TypeOK'
  <2>1. ingress_flags' \subseteq Flag
    BY <1>1, <1>3 DEF PostLater, Notify, Flag
  <2>2. arrived' \in 0 .. MaxMessages
    BY IngressBounds DEF RxMessage, IngressInv, TypeOK
  <2>3. chunk' \in [Buf -> Nat]
    BY DEF RxMessage, IngressInv, TypeOK
  <2> QED BY <1>1, <1>6, <2>1, <2>2, <2>3, SortedTypes
          DEF TypeOK, IngressInv, RxMessage, sharedVars
<1>8. AnnouncedMessageExists'
  <2>1. "NNBUSY" \in ingress_flags'
    BY <1>1 DEF PostLater, Notify
  <2>2. "NNLATER" \in ingress_flags' => ingress_buf_pop # <<>>
    BY <1>1, <1>3, NonEmpty DEF PostLater, Notify, IngressInv, AnnouncedMessageExists
  <2>3. "NNLATER" \in ingress_flags' => Len(q) >= 2
    BY <2>2, <1>3, <1>4, NonEmpty
  <2> QED BY <1>1, <1>4, <2>1, <2>3 DEF AnnouncedMessageExists
<1>9. OneReceive'
  <2>1. "POSTLATER" \in ingress_flags' => PostReturn(p, rc) = "EAGAIN"
    BY <1>1, <1>2 DEF PostLater, Notify
  <2>2. "FLUSH" \notin ingress_flags'
    BY <1>1 DEF PostLater, Notify, IngressInv, OneReceive
  <2> QED BY <1>1, <1>5, <2>1, <2>2 DEF OneReceive, SetLists
<1>10. IdleBeforeConnected' /\ FlushedOrDelayed'
  BY <1>1 DEF IdleBeforeConnected, FlushedOrDelayed
<1> QED BY <1>6, <1>7, <1>8, <1>9, <1>10 DEF IngressInv

LEMMA RxKeepaliveStep ==
    ASSUME IngressInv, NEW b \in Buf, NEW rc \in PostResults, RxKeepalive(b, rc)
    PROVE  IngressInv'
<1> DEFINE f == MarkFree(Taken(Lists, b), b)
           l == Posted(f, rc)
<1>1. state = "ACTIVE" /\ b \in rx_posted
  BY DEF RxKeepalive
<1>2. /\ Sorted(f, ingress_buf_pop) /\ f.busy = {} /\ f.posted = {}
      /\ "POSTLATER" \notin ingress_flags
  BY <1>1, CompletedBuffer
<1>3. /\ ingress_flags' = PostLater(ingress_flags \ {"POSTLATER"}, f, rc)
      /\ SetLists(l) /\ state' = "ACTIVE"
      /\ UNCHANGED <<ingress_buf_pop, pipe_in>>
  BY <1>1, <1>2 DEF RxKeepalive, sharedVars
<1> HIDE DEF f
<1>4. /\ Sorted(l, ingress_buf_pop) /\ l.posted = l.busy
      /\ \A x, y \in l.busy : x = y
      /\ PostReturn(f, rc) = "EAGAIN" => l.busy = {}
  BY <1>2, PostedSorted
<1> HIDE DEF l
<1>5. Sorted(Lists, ingress_buf_pop)'
  BY <1>3, <1>4, SetListsIs DEF Sorted
<1>6. /\ ingress_flags' \subseteq Flag
      /\ "NNBUSY" \in ingress_flags' <=> "NNBUSY" \in ingress_flags
      /\ "NNLATER" \in ingress_flags' <=> "NNLATER" \in ingress_flags
      /\ "FLUSH" \notin ingress_flags'
      /\ "POSTLATER" \in ingress_flags' => PostReturn(f, rc) = "EAGAIN"
  BY <1>1, <1>3 DEF PostLater, Flag, IngressInv, TypeOK, OneReceive
<1>7. TypeOK'
  BY <1>3, <1>5, <1>6, SortedTypes DEF TypeOK, IngressInv, RxKeepalive, sharedVars
<1>8. AnnouncedMessageExists'
  BY <1>3, <1>6 DEF IngressInv, AnnouncedMessageExists
<1>9. OneReceive'
  BY <1>3, <1>4, <1>6 DEF OneReceive, SetLists
<1>10. IdleBeforeConnected' /\ FlushedOrDelayed'
  BY <1>3 DEF IdleBeforeConnected, FlushedOrDelayed
<1> QED BY <1>5, <1>7, <1>8, <1>9, <1>10 DEF IngressInv

(* A flush in the STOP action: whatever the lists were, the endpoint is     *)
(* closing with a free or a delayed queue.                                  *)
LEMMA StopFlushStep ==
    ASSUME IngressInv, NEW l, Sorted(l, ingress_buf_pop),
           StopFlush(l, ingress_buf_pop, ingress_flags),
           error' \in BOOLEAN, UNCHANGED <<pipe_in, chunk, arrived, delivered, app_held>>
    PROVE  IngressInv'
<1>1. Flush(l, ingress_buf_pop, ingress_flags) /\ state' = "CLOSING"
  BY DEF StopFlush
<1>2. /\ Sorted(Lists, ingress_buf_pop)' /\ ingress_buf_busy' = {}
      /\ "NNBUSY" \in ingress_flags =>
            /\ ingress_buf_pop' = ingress_buf_pop
            /\ ingress_flags' = ingress_flags \cup {"FLUSH"}
      /\ "NNBUSY" \notin ingress_flags =>
            /\ ingress_buf_pop' = <<>>
            /\ ingress_flags' = ingress_flags \ {"POSTLATER", "NNLATER"}
  BY <1>1, FlushSorted
<1>3. ingress_flags' \subseteq Flag
  BY <1>2 DEF IngressInv, TypeOK, Flag
<1>4. TypeOK'
  BY <1>1, <1>2, <1>3, SortedTypes DEF TypeOK, IngressInv
<1>5. AnnouncedMessageExists'
  <2>1. CASE "NNBUSY" \in ingress_flags
    BY <2>1, <1>2 DEF IngressInv, AnnouncedMessageExists
  <2>2. CASE "NNBUSY" \notin ingress_flags
    BY <2>2, <1>2 DEF IngressInv, AnnouncedMessageExists
  <2> QED BY <2>1, <2>2
<1>6. IdleBeforeConnected' /\ OneReceive' /\ FlushedOrDelayed'
  BY <1>1, <1>2 DEF IdleBeforeConnected, OneReceive, FlushedOrDelayed
<1> QED BY <1>2, <1>4, <1>5, <1>6 DEF IngressInv

(* nn_sofi_recv: the buffer fetched is free before it may be posted again,  *)
(* and the flags left tell of the rest of the list.                         *)
LEMMA FetchStep ==
    ASSUME IngressInv, NEW rc \in PostResults, Fetch(rc)
    PROVE  IngressInv'
<1> DEFINE b     == Head(ingress_buf_pop)
           freed == MarkFree(Lists, b)
           l     == IF "POSTLATER" \in ingress_flags THEN Posted(freed, rc) ELSE freed
           flags == FetchFlags(ingress_flags)
<1>1. /\ pipe_in = "IDLE" /\ ingress_buf_pop # <<>>
      /\ delivered' = chunk[b] /\ app_held' = app_held \cup {b}
      /\ pipe_in' = IF "NNLATER" \in ingress_flags THEN "IDLE" ELSE "ASYNC"
      /\ IF "FLUSH" \in flags
         THEN Flush(l, Rest, flags)
         ELSE SetLists(l) /\ ingress_buf_pop' = Rest /\ ingress_flags' = flags
      /\ UNCHANGED <<chunk, arrived, state, error>>
  BY DEF Fetch, sharedVars
<1>2. /\ Sorted(Lists, ingress_buf_pop) /\ ingress_buf_pop \in Seq(Buf)
      /\ Distinct(ingress_buf_pop)
  BY DEF IngressInv, Sorted
<1>3. /\ b \in Buf /\ b \in Elements(ingress_buf_pop)
      /\ Rest \in Seq(Buf)
      /\ Elements(Rest) = Elements(ingress_buf_pop) \ {b}
      /\ Distinct(Rest)
      /\ Len(ingress_buf_pop) >= 2 => Rest # <<>>
  BY <1>1, <1>2, TailElements DEF Rest
<1> HIDE DEF b
<1>4. /\ freed \in ListsType /\ freed.free = ingress_buf_free \cup {b}
      /\ freed.busy = ingress_buf_busy /\ freed.posted = rx_posted
  <2>0. \A c \in Buf : /\ MarkFree(Lists, c) \in ListsType
                      /\ MarkFree(Lists, c).free = Lists.free \cup {c}
                      /\ MarkFree(Lists, c).busy = Lists.busy \ {c}
                      /\ MarkFree(Lists, c).posted = Lists.posted
    BY <1>2, FreedSorted
  <2>1. /\ freed \in ListsType /\ freed.free = Lists.free \cup {b}
        /\ freed.busy = Lists.busy \ {b} /\ freed.posted = Lists.posted
    BY <1>3, <2>0
  <2> HIDE DEF freed
  <2> QED BY <2>1, <1>2, <1>3 DEF Sorted, Lists
<1> HIDE DEF freed
<1>5. Sorted(freed, Rest)
  BY <1>2, <1>3, <1>4 DEF Sorted, Lists
<1>6. Sorted(l, Rest)
  BY <1>5, PostedSorted
<1>7. /\ flags \subseteq Flag /\ "POSTLATER" \notin flags /\ "NNLATER" \notin flags
      /\ "NNBUSY" \in flags <=> "NNLATER" \in ingress_flags
      /\ "FLUSH" \in flags <=> "FLUSH" \in ingress_flags
  <2>1. "NNBUSY" \in ingress_flags /\ ingress_flags \subseteq Flag
    BY <1>1 DEF IngressInv, AnnouncedMessageExists, TypeOK
  <2> QED BY <2>1 DEF FetchFlags
<1>8. state # "CONNECTING"
  BY <1>1 DEF IngressInv, IdleBeforeConnected
<1>9. "NNLATER" \in ingress_flags => Rest # <<>>
  BY <1>3 DEF IngressInv, AnnouncedMessageExists
<1>10. state = "CLOSING" => "FLUSH" \in flags
  BY <1>1, <1>7 DEF IngressInv, AnnouncedMessageExists, FlushedOrDelayed
<1>11. state = "ACTIVE" =>
          /\ "FLUSH" \notin flags
          /\ l.posted = l.busy
          /\ \A x, y \in l.busy : x = y
  <2> SUFFICES ASSUME state = "ACTIVE"
               PROVE  /\ "FLUSH" \notin flags
                      /\ l.posted = l.busy
                      /\ \A x, y \in l.busy : x = y
    OBVIOUS
  <2>1. OneReceive
    BY DEF IngressInv
  <2>2. CASE "POSTLATER" \in ingress_flags
    <3>1. freed.busy = {} /\ freed.posted = {}
      BY <1>4, <2>1, <2>2 DEF OneReceive
    <3> QED BY <3>1, <1>5, <1>7, <2>1, <2>2, PostedSorted DEF OneReceive
  <2>3. CASE "POSTLATER" \notin ingress_flags
    BY <1>4, <1>7, <2>1, <2>3 DEF OneReceive
  <2> QED BY <2>2, <2>3
<1> HIDE DEF l, flags
<1>12. TypeOK /\ delivered' \in Nat /\ app_held' \subseteq Buf
  BY <1>1, <1>3 DEF IngressInv, TypeOK
<1>13. CASE "FLUSH" \in flags
  <2>1. /\ Sorted(Lists, ingress_buf_pop)' /\ ingress_buf_busy' = {}
        /\ "NNBUSY" \in flags =>
              ingress_buf_pop' = Rest /\ ingress_flags' = flags \cup {"FLUSH"}
        /\ "NNBUSY" \notin flags =>
              ingress_buf_pop' = <<>> /\ ingress_flags' = flags \ {"POSTLATER", "NNLATER"}
    BY <1>1, <1>6, <1>13, FlushSorted
  <2>2. state' = "CLOSING"
    BY <1>1, <1>8, <1>11, <1>12, <1>13 DEF TypeOK
  <2>3. /\ ingress_flags' \subseteq Flag /\ "NNLATER" \notin ingress_flags'
        /\ "NNBUSY" \in ingress_flags' <=> "NNBUSY" \in flags
        /\ "FLUSH" \in ingress_flags'
    BY <2>1, <1>7, <1>13 DEF Flag
  <2>4. TypeOK'
    BY <1>1, <1>12, <2>1, <2>3, SortedTypes DEF TypeOK
  <2>5. AnnouncedMessageExists'
    BY <1>1, <1>7, <1>9, <2>1, <2>3 DEF AnnouncedMessageExists
  <2>6. IdleBeforeConnected' /\ OneReceive' /\ FlushedOrDelayed'
    BY <2>1, <2>2, <2>3 DEF IdleBeforeConnected, OneReceive, FlushedOrDelayed
  <2> QED BY <2>1, <2>4, <2>5, <2>6 DEF IngressInv
<1>14. CASE "FLUSH" \notin flags
  <2>1. SetLists(l) /\ ingress_buf_pop' = Rest /\ ingress_flags' = flags
    BY <1>1, <1>14
  <2>2. Sorted(Lists, ingress_buf_pop)'
    BY <1>6, <2>1, SetListsIs DEF Sorted
  <2>3. state' = "ACTIVE"
    BY <1>1, <1>8, <1>10, <1>12, <1>14 DEF TypeOK
  <2>4. TypeOK'
    BY <1>1, <1>7, <1>12, <2>1, <2>2, SortedTypes DEF TypeOK
  <2>5. AnnouncedMessageExists'
    BY <1>1, <1>7, <1>9, <2>1 DEF AnnouncedMessageExists
  <2>6. OneReceive'
    BY <1>1, <1>7, <1>11, <2>1, <2>3 DEF OneReceive, SetLists
  <2>7. IdleBeforeConnected' /\ FlushedOrDelayed'
    BY <2>3 DEF IdleBeforeConnected, FlushedOrDelayed
  <2> QED BY <2>2, <2>4, <2>5, <2>6, <2>7 DEF IngressInv
<1> QED BY <1>13, <1>14

LEMMA RxDiscardedStep ==
    ASSUME IngressInv, NEW b \in Buf, RxDiscarded(b)
    PROVE  IngressInv'
<1>1. /\ state = "CLOSING" /\ rx_posted' \subseteq rx_posted
      /\ UNCHANGED <<ingress_buf_free, ingress_buf_busy, ingress_buf_pop, ingress_flags,
                     pipe_in, chunk, arrived, delivered, app_held, state, error>>
  BY DEF RxDiscarded, sharedVars
<1>2. Sorted(Lists, ingress_buf_pop)'
  BY <1>1 DEF IngressInv, Sorted, Lists, ListsType, Elements, Distinct
<1>3. TypeOK'
  BY <1>1 DEF IngressInv, TypeOK
<1>4. /\ AnnouncedMessageExists' /\ IdleBeforeConnected' /\ OneReceive'
      /\ FlushedOrDelayed'
  BY <1>1 DEF IngressInv, AnnouncedMessageExists, IdleBeforeConnected, OneReceive,
             FlushedOrDelayed
<1> QED BY <1>2, <1>3, <1>4 DEF IngressInv

LEMMA UnchangedStep ==
    ASSUME IngressInv, app_held' \subseteq app_held,
           UNCHANGED <<listVars, ingress_buf_pop, ingress_flags, pipe_in, chunk,
                       arrived, delivered, sharedVars>>
    PROVE  IngressInv'
<1> USE DEF listVars, sharedVars
<1>1. Sorted(Lists, ingress_buf_pop)'
  BY DEF IngressInv, Sorted, Lists, Elements, Distinct
<1>2. TypeOK'
  BY DEF IngressInv, TypeOK
<1>3. /\ AnnouncedMessageExists' /\ IdleBeforeConnected' /\ OneReceive'
      /\ FlushedOrDelayed'
  BY DEF IngressInv, AnnouncedMessageExists, IdleBeforeConnected, OneReceive,
         FlushedOrDelayed
<1> QED BY <1>1, <1>2, <1>3 DEF IngressInv

LEMMA NextIngressInv == IngressInv /\ [Next]_vars => IngressInv'
<1> SUFFICES ASSUME IngressInv, [Next]_vars PROVE IngressInv'
  OBVIOUS
<1>1. CASE \E rc \in PostResults : Connected(rc)
  BY <1>1, ConnectedStep
<1>2. CASE \E b \in Buf, rc \in PostResults : RxMessage(b, rc)
  BY <1>2, RxMessageStep
<1>3. CASE \E b \in Buf, rc \in PostResults : RxKeepalive(b, rc)
  BY <1>3, RxKeepaliveStep
<1>4. CASE \E rc \in PostResults : Fetch(rc)
  BY <1>4, FetchStep
<1>5. CASE \E b \in Buf : AppFree(b)
  <2>1. /\ app_held' \subseteq app_held
        /\ UNCHANGED <<listVars, ingress_buf_pop, ingress_flags, pipe_in, chunk,
                       arrived, delivered, sharedVars>>
    BY <1>5 DEF AppFree
  <2> QED BY <2>1, UnchangedStep
<1>6. CASE \E b \in Buf : RxError(b)
  <2>1. PICK b \in Buf : RxError(b)
    BY <1>6
  <2>2. Sorted(Taken(Lists, b), ingress_buf_pop)
    BY FreedSorted DEF IngressInv
  <2>3. /\ StopFlush(Taken(Lists, b), ingress_buf_pop, ingress_flags) /\ error' \in BOOLEAN
        /\ UNCHANGED <<pipe_in, chunk, arrived, delivered, app_held>>
    BY <2>1 DEF RxError
  <2> QED BY <2>2, <2>3, StopFlushStep
<1>7. CASE \E b \in Buf : RxDiscarded(b)
  BY <1>7, RxDiscardedStep
<1>8. CASE \E failed \in BOOLEAN : Stop(failed)
  <2>1. /\ StopFlush(Lists, ingress_buf_pop, ingress_flags) /\ error' \in BOOLEAN
        /\ UNCHANGED <<pipe_in, chunk, arrived, delivered, app_held>>
    BY <1>8 DEF Stop
  <2>2. Sorted(Lists, ingress_buf_pop)
    BY DEF IngressInv
  <2> QED BY <2>1, <2>2, StopFlushStep
<1>9. CASE UNCHANGED vars
  BY <1>9, UnchangedStep DEF vars, ingressVars
<1> QED BY <1>1, <1>2, <1>3, <1>4, <1>5, <1>6, <1>7, <1>8, <1>9 DEF Next

(* An endpoint stopped before the connection has nothing to flush.          *)
LEMMA EmptyWhenUnconnected ==
    ASSUME IngressInv, [Next]_vars, state = "CONNECTING", state' = "CLOSING"
    PROVE  ingress_empty'
<1>1. ingress_flags = {}
  BY DEF IngressInv, IdleBeforeConnected
<1>2. ASSUME Flush(Lists, ingress_buf_pop, ingress_flags) PROVE ingress_empty'
  <2>1. Sorted(Lists, ingress_buf_pop) /\ "NNBUSY" \notin ingress_flags
    BY <1>1 DEF IngressInv
  <2>2. ingress_buf_busy' = {}
    BY <1>2, <2>1, FlushSorted
  <2>3. ingress_buf_pop' = <<>>
    BY <1>2, <2>1 DEF Flush
  <2> QED BY <2>2, <2>3 DEF ingress_empty
<1>3. ASSUME NEW rc \in PostResults, Connected(rc) PROVE ingress_empty'
  BY <1>2, <1>3 DEF Connected, StopFlush
<1>4. ASSUME NEW failed \in BOOLEAN, Stop(failed) PROVE ingress_empty'
  BY <1>2, <1>4 DEF Stop, StopFlush
<1> QED BY <1>3, <1>4 DEF Next, RxMessage, RxKeepalive, Fetch, AppFree, RxError,
        RxDiscarded, vars, ingressVars, sharedVars

LEMMA IngressInvAlways == Spec => []IngressInv
BY InitIngressInv, NextIngressInv, PTL DEF Spec

-----------------------------------------------------------------------------
(* Every variable of the receiving half keeps its type.                     *)
THEOREM TypeCorrect == Spec => []TypeOK
BY IngressInvAlways, IngressInvImplies, PTL

(* nanomsg is only told of messages that exist: nn_sofi_ingress_fetch never *)
(* finds the list empty and nn_pipebase_received never fires its assertion. *)
THEOREM AnnouncementsAreTrue == Spec => []AnnouncedMessageExists
BY IngressInvAlways, IngressInvImplies, PTL

(* No buffer is lost and none is on two lists, whatever fails and whenever  *)
(* the endpoint is stopped.                                                 *)
THEOREM BuffersConserved == Spec => []EachBufferOnce
BY IngressInvAlways, IngressInvImplies, PTL

(* libfabric never holds a buffer with an unfetched message, not even one   *)
(* posted late while a flush is delayed.                                    *)
THEOREM NoOverwriteBeforeFetch == Spec => []QueuedMessagesSafe
BY IngressInvAlways, IngressInvImplies, PTL

(* A flush delayed for nanomsg is carried out by the fetch that ends the    *)
(* delay.                                                                   *)
THEOREM FlushIsNotForgotten == Spec => []DelayedFlushDone
BY IngressInvAlways, IngressInvImplies, PTL

-----------------------------------------------------------------------------
(* The endpoint never goes deaf.  What the helpers do to the lists:         *)
LEMMA ListOperations ==
    ASSUME NEW l \in ListsType, NEW b \in Buf
    PROVE  /\ Taken(l, b) \in ListsType
           /\ MarkPopulated(l, b) \in ListsType
           /\ MarkFree(l, b) \in ListsType
           /\ b \in MarkFree(l, b).free
BY DEF ListsType, Taken, MarkFree, MarkPopulated

(* After a post a receive is posted, or a free buffer is left, or there was *)
(* none and the post returned -EAGAIN.                                      *)
LEMMA PostedOrOwed ==
    ASSUME NEW l \in ListsType, NEW rc
    PROVE  /\ Posted(l, rc) \in ListsType
           /\ \/ Posted(l, rc).busy # {}
              \/ Posted(l, rc).free # {}
              \/ l.free = {} /\ l.busy = {} /\ PostReturn(l, rc) = "EAGAIN"
<1> DEFINE b == CHOOSE c \in l.free : TRUE
           r == [l EXCEPT !.free = @ \ {b}, !.busy = @ \cup {b}, !.posted = @ \cup {b}]
<1>1. CASE l.free = {} \/ rc # "OK"
  <2>1. Posted(l, rc) = l
    BY <1>1 DEF Posted
  <2>2. l.free = {} => PostReturn(l, rc) = "EAGAIN"
    BY DEF PostReturn
  <2> QED BY <2>1, <2>2
<1>2. CASE l.free # {} /\ rc = "OK"
  <2>1. b \in l.free
    BY <1>2
  <2>2. Posted(l, rc) = r
    BY <1>2 DEF Posted
  <2> HIDE DEF b
  <2>3. r \in ListsType /\ b \in r.busy
    BY <2>1 DEF ListsType
  <2> HIDE DEF r
  <2> QED BY <2>2, <2>3
<1> QED BY <1>1, <1>2

(* A buffer that was freed stays free or is posted.                         *)
LEMMA FreedIsUsable ==
    ASSUME NEW l \in ListsType, NEW b \in Buf, NEW rc, NEW late \in BOOLEAN,
           NEW r, r = IF late THEN Posted(MarkFree(l, b), rc) ELSE MarkFree(l, b)
    PROVE  r \in ListsType /\ (r.free # {} \/ r.busy # {})
<1>1. MarkFree(l, b) \in ListsType /\ b \in MarkFree(l, b).free
  BY ListOperations
<1>2. MarkFree(l, b).free # {}
  BY <1>1
<1>3. CASE late
  BY <1>1, <1>2, <1>3, PostedOrOwed
<1>4. CASE ~late
  BY <1>1, <1>2, <1>4
<1> QED BY <1>3, <1>4

LEMMA NeverDeafStep ==
    ASSUME IngressInv, NeverDeaf, [Next]_vars
    PROVE  NeverDeaf'
<1> SUFFICES ASSUME state' = "ACTIVE", ingress_buf_free' = {}, ingress_buf_busy' = {}
             PROVE  "POSTLATER" \in ingress_flags' /\ "NNBUSY" \in ingress_flags'
  BY DEF NeverDeaf
<1>1. Lists \in ListsType
  BY DEF IngressInv, Sorted
<1>2. ASSUME NEW rc \in PostResults, Connected(rc) PROVE FALSE
  <2>1. SetLists(Posted(Lists, rc))
    BY <1>2 DEF Connected, StopFlush
  <2>2. Lists.free = Buf
    BY <1>2, EmptySorted DEF Connected, IngressInv, IdleBeforeConnected, Sorted, Lists
  <2>3. 1 \in Buf
    BY RxQueueAssumption DEF Buf
  <2>4. Lists.free # {}
    BY <2>2, <2>3
  <2> QED BY <1>1, <2>1, <2>4, PostedOrOwed DEF SetLists
<1>3. ASSUME NEW b \in Buf, NEW rc \in PostResults, RxMessage(b, rc)
      PROVE  "POSTLATER" \in ingress_flags' /\ "NNBUSY" \in ingress_flags'
  <2> DEFINE l == MarkPopulated(Taken(Lists, b), b)
  <2>1. l \in ListsType
    BY <1>1, ListOperations
  <2>2. /\ Posted(l, rc).free = {} /\ Posted(l, rc).busy = {}
        /\ ingress_flags' = PostLater(Notify(ingress_flags), l, rc)
    BY <1>3 DEF RxMessage, SetLists
  <2> HIDE DEF l
  <2>3. PostReturn(l, rc) = "EAGAIN"
    BY <2>1, <2>2, PostedOrOwed
  <2> QED BY <2>2, <2>3 DEF PostLater, Notify
<1>4. ASSUME NEW b \in Buf, NEW rc \in PostResults, RxKeepalive(b, rc) PROVE FALSE
  <2> DEFINE late == "POSTLATER" \in ingress_flags
             t == Taken(Lists, b)
             l == IF late THEN Posted(MarkFree(t, b), rc) ELSE MarkFree(t, b)
  <2>1. t \in ListsType
    BY <1>1, ListOperations
  <2>2. SetLists(Posted(l, rc))
    BY <1>4 DEF RxKeepalive
  <2> HIDE DEF t
  <2>3. l \in ListsType /\ (l.free # {} \/ l.busy # {})
    BY <2>1, FreedIsUsable
  <2> HIDE DEF l
  <2> QED BY <2>2, <2>3, PostedOrOwed DEF SetLists
<1>5. ASSUME NEW rc \in PostResults, Fetch(rc) PROVE FALSE
  <2> DEFINE late == "POSTLATER" \in ingress_flags
             b == Head(ingress_buf_pop)
             l == IF late THEN Posted(MarkFree(Lists, b), rc) ELSE MarkFree(Lists, b)
  <2>1. b \in Buf
    BY <1>5, TailElements DEF Fetch, IngressInv, Sorted
  <2>2. SetLists(l) \/ Flush(l, Rest, FetchFlags(ingress_flags))
    BY <1>5 DEF Fetch
  <2> HIDE DEF b
  <2>3. l \in ListsType /\ (l.free # {} \/ l.busy # {})
    BY <1>1, <2>1, FreedIsUsable
  <2> HIDE DEF l
  <2>4. CASE SetLists(l)
    BY <2>3, <2>4 DEF SetLists
  <2>5. CASE Flush(l, Rest, FetchFlags(ingress_flags))
    <3>1. l.free \cup l.busy \subseteq ingress_buf_free'
      BY <2>3, <2>5 DEF Flush, SetLists, ListsType
    <3> QED BY <2>3, <3>1
  <2> QED BY <2>2, <2>4, <2>5
<1>6. CASE (\E b \in Buf : AppFree(b)) \/ UNCHANGED vars
  BY <1>6 DEF NeverDeaf, AppFree, vars, ingressVars, listVars, sharedVars
<1>7. ASSUME \/ \E b \in Buf : RxError(b) \/ RxDiscarded(b)
             \/ \E failed \in BOOLEAN : Stop(failed)
      PROVE  FALSE
  BY <1>7 DEF RxError, RxDiscarded, Stop, StopFlush, sharedVars
<1> QED BY <1>2, <1>3, <1>4, <1>5, <1>6, <1>7 DEF Next

(* The endpoint is never deaf for want of a buffer, whichever posts fail.   *)
THEOREM NeverDeafAlways == Spec => []NeverDeaf
<1>1. Init => NeverDeaf
  BY DEF Init, NeverDeaf
<1> QED BY <1>1, IngressInvAlways, NeverDeafStep, PTL DEF Spec

-----------------------------------------------------------------------------
(* The refinement of FifoChannel.  What is not in the checked invariants:   *)
(* the populated list holds the messages that arrived and were not fetched, *)
(* one after the other.  Once closing it may be empty with messages lost,   *)
(* but never lose one and keep a later one.                                 *)
InOrder ==
    /\ state # "CLOSING" \/ ingress_buf_pop # <<>> =>
          delivered + Len(ingress_buf_pop) = arrived
    /\ \A i \in DOMAIN ingress_buf_pop : chunk[ingress_buf_pop[i]] = delivered + i

Waiting == [i \in DOMAIN ingress_buf_pop |-> chunk[ingress_buf_pop[i]]]

(* The four things a step may be to the channel.                            *)
Unnoticed ==
    /\ state' = "CLOSING" <=> state = "CLOSING"
    /\ UNCHANGED <<ingress_buf_pop, chunk, arrived, delivered>>

Arriving(b) ==
    /\ state = "ACTIVE" /\ state' = "ACTIVE"
    /\ b \notin Elements(ingress_buf_pop)
    /\ ingress_buf_pop' = Append(ingress_buf_pop, b)
    /\ chunk' = [chunk EXCEPT ![b] = arrived + 1]
    /\ arrived' = arrived + 1
    /\ UNCHANGED delivered

Delivering ==
    /\ ingress_buf_pop # <<>>
    /\ delivered' = chunk[Head(ingress_buf_pop)]
    /\ \/ ingress_buf_pop' = Tail(ingress_buf_pop)
       \/ state = "CLOSING" /\ ingress_buf_pop' = <<>>
    /\ UNCHANGED <<state, chunk, arrived>>

Shutting ==
    /\ state # "CLOSING" /\ state' = "CLOSING"
    /\ ingress_buf_pop' \in {ingress_buf_pop, <<>>}
    /\ UNCHANGED <<chunk, arrived, delivered>>

LEMMA ChannelSteps ==
    ASSUME IngressInv, [Next]_vars
    PROVE  Unnoticed \/ (\E b \in Buf : Arriving(b)) \/ Delivering \/ Shutting
<1>1. ASSUME NEW l, NEW q, NEW flags, Flush(l, q, flags)
      PROVE  ingress_buf_pop' \in {q, <<>>}
  BY <1>1 DEF Flush
<1>2. ASSUME NEW rc \in PostResults, Connected(rc) PROVE Unnoticed \/ Shutting
  BY <1>1, <1>2 DEF Connected, StopFlush, Unnoticed, Shutting
<1>3. ASSUME NEW b \in Buf, NEW rc \in PostResults, RxMessage(b, rc) PROVE Arriving(b)
  BY <1>3, CompletedBuffer DEF RxMessage, Arriving, sharedVars
<1>4. ASSUME NEW rc \in PostResults, Fetch(rc) PROVE Delivering
  <2>1. state = "CLOSING" \/ "FLUSH" \notin FetchFlags(ingress_flags)
    BY <1>4 DEF Fetch, FetchFlags, IngressInv, TypeOK, IdleBeforeConnected, OneReceive
  <2>2. /\ ingress_buf_pop # <<>> /\ delivered' = chunk[Head(ingress_buf_pop)]
        /\ UNCHANGED <<state, chunk, arrived>>
    BY <1>4 DEF Fetch, sharedVars
  <2>3. CASE "FLUSH" \in FetchFlags(ingress_flags)
    <3>1. ingress_buf_pop' \in {Rest, <<>>}
      BY <1>1, <1>4, <2>3 DEF Fetch
    <3> QED BY <2>1, <2>2, <2>3, <3>1 DEF Delivering, Rest
  <2>4. CASE "FLUSH" \notin FetchFlags(ingress_flags)
    <3>1. ingress_buf_pop' = Rest
      BY <1>4, <2>4 DEF Fetch
    <3> QED BY <2>2, <3>1 DEF Delivering, Rest
  <2> QED BY <2>3, <2>4
<1>5. ASSUME NEW b \in Buf, RxError(b) PROVE Shutting
  BY <1>1, <1>5 DEF RxError, StopFlush, Shutting
<1>6. ASSUME NEW failed \in BOOLEAN, Stop(failed) PROVE Shutting
  BY <1>1, <1>6 DEF Stop, StopFlush, Shutting
<1>7. ASSUME \/ \E b \in Buf, rc \in PostResults : RxKeepalive(b, rc)
             \/ \E b \in Buf : AppFree(b) \/ RxDiscarded(b)
             \/ UNCHANGED vars
      PROVE  Unnoticed
  BY <1>7 DEF RxKeepalive, AppFree, RxDiscarded, vars, ingressVars, sharedVars, Unnoticed
<1> QED BY <1>2, <1>3, <1>4, <1>5, <1>6, <1>7 DEF Next

(* What the four do to the messages in the populated list.                  *)
LEMMA WaitingIs ==
    /\ ingress_buf_pop \in Seq(Buf) /\ chunk \in [Buf -> Nat] =>
          /\ Waiting \in Seq(Nat) /\ Len(Waiting) = Len(ingress_buf_pop)
          /\ \A i \in DOMAIN ingress_buf_pop : Waiting[i] = chunk[ingress_buf_pop[i]]
    /\ ingress_buf_pop' \in Seq(Buf) /\ chunk' \in [Buf -> Nat] =>
          /\ Waiting' \in Seq(Nat) /\ Len(Waiting') = Len(ingress_buf_pop')
          /\ \A i \in DOMAIN ingress_buf_pop' : Waiting'[i] = chunk'[ingress_buf_pop'[i]]
<1>1. ASSUME NEW q \in Seq(Buf), NEW c \in [Buf -> Nat], NEW w,
             w = [i \in DOMAIN q |-> c[q[i]]]
      PROVE  /\ w \in Seq(Nat) /\ Len(w) = Len(q)
             /\ \A i \in DOMAIN q : w[i] = c[q[i]]
  BY <1>1
<1>2. /\ Waiting = [i \in DOMAIN ingress_buf_pop |-> chunk[ingress_buf_pop[i]]]
      /\ Waiting' = [i \in DOMAIN ingress_buf_pop' |-> chunk'[ingress_buf_pop'[i]]]
  BY DEF Waiting
<1>3. ASSUME ingress_buf_pop \in Seq(Buf), chunk \in [Buf -> Nat]
      PROVE  /\ Waiting \in Seq(Nat) /\ Len(Waiting) = Len(ingress_buf_pop)
             /\ \A i \in DOMAIN ingress_buf_pop : Waiting[i] = chunk[ingress_buf_pop[i]]
  BY <1>1, <1>2, <1>3
<1>4. ASSUME ingress_buf_pop' \in Seq(Buf), chunk' \in [Buf -> Nat]
      PROVE  /\ Waiting' \in Seq(Nat) /\ Len(Waiting') = Len(ingress_buf_pop')
             /\ \A i \in DOMAIN ingress_buf_pop' :
                    Waiting'[i] = chunk'[ingress_buf_pop'[i]]
  BY <1>1, <1>2, <1>4
<1> QED BY <1>3, <1>4

LEMMA ArrivingIs ==
    ASSUME IngressInv, InOrder, NEW b \in Buf, Arriving(b)
    PROVE  InOrder' /\ Waiting' = Append(Waiting, arrived')
<1> DEFINE q == ingress_buf_pop
           n == Len(ingress_buf_pop)
<1>1. /\ q \in Seq(Buf) /\ chunk \in [Buf -> Nat]
      /\ arrived \in Nat /\ delivered \in Nat
  BY IngressBounds DEF IngressInv, TypeOK
<1>2. /\ n \in Nat /\ DOMAIN q = 1 .. n
      /\ \A i \in 1 .. n : q[i] \in Buf
      /\ DOMAIN Append(q, b) = 1 .. n + 1 /\ Len(Append(q, b)) = n + 1
      /\ Append(q, b)[n + 1] = b
      /\ \A i \in 1 .. n : Append(q, b)[i] = q[i]
  BY <1>1
<1>3. \A i \in 1 .. n : q[i] # b
  BY <1>2 DEF Arriving, Elements
<1>4. /\ delivered + n = arrived
      /\ \A i \in 1 .. n : chunk[q[i]] = delivered + i
  BY <1>2 DEF InOrder, Arriving
<1>5. /\ DOMAIN ingress_buf_pop' = 1 .. n + 1 /\ Len(ingress_buf_pop') = n + 1
      /\ \A i \in 1 .. n : chunk'[ingress_buf_pop'[i]] = chunk[q[i]]
      /\ chunk'[ingress_buf_pop'[n + 1]] = arrived + 1
      /\ arrived' = arrived + 1 /\ delivered' = delivered
  BY <1>1, <1>2, <1>3 DEF Arriving
<1> HIDE DEF q, n
<1>6. InOrder'
  <2>1. delivered' + Len(ingress_buf_pop') = arrived'
    BY <1>1, <1>2, <1>4, <1>5
  <2>2. ASSUME NEW i \in DOMAIN ingress_buf_pop'
        PROVE  chunk'[ingress_buf_pop'[i]] = delivered' + i
    <3>1. CASE i \in 1 .. n
      BY <3>1, <1>4, <1>5
    <3>2. CASE i = n + 1
      BY <3>2, <1>1, <1>2, <1>4, <1>5
    <3> QED BY <3>1, <3>2, <1>2, <1>5
  <2> QED BY <2>1, <2>2 DEF InOrder
<1>7. /\ Waiting \in Seq(Nat) /\ Len(Waiting) = n
      /\ \A i \in 1 .. n : Waiting[i] = chunk[q[i]]
  BY <1>1, <1>2 DEF Waiting, q, n
<1>8. Waiting' = Append(Waiting, arrived')
  <2> DEFINE r == Append(Waiting, arrived')
  <2>1. /\ Waiting' \in Seq(Nat) /\ Len(Waiting') = n + 1
        /\ \A i \in 1 .. n + 1 : Waiting'[i] = chunk'[ingress_buf_pop'[i]]
    <3>1. ingress_buf_pop' \in Seq(Buf) /\ chunk' \in [Buf -> Nat]
      BY <1>1 DEF Arriving, q
    <3> QED BY <3>1, <1>5, WaitingIs
  <2>2. /\ r \in Seq(Nat) /\ Len(r) = n + 1
        /\ \A i \in 1 .. n : r[i] = Waiting[i]
        /\ r[n + 1] = arrived'
    BY <1>1, <1>2, <1>5, <1>7
  <2> HIDE DEF r
  <2>3. ASSUME NEW i \in 1 .. n + 1 PROVE Waiting'[i] = r[i]
    <3>0. Waiting'[i] = chunk'[ingress_buf_pop'[i]]
      BY <2>1
    <3>1. CASE i \in 1 .. n
      <4>1. r[i] = chunk[q[i]]
        BY <3>1, <2>2, <1>7
      <4> QED BY <3>0, <3>1, <4>1, <1>5
    <3>2. CASE i = n + 1
      BY <3>0, <3>2, <2>2, <1>5
    <3> QED BY <3>1, <3>2, <1>2
  <2>4. Waiting' = r
    BY <2>1, <2>2, <2>3, SeqEqual
  <2> QED BY <2>4 DEF r
<1> QED BY <1>6, <1>8

LEMMA DeliveringIs ==
    ASSUME IngressInv, InOrder, Delivering
    PROVE  /\ InOrder'
           /\ Waiting # <<>>
           /\ delivered' = Head(Waiting) /\ delivered' = delivered + 1
           /\ Waiting' = Tail(Waiting) \/ (state = "CLOSING" /\ Waiting' = <<>>)
<1> DEFINE q == ingress_buf_pop
           n == Len(ingress_buf_pop)
<1>1. /\ q \in Seq(Buf) /\ q # <<>> /\ chunk \in [Buf -> Nat]
      /\ arrived \in Nat /\ delivered \in Nat
  BY IngressBounds DEF IngressInv, TypeOK, Delivering
<1>2. /\ n \in Nat /\ n >= 1 /\ DOMAIN q = 1 .. n
      /\ \A i \in 1 .. n : q[i] \in Buf
      /\ Head(q) = q[1]
      /\ DOMAIN Tail(q) = 1 .. n - 1 /\ Len(Tail(q)) = n - 1
      /\ \A i \in 1 .. n - 1 : Tail(q)[i] = q[i + 1]
  BY <1>1
<1>3. /\ delivered + n = arrived
      /\ \A i \in 1 .. n : chunk[q[i]] = delivered + i
  BY <1>1, <1>2 DEF InOrder
<1>4. /\ delivered' = delivered + 1 /\ delivered' = chunk[q[1]]
      /\ arrived' = arrived /\ chunk' = chunk /\ state' = state
  BY <1>2, <1>3 DEF Delivering
<1>5. /\ Waiting \in Seq(Nat) /\ Waiting # <<>> /\ Head(Waiting) = chunk[q[1]]
      /\ Len(Waiting) = n
      /\ \A i \in 1 .. n : Waiting[i] = chunk[q[i]]
  BY <1>1, <1>2 DEF Waiting, q, n
<1>6. CASE ingress_buf_pop' = Tail(q)
  <2>1. /\ DOMAIN ingress_buf_pop' = 1 .. n - 1 /\ Len(ingress_buf_pop') = n - 1
        /\ \A i \in 1 .. n - 1 : ingress_buf_pop'[i] = q[i + 1]
    BY <1>2, <1>6
  <2> HIDE DEF q, n
  <2>2. InOrder'
    <3>1. delivered' + Len(ingress_buf_pop') = arrived'
      BY <1>1, <1>2, <1>3, <1>4, <2>1
    <3>2. ASSUME NEW i \in DOMAIN ingress_buf_pop'
          PROVE  chunk'[ingress_buf_pop'[i]] = delivered' + i
      <4>1. i \in 1 .. n - 1 /\ i + 1 \in 1 .. n
        BY <2>1, <1>2
      <4>2. chunk[q[i + 1]] = delivered + (i + 1)
        BY <4>1, <1>3
      <4> QED BY <4>1, <4>2, <2>1, <1>1, <1>4
    <3> QED BY <3>1, <3>2 DEF InOrder
  <2>3. Waiting' = Tail(Waiting)
    <3>1. /\ Waiting' \in Seq(Nat) /\ Len(Waiting') = n - 1
          /\ \A i \in 1 .. n - 1 : Waiting'[i] = chunk[q[i + 1]]
      <4>1. ingress_buf_pop' \in Seq(Buf) /\ chunk' \in [Buf -> Nat]
        BY <1>1, <1>4, <1>6 DEF q
      <4> QED BY <4>1, <1>4, <2>1, WaitingIs
    <3>2. /\ Tail(Waiting) \in Seq(Nat) /\ Len(Tail(Waiting)) = n - 1
          /\ \A i \in 1 .. n - 1 : Tail(Waiting)[i] = Waiting[i + 1]
      BY <1>5, HeadTailProperties
    <3>3. \A i \in 1 .. n - 1 : Waiting[i + 1] = chunk[q[i + 1]]
      BY <1>2, <1>5
    <3>4. \A i \in 1 .. n - 1 : Waiting'[i] = Tail(Waiting)[i]
      BY <3>1, <3>2, <3>3
    <3> QED BY <3>1, <3>2, <3>4, SeqEqual
  <2> QED BY <2>2, <2>3, <1>4, <1>5
<1>7. CASE state = "CLOSING" /\ ingress_buf_pop' = <<>>
  <2>1. InOrder'
    BY <1>4, <1>7 DEF InOrder
  <2>2. Waiting' = <<>>
    BY <1>7 DEF Waiting
  <2> QED BY <2>1, <2>2, <1>4, <1>5, <1>7
<1> QED BY <1>6, <1>7 DEF Delivering

LEMMA ShuttingIs ==
    ASSUME InOrder, Shutting \/ Unnoticed
    PROVE  /\ InOrder'
           /\ Unnoticed => Waiting' = Waiting
           /\ Shutting => Waiting' \in {Waiting, <<>>}
<1>1. CASE Unnoticed
  <2>1. Waiting' = Waiting
    BY <1>1 DEF Unnoticed, Waiting
  <2>2. InOrder'
    BY <1>1 DEF Unnoticed, InOrder
  <2> QED BY <1>1, <2>1, <2>2 DEF Unnoticed, Shutting
<1>2. CASE Shutting /\ ingress_buf_pop' = ingress_buf_pop
  <2>1. Waiting' = Waiting
    BY <1>2 DEF Shutting, Waiting
  <2>2. InOrder'
    BY <1>2 DEF Shutting, InOrder
  <2> QED BY <1>2, <2>1, <2>2 DEF Unnoticed, Shutting
<1>3. CASE Shutting /\ ingress_buf_pop' = <<>>
  <2>1. Waiting' = <<>>
    BY <1>3 DEF Shutting, Waiting
  <2>2. InOrder'
    BY <1>3 DEF Shutting, InOrder
  <2> QED BY <1>3, <2>1, <2>2 DEF Unnoticed, Shutting
<1> QED BY <1>1, <1>2, <1>3 DEF Shutting

LEMMA ChannelStep ==
    ASSUME IngressInv, InOrder, [Next]_vars
    PROVE  InOrder' /\ [Channel!Next]_(Channel!channelVars)
<1> USE DEF Channel!Next, Channel!Arrive, Channel!Deliver, Channel!Close,
            Channel!channelVars
<1>1. ASSUME NEW b \in Buf, Arriving(b) PROVE InOrder' /\ Channel!Arrive
  <2>1. InOrder' /\ Waiting' = Append(Waiting, arrived')
    BY <1>1, ArrivingIs
  <2> QED BY <1>1, <2>1 DEF Arriving, Waiting
<1>2. CASE Delivering
  <2>1. /\ InOrder' /\ Waiting # <<>>
        /\ delivered' = Head(Waiting) /\ delivered' = delivered + 1
        /\ Waiting' = Tail(Waiting) \/ (state = "CLOSING" /\ Waiting' = <<>>)
        /\ UNCHANGED <<state, arrived>>
    BY <1>2, DeliveringIs DEF Delivering
  <2>2. Channel!Deliver
    BY <2>1 DEF Waiting
  <2> QED BY <2>1, <2>2
<1>3. CASE Shutting
  <2>1. InOrder' /\ Waiting' \in {Waiting, <<>>}
    BY <1>3, ShuttingIs
  <2>2. Channel!Close
    BY <1>3, <2>1 DEF Shutting, Waiting
  <2> QED BY <2>1, <2>2
<1>4. CASE Unnoticed
  <2>1. InOrder' /\ Waiting' = Waiting
    BY <1>4, ShuttingIs
  <2>2. (state # "CLOSING")' = (state # "CLOSING")
    BY <1>4 DEF Unnoticed
  <2> QED BY <1>4, <2>1, <2>2 DEF Unnoticed, Waiting
<1> QED BY <1>1, <1>2, <1>3, <1>4, ChannelSteps

(* nanomsg fetches every message in the order of arrival, each once and     *)
(* none skipped, for every size of the queue: a flush, delayed or not, only *)
(* ever drops all that is still waiting.                                    *)
THEOREM DeliversInOrder == Spec => ImplementsChannel
<1>1. Init => InOrder
  BY DEF Init, IngressInit, InOrder
<1>2. Init => Channel!Init
  BY DEF Init, IngressInit, Channel!Init
<1> QED BY <1>1, <1>2, IngressInvAlways, ChannelStep, PTL
        DEF Spec, ImplementsChannel, Channel!Spec
=============================================================================
