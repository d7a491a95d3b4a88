----------------------------- MODULE BofiProofs -----------------------------
(***************************************************************************)
(* What the bound endpoint guarantees for every number of streaming        *)
(* endpoints, every size of the table of offsets, every length of the      *)
(* queues that fits a page of keys, and every set of calls that may fail.  *)
(***************************************************************************)
EXTENDS Bofi, TLAPS

USE SlotsPositive

-----------------------------------------------------------------------------
(* The keys of an endpoint stay within its page, so that two offsets never  *)
(* give one key: neither between endpoints, nor between the three sorts of  *)
(* keys of one endpoint (sofi.c:93-96).                                     *)
LEMMA KeysInPage ==
    ASSUME NEW o \in Nat, NEW k \in Keys(o)
    PROVE  k \in Int /\ Page(o) <= k /\ k < Page(o) + NN_SOFI_MRM_KEY_PAGE_SIZE
  BY QueuesFitPage
  DEF Keys, AuxKeys, SendKeys, RecvKeys, Page, NN_SOFI_MRM_AUX_KEY,
      NN_SOFI_MRM_SEND_KEY, NN_SOFI_MRM_RECV_KEY, NN_SOFI_MRM_KEY_PAGE_SIZE

THEOREM PagesDisjoint ==
    ASSUME NEW o \in Nat, NEW p \in Nat, o # p
    PROVE  Keys(o) \cap Keys(p) = {}
<1> SUFFICES ASSUME NEW k \in Keys(o), k \in Keys(p) PROVE FALSE
  OBVIOUS
<1>1. Page(o) <= k /\ k < Page(o) + 4096 /\ Page(p) <= k /\ k < Page(p) + 4096 /\ k \in Int
  BY KeysInPage DEF NN_SOFI_MRM_KEY_PAGE_SIZE
<1>2. CASE o < p
  BY <1>1, <1>2 DEF Page, NN_SOFI_MRM_KEY_PAGE_SIZE
<1>3. CASE p < o
  BY <1>1, <1>3 DEF Page, NN_SOFI_MRM_KEY_PAGE_SIZE
<1> QED BY <1>2, <1>3

THEOREM SortsDisjoint ==
    ASSUME NEW o \in Nat
    PROVE  /\ AuxKeys(o) \cap SendKeys(o) = {}
           /\ SendKeys(o) \cap RecvKeys(o) = {}
           /\ AuxKeys(o) \cap RecvKeys(o) = {}
  BY QueuesFitPage
  DEF AuxKeys, SendKeys, RecvKeys, Page, NN_SOFI_MRM_AUX_KEY,
      NN_SOFI_MRM_SEND_KEY, NN_SOFI_MRM_RECV_KEY, NN_SOFI_MRM_KEY_PAGE_SIZE

-----------------------------------------------------------------------------
(* What the STOP action and nn_bofi_start_accepting leave behind.           *)

Streams == [Sofis -> Phases \cup {"none"}]

LEMMA StopAllKeeps ==
    ASSUME NEW streams \in Streams, StopAll(streams)
    PROVE  phase' \in Streams /\ \A s \in Sofis : phase'[s] = "none" <=> streams[s] = "none"
  BY DEF StopAll, Streams, AfterStop, Follows, Phases

Stopping(open, streams) ==
    /\ state' = "STOPPING" /\ fsm' \in {"STOPPING", "STOPPED"}
    /\ pep' = "FREED" /\ peps' = open - 1 /\ queued' = FALSE
    /\ fsm' = "STOPPED" => NobodyLeft(phase')

Aborting(p, open, streams) ==
    /\ state' = "STOPPING" /\ fsm' = "ABORTED"
    /\ pep' = p /\ p \in {"NULL", "FREED"} /\ peps' = open
    /\ UNCHANGED queued

StillListed(streams) ==
    phase' \in Streams /\ \A s \in Sofis : phase'[s] = "none" <=> streams[s] = "none"

LEMMA StopActionResult ==
    ASSUME NEW p, NEW open, NEW streams \in Streams, StopAction(p, open, streams)
    PROVE  /\ StillListed(streams)
           /\ \/ Stopping(open, streams) /\ p \in {"OPEN", "LISTENING"}
              \/ Aborting(p, open, streams)
<1>1. CASE p \in {"OPEN", "LISTENING"} /\ StopAll(streams)
  <2>1. StillListed(streams)
    BY <1>1, StopAllKeeps DEF StillListed
  <2>2. Stopping(open, streams)
    BY <1>1, <2>1 DEF StopAction, Stopping, StillListed, NobodyLeft
  <2> QED BY <1>1, <2>1, <2>2
<1>2. CASE p \in {"NULL", "FREED"}
  BY <1>2 DEF StopAction, Aborting, StillListed
<1> QED BY <1>1, <1>2 DEF StopAction

Listening(open, streams) ==
    /\ state' = "ACTIVE" /\ fsm' = "ACTIVE"
    /\ pep' = "LISTENING" /\ peps' = open + 1 /\ worker' = TRUE /\ queued' = FALSE

LEMMA StartAcceptingResult ==
    ASSUME NEW rc, NEW old \in {"NULL", "FREED"}, NEW streams \in Streams,
           StartAccepting(rc, old, 0, streams)
    PROVE  /\ StillListed(streams) /\ worker' \in BOOLEAN
           /\ \/ Listening(0, streams)
              \/ Stopping(1, streams)
              \/ /\ Aborting(PepAfter(rc, old), OpenAfter(rc, 0), streams)
                 /\ rc \in {"PEP", "QUEUE", "BIND"}
<1>1. CASE rc = "OK"
  BY <1>1 DEF StartAccepting, StillListed, Listening, OpenFaults
<1>2. CASE rc \in OpenFaults
  <2>1. /\ StopAction(PepAfter(rc, old), OpenAfter(rc, 0), streams)
        /\ worker' = FALSE
    BY <1>2 DEF StartAccepting, OpenFaults
  <2>2. CASE rc = "LISTEN"
    <3>1. PepAfter(rc, old) = "OPEN" /\ OpenAfter(rc, 0) = 1
      BY <2>2 DEF PepAfter, OpenAfter
    <3> QED BY <2>1, <3>1, StopActionResult DEF Aborting
  <2>3. CASE rc \in {"PEP", "QUEUE", "BIND"}
    <3>1. PepAfter(rc, old) \in {"NULL", "FREED"}
      BY <2>3 DEF PepAfter
    <3> QED BY <2>1, <2>3, <3>1, StopActionResult
  <2> QED BY <1>2, <2>2, <2>3 DEF OpenFaults
<1> QED BY <1>1, <1>2 DEF StartAccepting

(* What a new offset does to the table.                                     *)
LEMMA NewOffsetResult ==
    ASSUME TypeOK, NEW o, NewSofiOffset(o)
    PROVE  /\ o \in Nat /\ sofi_offsets_size' \in Nat
           /\ sofi_offsets' \subseteq 0 .. sofi_offsets_size' - 1
           /\ sofi_offsets_size' >= sofi_offsets_size
           /\ sofi_offsets_size' = sofi_offsets_size =>
                 o \notin sofi_offsets /\ sofi_offsets' = sofi_offsets \cup {o}
<1>1. CASE o \in FreeOffsets /\ sofi_offsets' = sofi_offsets \cup {o} /\ UNCHANGED sofi_offsets_size
  BY <1>1 DEF FreeOffsets, TypeOK
<1>2. CASE /\ o = sofi_offsets_size
           /\ sofi_offsets_size' = sofi_offsets_size + offset_slots
           /\ UNCHANGED sofi_offsets
  BY <1>2 DEF TypeOK
<1> QED BY <1>1, <1>2 DEF NewSofiOffset

-----------------------------------------------------------------------------
(* The inductive invariant.  The table: while it has not grown, the offset  *)
(* of each endpoint on the list is marked, and no other endpoint's.         *)
Table ==
    /\ sofi_offsets_size >= offset_slots
    /\ sofi_offsets_size = offset_slots =>
          /\ \A s \in sofis : offset[s] \in sofi_offsets
          /\ \A s, t \in sofis : s # t => offset[s] # offset[t]

(* ... the passive endpoint: an open one is counted, so that closing it     *)
(* leaves none; ...                                                         *)
Passive ==
    /\ ListensWhileActive
    /\ fsm = "IDLE" => state = "IDLE" /\ peps = 0
    /\ fsm = "ACTIVE" /\ pep \in {"OPEN", "LISTENING"} => peps = 1

(* ... and the failures: an active endpoint without one has seen a failure, *)
(* the list is empty before the start and after the stop, and it is in the  *)
(* state STOPPING that an event can come too late.                          *)
Fatal == {"PEP", "QUEUE", "BIND", "INIT", "ACCEPT", "EQ"}

Known ==
    /\ FailsAsKnown
    /\ fsm = "ACTIVE" /\ pep \in {"NULL", "FREED"} => failed \cap Fatal # {}
    /\ fsm \in {"IDLE", "STOPPED", "DESTROYED"} => NobodyLeft(phase)
    /\ fsm \in {"STOPPING", "STOPPED", "DESTROYED"} => state = "STOPPING"

Inv == TypeOK /\ Table /\ Passive /\ Known

LEMMA InitInv == Init => Inv
<1> SUFFICES ASSUME Init PROVE Inv
  OBVIOUS
<1>1. TypeOK
  <2>1. sofi_offsets_size \in Nat /\ sofi_offsets \subseteq 0 .. sofi_offsets_size - 1 /\ peps \in Int
    BY DEF Init
  <2>2. phase \in [Sofis -> Phases \cup {"none"}] /\ offset \in [Sofis -> Nat]
    BY DEF Init
  <2>3. worker \in BOOLEAN /\ queued \in BOOLEAN /\ read \in BOOLEAN
    BY DEF Init
  <2> QED BY <2>1, <2>2, <2>3 DEF Init, TypeOK
<1>2. Table
  BY DEF Init, Table, sofis
<1>3. Passive
  BY DEF Init, Passive, ListensWhileActive
<1>4. Known
  BY DEF Init, Known, FailsAsKnown, NobodyLeft
<1> QED BY <1>1, <1>2, <1>3, <1>4 DEF Inv

(* An endpoint on the list keeps its offset and its place in the table.     *)
LEMMA TableKept ==
    ASSUME TypeOK, Table, tableVars' = tableVars, phase' \in Streams,
           \A s \in Sofis : phase'[s] = "none" <=> phase[s] = "none"
    PROVE  Table'
  BY DEF Table, tableVars, sofis

LEMMA OpenedPassive ==
    ASSUME NEW streams, NEW rc, NEW old,
           \/ Listening(0, streams)
           \/ Stopping(1, streams)
           \/ Aborting(PepAfter(rc, old), OpenAfter(rc, 0), streams)
    PROVE  Passive'
<1>1. CASE Listening(0, streams)
  BY <1>1 DEF Listening, Passive, ListensWhileActive
<1>2. CASE Stopping(1, streams)
  BY <1>2 DEF Stopping, Passive, ListensWhileActive
<1>3. CASE Aborting(PepAfter(rc, old), OpenAfter(rc, 0), streams)
  BY <1>3 DEF Aborting, Passive, ListensWhileActive
<1> QED BY <1>1, <1>2, <1>3

LEMMA OpenedKnown ==
    ASSUME NEW streams, NEW rc, NEW old, NEW calls, Outcome(rc, calls),
           \/ Listening(0, streams)
           \/ Stopping(1, streams)
           \/ /\ Aborting(PepAfter(rc, old), OpenAfter(rc, 0), streams)
              /\ rc \in {"PEP", "QUEUE", "BIND"}
    PROVE  Known'
<1>1. CASE Listening(0, streams)
  BY <1>1 DEF Listening, Known, FailsAsKnown
<1>2. CASE Stopping(1, streams)
  BY <1>2 DEF Stopping, Known, FailsAsKnown
<1>3. CASE Aborting(PepAfter(rc, old), OpenAfter(rc, 0), streams) /\ rc \in {"PEP", "QUEUE", "BIND"}
  <2>1. rc \in failed' /\ rc \in Fatal
    BY <1>3 DEF Outcome, Fatal
  <2> QED BY <1>3, <2>1 DEF Aborting, Known, FailsAsKnown, Fatal
<1> QED BY <1>1, <1>2, <1>3

LEMMA OpenedTypes ==
    ASSUME TypeOK, NEW streams, NEW rc, NEW old, NEW calls \in SUBSET Faults, Outcome(rc, calls),
           StillListed(streams), worker' \in BOOLEAN, read' \in BOOLEAN, offset' \in [Sofis -> Nat],
           sofi_offsets_size' \in Nat, sofi_offsets' \subseteq 0 .. sofi_offsets_size' - 1,
           \/ Listening(0, streams)
           \/ Stopping(1, streams)
           \/ /\ Aborting(PepAfter(rc, old), OpenAfter(rc, 0), streams)
              /\ rc \in {"PEP", "QUEUE", "BIND"}
    PROVE  TypeOK'
<1>1. failed' \subseteq Faults
  BY DEF Outcome, MayFail, TypeOK
<1>2. OpenAfter(rc, 0) \in Int
  BY DEF OpenAfter
<1>3. phase' \in [Sofis -> Phases \cup {"none"}]
  BY DEF StillListed, Streams
<1>4. /\ state' \in {"ACTIVE", "STOPPING"} /\ fsm' \in {"ACTIVE", "STOPPING", "STOPPED", "ABORTED"}
      /\ pep' \in {"NULL", "LISTENING", "FREED"}
  BY DEF Listening, Stopping, Aborting
<1>5. peps' \in Int
  BY <1>2 DEF Listening, Stopping, Aborting
<1>6. queued' \in BOOLEAN
  BY DEF Listening, Stopping, Aborting, TypeOK
<1> QED BY <1>1, <1>3, <1>4, <1>5, <1>6 DEF TypeOK

-----------------------------------------------------------------------------
(* The steps.                                                               *)

LEMMA StartStep ==
    ASSUME Inv, NEW rc, Start(rc)
    PROVE  Inv'
<1> USE DEF Inv
<1>1. fsm = "IDLE" /\ Outcome(rc, {}) /\ UNCHANGED <<read, tableVars>>
  BY DEF Start
<1>2. phase \in Streams
  BY DEF TypeOK, Streams
<1>3. /\ StillListed(phase) /\ worker' \in BOOLEAN
      /\ \/ Listening(0, phase)
         \/ Stopping(1, phase)
         \/ /\ Aborting(PepAfter(rc, "NULL"), OpenAfter(rc, 0), phase)
            /\ rc \in {"PEP", "QUEUE", "BIND"}
  BY <1>2, StartAcceptingResult DEF Start
<1>4. read' \in BOOLEAN /\ offset' \in [Sofis -> Nat] /\ sofi_offsets_size' \in Nat
      /\ sofi_offsets' \subseteq 0 .. sofi_offsets_size' - 1
  BY <1>1 DEF TypeOK, tableVars
<1>5. TypeOK'
  BY <1>1, <1>3, <1>4, OpenedTypes
<1>6. Table'
  BY <1>1, <1>3, TableKept DEF StillListed
<1> QED BY <1>1, <1>3, <1>5, <1>6, OpenedPassive, OpenedKnown

LEMMA StartIgnoredStep ==
    ASSUME Inv, NEW rc, StartIgnored(rc)
    PROVE  Inv'
<1> USE DEF Inv
<1>1. /\ fsm = "IDLE" /\ state = "IDLE" /\ Outcome(rc, {}) /\ rc \in OpenFaults
      /\ fsm' = "ACTIVE" /\ pep' = PepAfter(rc, "NULL") /\ peps' = OpenAfter(rc, 0)
      /\ worker' = FALSE /\ UNCHANGED <<state, queued, read, tableVars, phase>>
  BY DEF StartIgnored, Outcome, Passive
<1>2. /\ pep' \in {"NULL", "OPEN"} /\ peps' \in {0, 1}
      /\ pep' = "OPEN" => peps' = 1
      /\ pep' = "NULL" => rc \in Fatal
  BY <1>1 DEF PepAfter, OpenAfter, OpenFaults, Fatal
<1>3. failed' \subseteq Faults /\ rc \in failed'
  BY <1>1 DEF Outcome, MayFail, TypeOK, OpenFaults
<1>4. TypeOK'
  <2>1. peps' \in Int /\ pep' \in {"NULL", "OPEN", "LISTENING", "FREED"}
    BY <1>2
  <2>2. worker' \in BOOLEAN /\ queued' \in BOOLEAN /\ read' \in BOOLEAN
    BY <1>1 DEF TypeOK
  <2> QED BY <1>1, <1>3, <2>1, <2>2 DEF TypeOK, tableVars
<1>5. Table'
  BY <1>1, TableKept DEF TypeOK, Streams
<1>6. Passive'
  BY <1>1, <1>2 DEF Passive, ListensWhileActive
<1>7. Known'
  BY <1>1, <1>2, <1>3 DEF Known, FailsAsKnown
<1> QED BY <1>4, <1>5, <1>6, <1>7

LEMMA AcceptStep ==
    ASSUME Inv, NEW s \in Sofis, NEW o, NEW rc, Accept(s, o, rc)
    PROVE  Inv'
<1> USE DEF Inv
<1> DEFINE streams == [phase EXCEPT ![s] = "connecting"]
<1>1. /\ state = "ACTIVE" /\ fsm = "ACTIVE" /\ phase[s] = "none" /\ NewSofiOffset(o)
      /\ offset' = [offset EXCEPT ![s] = o] /\ Outcome(rc, {}) /\ read' = FALSE
  BY DEF Accept
<1>2. peps - 1 = 0
  BY <1>1 DEF Passive, ListensWhileActive
<1>3. streams \in Streams
  BY DEF TypeOK, Streams, Phases
<1>4. StartAccepting(rc, "FREED", 0, streams)
  BY <1>2 DEF Accept
<1>5. /\ StillListed(streams) /\ worker' \in BOOLEAN
      /\ \/ Listening(0, streams)
         \/ Stopping(1, streams)
         \/ /\ Aborting(PepAfter(rc, "FREED"), OpenAfter(rc, 0), streams)
            /\ rc \in {"PEP", "QUEUE", "BIND"}
  BY <1>3, <1>4, StartAcceptingResult
<1>6. /\ o \in Nat /\ sofi_offsets_size' \in Nat
      /\ sofi_offsets' \subseteq 0 .. sofi_offsets_size' - 1
      /\ sofi_offsets_size' >= sofi_offsets_size
      /\ sofi_offsets_size' = sofi_offsets_size =>
            o \notin sofi_offsets /\ sofi_offsets' = sofi_offsets \cup {o}
  BY <1>1, NewOffsetResult
<1>7. TypeOK'
  <2>1. offset' \in [Sofis -> Nat] /\ read' \in BOOLEAN
    BY <1>1, <1>6 DEF TypeOK
  <2> HIDE DEF streams
  <2> QED BY <1>1, <1>5, <1>6, <2>1, OpenedTypes
<1>8. Table'
  <2>1. sofis' = sofis \cup {s} /\ s \notin sofis
    BY <1>1, <1>5 DEF StillListed, Streams, sofis, TypeOK
  <2>2. /\ offset'[s] = o
        /\ \A t \in sofis : offset'[t] = offset[t]
    BY <1>1, <2>1 DEF TypeOK, sofis
  <2>3. sofi_offsets_size' >= offset_slots
    BY <1>6 DEF Table, TypeOK
  <2>4. CASE sofi_offsets_size' = offset_slots
    <3>1. sofi_offsets_size = offset_slots /\ sofi_offsets_size' = sofi_offsets_size
      BY <1>6, <2>4 DEF Table, TypeOK
    <3> QED BY <1>6, <2>1, <2>2, <2>3, <3>1 DEF Table
  <2> QED BY <2>3, <2>4 DEF Table
<1> QED BY <1>1, <1>5, <1>7, <1>8, OpenedPassive, OpenedKnown

LEMMA RejectStep ==
    ASSUME Inv, NEW o, NEW rc, Reject(o, rc)
    PROVE  Inv'
<1> USE DEF Inv
<1>1. /\ state = "ACTIVE" /\ fsm = "ACTIVE" /\ MayFail("ACCEPT") /\ NewSofiOffset(o)
      /\ Outcome(rc, {"ACCEPT"}) /\ read' = FALSE /\ UNCHANGED offset
  BY DEF Reject
<1>2. peps - 1 = 0
  BY <1>1 DEF Passive, ListensWhileActive
<1>3. phase \in Streams
  BY DEF TypeOK, Streams
<1>4. StartAccepting(rc, "FREED", 0, phase)
  BY <1>2 DEF Reject
<1>5. /\ StillListed(phase) /\ worker' \in BOOLEAN
      /\ \/ Listening(0, phase)
         \/ Stopping(1, phase)
         \/ /\ Aborting(PepAfter(rc, "FREED"), OpenAfter(rc, 0), phase)
            /\ rc \in {"PEP", "QUEUE", "BIND"}
  BY <1>3, <1>4, StartAcceptingResult
<1>6. /\ o \in Nat /\ sofi_offsets_size' \in Nat
      /\ sofi_offsets' \subseteq 0 .. sofi_offsets_size' - 1
      /\ sofi_offsets_size' >= sofi_offsets_size
      /\ sofi_offsets_size' = sofi_offsets_size =>
            o \notin sofi_offsets /\ sofi_offsets' = sofi_offsets \cup {o}
  BY <1>1, NewOffsetResult
<1>7. TypeOK'
  <2>1. {"ACCEPT"} \in SUBSET Faults
    BY <1>1 DEF MayFail
  <2>2. offset' \in [Sofis -> Nat] /\ read' \in BOOLEAN
    BY <1>1 DEF TypeOK
  <2> QED BY <1>1, <1>5, <1>6, <2>1, <2>2, OpenedTypes
<1>8. Table'
  <2>1. sofis' = sofis
    BY <1>5 DEF StillListed, sofis
  <2> QED BY <1>1, <1>6, <2>1 DEF Table, TypeOK
<1> QED BY <1>1, <1>5, <1>7, <1>8, OpenedPassive, OpenedKnown

LEMMA AbortStep ==
    ASSUME Inv, NEW o, RejectFreed(o) \/ InitFails(o)
    PROVE  Inv'
<1> USE DEF Inv
<1>1. PICK call \in {"INIT", "ACCEPT"} :
        /\ MayFail(call) /\ NewSofiOffset(o) /\ failed' = failed \cup {call}
        /\ fsm' = "ABORTED" /\ read' = FALSE
        /\ UNCHANGED <<state, pepVars, queued, offset, phase>>
  BY DEF RejectFreed, InitFails
<1>2. /\ o \in Nat /\ sofi_offsets_size' \in Nat
      /\ sofi_offsets' \subseteq 0 .. sofi_offsets_size' - 1
      /\ sofi_offsets_size' >= sofi_offsets_size
      /\ sofi_offsets_size' = sofi_offsets_size =>
            o \notin sofi_offsets /\ sofi_offsets' = sofi_offsets \cup {o}
  BY <1>1, NewOffsetResult
<1>3. TypeOK'
  BY <1>1, <1>2 DEF TypeOK, MayFail, pepVars
<1>4. Table'
  BY <1>1, <1>2 DEF Table, TypeOK, sofis
<1>5. Passive' /\ Known'
  BY <1>1 DEF Passive, ListensWhileActive, Known, FailsAsKnown, Fatal
<1> QED BY <1>3, <1>4, <1>5

LEMMA PassiveErrorStep ==
    ASSUME Inv, PassiveError
    PROVE  Inv'
<1> USE DEF Inv
<1>1. /\ MayFail("EQ") /\ failed' = failed \cup {"EQ"} /\ fsm' = "ABORTED"
      /\ UNCHANGED <<state, pepVars, queued, read, tableVars, phase>>
  BY DEF PassiveError
<1>2. TypeOK'
  BY <1>1 DEF TypeOK, MayFail, pepVars, tableVars
<1>3. Table'
  BY <1>1, TableKept DEF TypeOK, Streams
<1>4. Passive' /\ Known'
  BY <1>1 DEF Passive, ListensWhileActive, Known, FailsAsKnown
<1> QED BY <1>2, <1>3, <1>4

LEMMA SofiStoppedStep ==
    ASSUME Inv, NEW s \in Sofis, SofiStopped(s)
    PROVE  Inv'
<1> USE DEF Inv
<1>1. /\ fsm \in {"ACTIVE", "STOPPING"} /\ phase[s] = "stopped"
      /\ sofi_offsets' = sofi_offsets \ {offset[s]}
      /\ phase' = [phase EXCEPT ![s] = "none"] /\ offset' = [offset EXCEPT ![s] = 0]
      /\ fsm' = IF fsm = "STOPPING" /\ NobodyLeft(phase') THEN "STOPPED" ELSE fsm
      /\ UNCHANGED <<sofi_offsets_size, state, pepVars, queued, read, failed>>
  BY DEF SofiStopped, ReapSofi
<1>2. \/ fsm' = fsm
      \/ fsm = "STOPPING" /\ fsm' = "STOPPED" /\ NobodyLeft(phase')
  BY <1>1
<1>3. TypeOK'
  BY <1>1, <1>2 DEF TypeOK, pepVars
<1>4. Table'
  <2>1. sofis' \subseteq sofis \ {s} /\ s \in sofis
    BY <1>1 DEF sofis, TypeOK
  <2>2. \A t \in sofis' : offset'[t] = offset[t]
    BY <1>1, <2>1 DEF TypeOK, sofis
  <2> QED BY <1>1, <2>1, <2>2 DEF Table
<1>5. Passive'
  BY <1>1, <1>2 DEF Passive, ListensWhileActive, pepVars
<1>6. Known'
  BY <1>1, <1>2 DEF Known, FailsAsKnown, pepVars
<1> QED BY <1>3, <1>4, <1>5, <1>6

LEMMA StopStep ==
    ASSUME Inv, Stop
    PROVE  Inv'
<1> USE DEF Inv
<1>1. fsm = "ACTIVE" /\ StopAction(pep, peps, phase) /\ UNCHANGED <<worker, read, tableVars, failed>>
  BY DEF Stop
<1>2. phase \in Streams
  BY DEF TypeOK, Streams
<1>3. /\ StillListed(phase)
      /\ \/ Stopping(peps, phase) /\ pep \in {"OPEN", "LISTENING"}
         \/ Aborting(pep, peps, phase)
  BY <1>1, <1>2, StopActionResult
<1>4. TypeOK'
  <2>1. phase' \in [Sofis -> Phases \cup {"none"}]
    BY <1>3 DEF StillListed, Streams
  <2>2. /\ state' = "STOPPING" /\ fsm' \in {"STOPPING", "STOPPED", "ABORTED"}
        /\ pep' \in {"NULL", "FREED"}
    BY <1>3 DEF Stopping, Aborting
  <2>3. peps' \in Int
    BY <1>3 DEF Stopping, Aborting, TypeOK
  <2>4. queued' \in BOOLEAN
    BY <1>3 DEF Stopping, Aborting, TypeOK
  <2>5. worker' \in BOOLEAN /\ read' \in BOOLEAN
    BY <1>1 DEF TypeOK
  <2> QED BY <1>1, <2>1, <2>2, <2>3, <2>4, <2>5 DEF TypeOK, tableVars
<1>5. Table'
  BY <1>1, <1>3, TableKept DEF StillListed
<1>6. CASE Stopping(peps, phase) /\ pep \in {"OPEN", "LISTENING"}
  <2>1. peps - 1 = 0
    BY <1>1, <1>6 DEF Passive
  <2>2. Passive'
    BY <1>6, <2>1 DEF Stopping, Passive, ListensWhileActive
  <2>3. Known'
    BY <1>6 DEF Stopping, Known, FailsAsKnown
  <2> QED BY <1>4, <1>5, <2>2, <2>3
<1>7. CASE Aborting(pep, peps, phase)
  <2>1. Passive'
    BY <1>7 DEF Aborting, Passive, ListensWhileActive
  <2>2. Known'
    BY <1>1, <1>7 DEF Aborting, Known, FailsAsKnown, Fatal
  <2> QED BY <1>4, <1>5, <2>1, <2>2
<1> QED BY <1>3, <1>6, <1>7

LEMMA QuietStep ==
    ASSUME Inv,
           \/ RequestArrives \/ RequestRead \/ LateRequest \/ LateEvent \/ Deadlock
           \/ Destroy
           \/ \E s \in Sofis, p \in Phases : SofiAdvances(s, p)
           \/ UNCHANGED vars
    PROVE  Inv'
<1> USE DEF Inv
<1>1. CASE RequestArrives \/ RequestRead \/ UNCHANGED vars
  <2>1. /\ UNCHANGED <<state, fsm, pepVars, tableVars, phase, failed>>
        /\ read' \in BOOLEAN /\ queued' \in BOOLEAN
        /\ fsm # "ACTIVE" => UNCHANGED read
    BY <1>1 DEF RequestArrives, RequestRead, vars, TypeOK
  <2>2. TypeOK'
    BY <2>1 DEF TypeOK, pepVars, tableVars
  <2>3. Table'
    BY <2>1, TableKept DEF TypeOK, Streams
  <2>4. Passive' /\ Known'
    BY <2>1 DEF Passive, ListensWhileActive, Known, FailsAsKnown, pepVars, NobodyLeft
  <2> QED BY <2>2, <2>3, <2>4
<1>2. CASE LateRequest
  <2>1. TypeOK'
    BY <1>2 DEF LateRequest, TypeOK, pepVars, tableVars
  <2>2. Table'
    BY <1>2, TableKept DEF LateRequest, TypeOK, Streams
  <2>3. Passive' /\ Known'
    BY <1>2 DEF LateRequest, Passive, ListensWhileActive, Known, FailsAsKnown
  <2> QED BY <2>1, <2>2, <2>3
<1>5. CASE LateEvent
  <2>1. /\ MayFail("LATE") /\ failed' = failed \cup {"LATE"} /\ fsm' = "BAD_STATE"
        /\ UNCHANGED <<state, pepVars, queued, read, tableVars, phase>>
    BY <1>5 DEF LateEvent
  <2>2. TypeOK'
    BY <2>1 DEF MayFail, TypeOK, pepVars, tableVars
  <2>3. Table'
    BY <2>1, TableKept DEF TypeOK, Streams
  <2>4. Passive' /\ Known'
    BY <2>1 DEF Passive, ListensWhileActive, Known, FailsAsKnown
  <2> QED BY <2>2, <2>3, <2>4
<1>6. CASE Deadlock
  <2>1. fsm' = "DEADLOCKED" /\ UNCHANGED <<state, pepVars, queued, read, tableVars, phase, failed>>
    BY <1>6 DEF Deadlock
  <2>2. TypeOK'
    BY <2>1 DEF TypeOK, pepVars, tableVars
  <2>3. Table'
    BY <2>1, TableKept DEF TypeOK, Streams
  <2>4. Passive' /\ Known'
    BY <2>1 DEF Passive, ListensWhileActive, Known, FailsAsKnown
  <2> QED BY <2>2, <2>3, <2>4
<1>3. CASE Destroy
  <2>1. sofis = {} /\ fsm' = "DESTROYED"
    BY <1>3 DEF Destroy, Known, NobodyLeft, sofis
  <2>2. TypeOK'
    BY <1>3, <2>1 DEF Destroy, TypeOK, tableVars
  <2>3. Table'
    BY <1>3, TableKept DEF Destroy, TypeOK, Streams
  <2>4. Passive' /\ Known'
    BY <1>3, <2>1 DEF Destroy, Passive, ListensWhileActive, Known, FailsAsKnown, NobodyLeft
  <2> QED BY <2>2, <2>3, <2>4
<1>4. CASE \E s \in Sofis, p \in Phases : SofiAdvances(s, p)
  <2>1. PICK s \in Sofis, p \in Phases : SofiAdvances(s, p)
    BY <1>4
  <2>2. phase' \in Streams /\ \A t \in Sofis : phase'[t] = "none" <=> phase[t] = "none"
    BY <2>1 DEF SofiAdvances, TypeOK, Streams, Phases
  <2>3. TypeOK'
    BY <2>1, <2>2 DEF SofiAdvances, TypeOK, Streams, pepVars, tableVars
  <2>4. Table'
    BY <2>1, <2>2, TableKept DEF SofiAdvances
  <2>5. Passive' /\ Known'
    BY <2>1, <2>2 DEF SofiAdvances, Passive, ListensWhileActive, Known, FailsAsKnown, pepVars, NobodyLeft
  <2> QED BY <2>3, <2>4, <2>5
<1> QED BY <1>1, <1>2, <1>3, <1>4, <1>5, <1>6

LEMMA StepInv ==
    ASSUME Inv, [Next]_vars
    PROVE  Inv'
<1>1. ASSUME NEW rc \in OpenFaults \cup {"OK"}, Start(rc) PROVE Inv'
  BY <1>1, StartStep
<1>2. ASSUME NEW rc \in OpenFaults \cup {"OK"}, StartIgnored(rc) PROVE Inv'
  BY <1>2, StartIgnoredStep
<1>3. ASSUME NEW rc \in OpenFaults \cup {"OK"}, NEW s \in Sofis, NEW o \in Offsets, Accept(s, o, rc)
      PROVE  Inv'
  BY <1>3, AcceptStep
<1>4. ASSUME NEW rc \in OpenFaults \cup {"OK"}, NEW o \in Offsets, Reject(o, rc) PROVE Inv'
  BY <1>4, RejectStep
<1>5. ASSUME NEW o \in Offsets, RejectFreed(o) \/ InitFails(o) PROVE Inv'
  BY <1>5, AbortStep
<1>6. ASSUME NEW s \in Sofis, SofiStopped(s) PROVE Inv'
  BY <1>6, SofiStoppedStep
<1> QED BY <1>1, <1>2, <1>3, <1>4, <1>5, <1>6, PassiveErrorStep, StopStep, QuietStep DEF Next

LEMMA InvKeys == Inv => KeysExclusive
<1> SUFFICES ASSUME Inv, sofi_offsets_size = offset_slots,
                    NEW s \in sofis, NEW t \in sofis, s # t
             PROVE  Keys(offset[s]) \cap Keys(offset[t]) = {}
  BY DEF KeysExclusive
<1>1. offset[s] \in Nat /\ offset[t] \in Nat /\ offset[s] # offset[t]
  BY DEF Inv, Table, TypeOK, sofis
<1> QED BY <1>1, PagesDisjoint

LEMMA InvOthers == Inv => TypeOK /\ ListensWhileActive /\ FailsAsKnown
  BY DEF Inv, Passive, Known

-----------------------------------------------------------------------------
(* The bound endpoint keeps its types and the inductive invariant.          *)
THEOREM Invariance == Spec => []Inv
  BY InitInv, StepInv, PTL DEF Spec

(* Its type invariant.                                                      *)
THEOREM TypeCorrect == Spec => []TypeOK
  BY Invariance, InvOthers, PTL

(* No two streaming endpoints register memory under one key while the table *)
(* of offsets has not grown (bofi.c:109-144).                               *)
THEOREM KeysAreExclusive == Spec => []KeysExclusive
  BY Invariance, InvKeys, PTL

(* An active endpoint listens with exactly one passive endpoint (bofi.c:    *)
(* 150-182, 459-480).                                                       *)
THEOREM ActiveListens == Spec => []ListensWhileActive
  BY Invariance, InvOthers, PTL

(* Nothing brings the process down but one of five calls that failed, an    *)
(* unexpected event of the passive endpoint (bofi.c:490-491), a request     *)
(* read before the stop (bofi.c:339) and an event of a stream or of the     *)
(* passive endpoint that the poller held when it stopped (ofiw.c:287-289).  *)
THEOREM OnlyKnownFailures == Spec => []FailsAsKnown
  BY Invariance, InvOthers, PTL
=============================================================================
