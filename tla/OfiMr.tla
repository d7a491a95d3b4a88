------------------------------- MODULE OfiMr --------------------------------
(***************************************************************************)
(* The memory-region manager (ofimr.c): banks that cache registrations of  *)
(* message memory with libfabric, and slabs small data is copied into.     *)
(* nn_sofi_egress_post_buffers describes every message it sends and keeps  *)
(* the handle until the completion.                                        *)
(*                                                                         *)
(* Every call comes with the nanomsg context locked, so a call is a step;  *)
(* the mutexes matter only where ofi_mr_mark locks one twice.  A range of  *)
(* memory is a record of base and len, NULL is 0.                          *)
(***************************************************************************)
EXTENDS Integers, FiniteSets, Sequences

CONSTANTS
    bank_count, slab_count, slab_size,
    Handles,    \* contexts that may hold a handle at the same time
    Messages,   \* the scatter-gather arrays sent: one range, or header and body
    Marks,      \* the ranges ofi_mr_mark and ofi_mr_invalidate are called with
    Faults,     \* what libfabric may refuse: "REG" (fi_mr_reg), "CLOSE" (fi_close)
    MaxAge      \* bound: registrations made, the age counter of the code

ASSUME MrAssumption ==
    /\ bank_count \in Nat \ {0} /\ slab_count \in Nat /\ slab_size \in Nat /\ MaxAge \in Nat
    /\ Messages \cup {<<r>> : r \in Marks} \subseteq Seq([base : Nat, len : Nat])
    /\ \A m \in Messages : Len(m) \in {1, 2} /\ (Len(m) = 2 => m[1] # m[2] \/ m[1].len = 0)
    /\ Faults \subseteq {"REG", "CLOSE"}

VARIABLES
    base, len, ref, bank_age, nonvolatile, registered,  \* fields of struct ofi_mr_bank
    mr,         \* what libfabric has registered for the bank
    slabs,      \* the slabs whose flag is OFI_MR_SLAB_INUSE
    age,        \* the manager's counter
    handle,     \* the ofi_mr_context of each context, or None
    state       \* "ready"; "hung" in a mutex locked twice; "terminated"; "aborted"

vars == <<base, len, ref, bank_age, nonvolatile, registered, mr, slabs, age, handle, state>>

Banks == 1 .. bank_count
Slabs == 1 .. slab_count
NULL == 0
None == [banks |-> {}, slabs |-> {}, live |-> FALSE]
Empty == [base |-> NULL, len |-> 0]

Init ==
    /\ base = [b \in Banks |-> NULL] /\ len = [b \in Banks |-> 0]
    /\ ref = [b \in Banks |-> 0] /\ bank_age = [b \in Banks |-> 0]
    /\ nonvolatile = {} /\ registered = {}
    /\ mr = [b \in Banks |-> Empty]
    /\ slabs = {} /\ age = 0
    /\ handle = [h \in Handles |-> None]
    /\ state = "ready"

(***************************************************************************)
(* The helpers work on a record of everything a call changes: `ok` says    *)
(* whether it has failed, `banks` and `slabs` what the handle has so far.  *)
(***************************************************************************)
Manager ==
    [base |-> base, len |-> len, ref |-> ref, bank_age |-> bank_age, mr |-> mr,
     registered |-> registered, inuse |-> slabs, age |-> age,
     ok |-> TRUE, banks |-> {}, slabs |-> {}]

SetManager(s) ==
    /\ base' = s.base /\ len' = s.len /\ ref' = s.ref /\ bank_age' = s.bank_age
    /\ mr' = s.mr /\ registered' = s.registered /\ slabs' = s.inuse /\ age' = s.age

Covers(range, iov) == range.base <= iov.base /\ iov.base + iov.len <= range.base + range.len

\* The first bank whose range contains the data.
IsHitAtStart(s, b, iov) ==
    /\ s.base[b] <= iov.base /\ iov.base <= s.base[b] + s.len[b]
    /\ \A c \in 1 .. b - 1 : ~(s.base[c] <= iov.base /\ iov.base <= s.base[c] + s.len[c])

IsHit(s, b, iov) ==
    /\ Covers([base |-> s.base[b], len |-> s.len[b]], iov)
    /\ \A c \in 1 .. b - 1 : ~Covers([base |-> s.base[c], len |-> s.len[c]], iov)

\* The bank to use again: of those nobody holds the oldest, the first of those.
IgnoreReferences(s) == Banks \ nonvolatile

Reusable(s) == {b \in Banks \ nonvolatile : s.ref[b] = 0}

IsOldest(s, b) ==
    /\ b \in Reusable(s)
    /\ \A c \in Reusable(s) : s.bank_age[b] < s.bank_age[c] \/ (s.bank_age[b] = s.bank_age[c] /\ b <= c)

\* ofi_mr_register after the bank was given its new range: a registration the
\* bank still has is closed first, and closing resets the range.
Register(s, b, fault) ==
    LET closed == IF b \in s.registered
                  THEN [s EXCEPT !.base[b] = NULL, !.len[b] = 0, !.registered = @ \ {b}]
                  ELSE s
    IN  CASE fault = "CLOSE" /\ b \in s.registered -> [s EXCEPT !.ok = FALSE]
          [] fault = "REG" -> [closed EXCEPT !.ok = FALSE]
          [] OTHER -> [closed EXCEPT !.mr[b] = [base |-> closed.base[b], len |-> closed.len[b]],
                                     !.registered = @ \cup {b},
                                     !.bank_age[b] = s.age + 1, !.age = s.age + 1]

Reference(s, b, iov) ==
    IF s.ok THEN [s EXCEPT !.ref[b] = @ + 1, !.banks = @ \cup {[bank |-> b, iov |-> iov]}] ELSE s

\* ofi_mr_tryslab
CopyToSlab(s, iov) ==
    LET i == CHOOSE x \in Slabs \ s.inuse : \A y \in Slabs \ s.inuse : x <= y
    IN  [s EXCEPT !.inuse = @ \cup {i}, !.slabs = @ \cup {i}]

\* One turn of the loop of ofi_mr_describe.
Claim(s, iov, fault) ==
    IF ~s.ok \/ iov.len = 0 THEN s
    ELSE IF iov.len <= slab_size /\ s.inuse # Slabs THEN CopyToSlab(s, iov)
    ELSE IF \E b \in Banks : IsHit(s, b, iov)
         THEN Reference(s, CHOOSE b \in Banks : IsHit(s, b, iov), iov)
    ELSE IF Reusable(s) # {}
         THEN LET b == CHOOSE x \in Banks : IsOldest(s, x)
              IN  Reference(Register([s EXCEPT !.base[b] = iov.base, !.len[b] = iov.len], b, fault),
                            b, iov)
    ELSE [s EXCEPT !.ok = FALSE]

\* All of them; each part of the message may be refused by itself.
ClaimAll(s, m, faults) ==
    IF Len(m) = 1 THEN Claim(s, m[1], faults[1])
    ELSE Claim(Claim(s, m[1], faults[1]), m[2], faults[2])

\* What a handle gives back: references and slabs.
UnclaimKeepsSlabs(s, banks, held) ==
    [s EXCEPT !.ref = [b \in Banks |-> @[b] - Cardinality({r \in banks : r.bank = b})]]

UnclaimKeepsBanks(s, banks, held) == [s EXCEPT !.inuse = @ \ held]

Unclaim(s, banks, held) ==
    [s EXCEPT !.ref = [b \in Banks |-> @[b] - Cardinality({r \in banks : r.bank = b})],
              !.inuse = @ \ held]

(***************************************************************************)
(* The calls.                                                              *)
(***************************************************************************)

\* ofi_mr_describe; on an error what the message had claimed is given back.
Describe(h, m, faults) ==
    LET s == ClaimAll(Manager, m, faults)
    IN  /\ state = "ready" /\ ~handle[h].live /\ age + Len(m) <= MaxAge
        /\ IF s.ok
           THEN /\ SetManager(s)
                /\ handle' = [handle EXCEPT ![h] =
                                 [banks |-> s.banks, slabs |-> s.slabs, live |-> TRUE]]
           ELSE SetManager(Unclaim(s, s.banks, s.slabs)) /\ UNCHANGED handle
        /\ UNCHANGED <<nonvolatile, state>>

\* ofi_mr_release
Release(h) ==
    /\ state = "ready" /\ handle[h].live
    /\ SetManager(Unclaim(Manager, handle[h].banks, handle[h].slabs))
    /\ handle' = [handle EXCEPT ![h] = None]
    /\ UNCHANGED <<nonvolatile, state>>

\* ofi_mr_mark takes the first bank nobody has used, registers it, and then
\* locks its mutex a second time instead of unlocking it.
Mark(range, fault) ==
    LET unused == {b \in Banks : ref[b] = 0 /\ b \notin registered \cup nonvolatile}
        b == CHOOSE x \in unused : \A y \in unused : x <= y
    IN  /\ state = "ready" /\ unused # {} /\ age < MaxAge
        /\ SetManager(Register([Manager EXCEPT !.base[b] = range.base, !.len[b] = range.len],
                               b, fault))
        /\ nonvolatile' = nonvolatile \cup {b}
        /\ state' = "hung"
        /\ UNCHANGED handle

\* ofi_mr_invalidate closes the registrations the range touches, in order, and
\* returns -EBUSY at the first one in use.  Ends are inclusive.  It does not
\* look at what fi_close returns.
Touches(b, range) ==
    LET first == range.base
        end == range.base + range.len
        bank_end == base[b] + len[b]
    IN  \/ base[b] <= first /\ first <= bank_end
        \/ base[b] <= end /\ end <= bank_end
        \/ first <= base[b] /\ base[b] <= end
        \/ first <= bank_end /\ bank_end <= end

ClosedBy(range) ==
    {b \in Banks : Touches(b, range) /\ \A c \in 1 .. b : Touches(c, range) => ref[c] = 0}

Invalidate(range, fault) ==
    LET gone   == ClosedBy(range)
        closed == IF fault = "CLOSE" THEN {} ELSE gone \cap registered
    IN  /\ state = "ready"
        /\ registered' = registered \ closed
        /\ nonvolatile' = nonvolatile \ gone
        /\ base' = [b \in Banks |-> IF b \in closed THEN NULL ELSE base[b]]
        /\ len' = [b \in Banks |-> IF b \in closed THEN 0 ELSE len[b]]
        /\ UNCHANGED <<ref, bank_age, mr, slabs, age, handle, state>>

\* ofi_mr_term, from nn_sofi_term: the endpoint has stopped, so every message
\* has been given back.  It asserts that no bank is in use, and closes the
\* registrations without looking at what fi_close returns.
Term(fault) ==
    LET closed == IF fault = "CLOSE" THEN {} ELSE registered
    IN  /\ state = "ready" /\ \A h \in Handles : ~handle[h].live
        /\ IF \E b \in Banks : ref[b] # 0
           THEN state' = "aborted" /\ UNCHANGED <<base, len, registered>>
           ELSE /\ state' = "terminated"
                /\ registered' = registered \ closed
                /\ base' = [b \in Banks |-> IF b \in closed THEN NULL ELSE base[b]]
                /\ len' = [b \in Banks |-> IF b \in closed THEN 0 ELSE len[b]]
        /\ UNCHANGED <<ref, bank_age, nonvolatile, mr, slabs, age, handle>>

Next ==
    \/ \E h \in Handles, m \in Messages, faults \in [{1, 2} -> Faults \cup {"NONE"}] :
          Describe(h, m, faults)
    \/ \E h \in Handles : Release(h)
    \/ \E range \in Marks, fault \in Faults \cup {"NONE"} : Mark(range, fault)
    \/ \E range \in Marks, fault \in Faults \cup {"NONE"} : Invalidate(range, fault)
    \/ \E fault \in Faults \cup {"NONE"} : Term(fault)

Spec == Init /\ [][Next]_vars

(***************************************************************************)
(* Properties.                                                             *)
(***************************************************************************)

References(b) ==
    UNION {{<<h, r>> : r \in {x \in handle[h].banks : x.bank = b}} : h \in Handles}

\* The fields hold what the structures may hold.
TypeOK ==
    /\ base \in [Banks -> Nat] /\ len \in [Banks -> Nat] /\ ref \in [Banks -> Nat]
    /\ bank_age \in [Banks -> 0 .. MaxAge] /\ age \in 0 .. MaxAge
    /\ nonvolatile \subseteq Banks /\ registered \subseteq Banks
    /\ mr \in [Banks -> [base : Nat, len : Nat]]
    /\ slabs \subseteq Slabs /\ state \in {"ready", "hung", "terminated", "aborted"}
    /\ \A h \in Handles : \A r \in handle[h].banks : r.bank \in Banks

\* A bank's counter is exactly the number of times the live handles refer to
\* it, whatever succeeded, failed half way or was given back, in any order:
\* the assertion of ofi_mr_term that nothing is left (ofimr.c:421) holds.
RefCountsExact ==
    /\ \A b \in Banks : ref[b] = Cardinality(References(b))
    /\ state # "aborted"

\* Two messages in transit never share a slab, and a slab in use belongs to
\* one: none is leaked by a message that failed half way.
SlabsExclusive ==
    /\ slabs = UNION {handle[h].slabs : h \in Handles}
    /\ \A g, h \in Handles : g # h => handle[g].slabs \cap handle[h].slabs = {}

\* As long as a handle refers to a bank, its registration stays: it is not
\* reused, invalidated or registered again under a send in transit.
RegistrationPinned ==
    [][\A h \in Handles : handle'[h] = handle[h] =>
          \A r \in handle[h].banks :
              mr'[r.bank] = mr[r.bank] /\ (r.bank \in registered => r.bank \in registered')]_vars

\* A handle uses a bank that is registered as it says only for data the
\* registration covers: a cached bank is never taken for more than it holds.
\* (A bank whose range and registration disagree is what DescriptorCovers
\* finds.)
DescriptorsWithinRange ==
    \A h \in Handles : \A r \in handle[h].banks :
        LET b == r.bank
        IN  b \in registered /\ mr[b] = [base |-> base[b], len |-> len[b]] /\ mr[b] # Empty
              => Covers(mr[b], r.iov)

\* The descriptor given to libfabric is of a registration that covers the
\* data: "If nothing is available, register the new memory regions"
\* (ofimr.h:218).  True as long as fi_mr_reg refuses nothing and no bank has
\* to be used again.
DescriptorCovers ==
    \A h \in Handles : \A r \in handle[h].banks :
        r.bank \in registered /\ Covers(mr[r.bank], r.iov)
=============================================================================
