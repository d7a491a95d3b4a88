---------------------------- MODULE OfiMrProofs -----------------------------
(***************************************************************************)
(* The manager keeps exact account of what its handles use: no bank is     *)
(* registered again under a send, no slab is shared, and ofi_mr_term finds *)
(* nothing in use.                                                         *)
(*                                                                         *)
(* What a describe changes is built up by Claim, which works on a record;  *)
(* Account says what that record and the manager's variables have to do    *)
(* with each other, and ClaimAccount that every turn of the loop keeps it. *)
(* Last, what it takes for a descriptor not to cover its data.             *)
(***************************************************************************)
EXTENDS OfiMr, FiniteSetTheorems, WellFoundedInduction, TLAPS

Ranges == [base : Nat, len : Nat]
Claims == [bank : Banks, iov : Ranges]

Managers ==
    [base : [Banks -> Nat], len : [Banks -> Nat], ref : [Banks -> Nat],
     bank_age : [Banks -> 0 .. MaxAge], mr : [Banks -> Ranges],
     registered : SUBSET Banks, inuse : SUBSET Slabs, age : 0 .. MaxAge,
     ok : BOOLEAN, banks : SUBSET Claims, slabs : SUBSET Slabs]

\* The references of a set to one bank.
To(b, banks) == {r \in banks : r.bank = b}

(***************************************************************************)
(* Facts about numbers and sets.                                           *)
(***************************************************************************)

\* A set of natural numbers has a least element.
LEMMA LeastNumber ==
    ASSUME NEW T \in SUBSET Nat, T # {}
    PROVE  \E x \in T : \A y \in T : x <= y
<1>1. IsWellFoundedOn(OpToRel(<, Nat), Nat)
  BY NatLessThanWellFounded
<1>2. \E x \in T : \A y \in T : ~(<<y, x>> \in OpToRel(<, Nat))
  BY <1>1, WFMin
<1>3. PICK x \in T : \A y \in T : ~(<<y, x>> \in OpToRel(<, Nat))
  BY <1>2
<1>4. \A y \in T : ~(y < x)
  BY <1>3 DEF OpToRel
<1>5. \A y \in T : x <= y
  BY <1>4
<1> QED BY <1>5

\* Of the banks that may be used again one is the oldest.
LEMMA OldestExists ==
    ASSUME NEW s \in Managers, Reusable(s) # {}
    PROVE  \E b \in Banks : IsOldest(s, b)
<1> DEFINE Ages == {s.bank_age[b] : b \in Reusable(s)}
<1>1. Reusable(s) \subseteq Banks /\ Banks \subseteq Nat
  BY MrAssumption DEF Reusable, Banks
<1>2. Ages \subseteq Nat /\ Ages # {}
  BY <1>1, MrAssumption DEF Managers
<1>3. PICK a \in Ages : \A x \in Ages : a <= x
  BY <1>2, LeastNumber
<1> DEFINE First == {b \in Reusable(s) : s.bank_age[b] = a}
<1>4. First \subseteq Nat /\ First # {}
  BY <1>1, <1>3
<1>5. PICK b \in First : \A c \in First : b <= c
  BY <1>4, LeastNumber
<1>6. \A c \in Reusable(s) : a <= s.bank_age[c] /\ a \in Nat /\ s.bank_age[c] \in Nat
  BY <1>2, <1>3
<1>7. \A c \in Reusable(s) : a < s.bank_age[c] \/ (a = s.bank_age[c] /\ b <= c)
  BY <1>5, <1>6
<1> QED BY <1>1, <1>5, <1>7 DEF IsOldest

\* As many references as there are pairs of a handle and one of them.
LEMMA Tagged ==
    ASSUME NEW h, NEW R, IsFiniteSet(R)
    PROVE  /\ IsFiniteSet({<<h, r>> : r \in R})
           /\ Cardinality({<<h, r>> : r \in R}) = Cardinality(R)
<1> DEFINE T == {<<h, r>> : r \in R}
           f == [r \in R |-> <<h, r>>]
<1>1. f \in Bijection(R, T)
  <2>1. f \in [R -> T] /\ \A t \in T : \E r \in R : f[r] = t
    OBVIOUS
  <2>2. \A r, q \in R : f[r] = f[q] => r = q
    OBVIOUS
  <2> QED BY <2>1, <2>2 DEF Bijection, Injection, Surjection, IsInjective
<1>2. ExistsBijection(R, T)
  BY <1>1 DEF ExistsBijection
<1> QED BY <1>2, FS_Bijection

(***************************************************************************)
(* One turn of the loop of ofi_mr_describe.                                *)
(***************************************************************************)

\* The bank's range holds the data, or has been reset.
Fits(bases, lens, r) ==
    \/ Covers([base |-> bases[r.bank], len |-> lens[r.bank]], r.iov)
    \/ bases[r.bank] = NULL /\ lens[r.bank] = 0

\* What s has claimed so far is what it has more than the manager, and the
\* banks that messages in transit use are as they were.
Account(s) ==
    /\ s \in Managers /\ IsFiniteSet(s.banks)
    /\ \A b \in Banks : s.ref[b] = ref[b] + Cardinality(To(b, s.banks))
    /\ s.inuse = slabs \cup s.slabs /\ s.slabs \cap slabs = {}
    /\ \A b \in Banks : ref[b] > 0 =>
          /\ s.mr[b] = mr[b] /\ s.base[b] = base[b] /\ s.len[b] = len[b]
          /\ b \in registered => b \in s.registered
    /\ \A r \in s.banks : Fits(s.base, s.len, r)

LEMMA FiniteTo ==
    ASSUME NEW b, NEW banks, IsFiniteSet(banks)
    PROVE  /\ IsFiniteSet(To(b, banks)) /\ Cardinality(To(b, banks)) \in Nat
           /\ Cardinality(To(b, banks)) = 0 <=> To(b, banks) = {}
<1>1. To(b, banks) \subseteq banks
  BY DEF To
<1> QED BY <1>1, FS_Subset, FS_CardinalityType, FS_EmptySet

LEMMA ReferenceAccount ==
    ASSUME TypeOK, NEW s, Account(s), NEW b \in Banks, NEW iov \in Ranges,
           \A r \in s.banks : r.iov # iov,
           s.ok => Fits(s.base, s.len, [bank |-> b, iov |-> iov])
    PROVE  /\ Account(Reference(s, b, iov)) /\ Reference(s, b, iov).age = s.age
           /\ \A r \in Reference(s, b, iov).banks : r \in s.banks \/ r.iov = iov
<1> DEFINE new == [bank |-> b, iov |-> iov]
           t   == [s EXCEPT !.ref[b] = @ + 1, !.banks = @ \cup {new}]
<1>1. CASE ~s.ok
  BY <1>1 DEF Reference
<1>2. CASE s.ok
  <2>1. Reference(s, b, iov) = t /\ new \in Claims /\ new \notin s.banks
    BY <1>2 DEF Reference, Claims
  <2>2. t \in Managers
    <3>1. s.ref \in [Banks -> Nat] /\ s.banks \in SUBSET Claims /\ s \in Managers
      BY DEF Account, Managers
    <3>2. [s.ref EXCEPT ![b] = s.ref[b] + 1] \in [Banks -> Nat]
      BY <3>1
    <3>3. s.banks \cup {new} \in SUBSET Claims
      BY <2>1, <3>1
    <3> QED BY <3>1, <3>2, <3>3 DEF Managers
  <2>3. /\ t.ref = [s.ref EXCEPT ![b] = @ + 1] /\ t.banks = s.banks \cup {new}
        /\ t.inuse = s.inuse /\ t.slabs = s.slabs /\ t.mr = s.mr /\ t.base = s.base
        /\ t.len = s.len /\ t.registered = s.registered /\ t.age = s.age
    BY DEF Account, Managers
  <2>4. IsFiniteSet(t.banks)
    BY <2>3, FS_AddElement DEF Account
  <2>5. ASSUME NEW c \in Banks
        PROVE  t.ref[c] = ref[c] + Cardinality(To(c, t.banks))
    <3>1. s.ref[c] = ref[c] + Cardinality(To(c, s.banks)) /\ ref[c] \in Nat
          /\ IsFiniteSet(To(c, s.banks)) /\ Cardinality(To(c, s.banks)) \in Nat
      BY FiniteTo DEF Account, TypeOK
    <3>2. CASE c = b
      <4>1. To(c, t.banks) = To(c, s.banks) \cup {new} /\ new \notin To(c, s.banks)
        BY <2>1, <2>3, <3>2 DEF To
      <4>2. Cardinality(To(c, t.banks)) = Cardinality(To(c, s.banks)) + 1
        BY <3>1, <4>1, FS_AddElement
      <4>3. t.ref[c] = s.ref[c] + 1
        BY <2>3, <3>2 DEF Account, Managers
      <4> QED BY <3>1, <4>2, <4>3
    <3>3. CASE c # b
      <4>1. To(c, t.banks) = To(c, s.banks)
        BY <2>3, <3>3 DEF To
      <4>2. t.ref[c] = s.ref[c]
        BY <2>3, <3>3 DEF Account, Managers
      <4> QED BY <3>1, <4>1, <4>2
    <3> QED BY <3>2, <3>3
  <2>6. \A r \in t.banks : Fits(t.base, t.len, r)
    BY <1>2, <2>3 DEF Account
  <2>7. Account(t)
    BY <2>2, <2>3, <2>4, <2>5, <2>6 DEF Account
  <2> QED BY <2>1, <2>3, <2>7
<1> QED BY <1>1, <1>2

\* Only a bank nobody refers to is registered anew.
LEMMA RegisterAccount ==
    ASSUME TypeOK, NEW s, Account(s), NEW b \in Reusable(s), NEW iov \in Ranges,
           s.age < MaxAge, NEW fault
    PROVE  LET t == Register([s EXCEPT !.base[b] = iov.base, !.len[b] = iov.len], b, fault)
           IN  /\ Account(t) /\ t.banks = s.banks /\ t.slabs = s.slabs /\ t.age <= s.age + 1
               /\ t.ok => Fits(t.base, t.len, [bank |-> b, iov |-> iov])
<1> DEFINE u == [s EXCEPT !.base[b] = iov.base, !.len[b] = iov.len]
           t == Register(u, b, fault)
<1>1. b \in Banks /\ s.ref[b] = 0
  BY DEF Reusable
<1>2. /\ s \in Managers /\ u \in Managers
      /\ u.base = [s.base EXCEPT ![b] = iov.base] /\ u.len = [s.len EXCEPT ![b] = iov.len]
      /\ u.ref = s.ref /\ u.banks = s.banks /\ u.inuse = s.inuse /\ u.slabs = s.slabs
      /\ u.mr = s.mr /\ u.registered = s.registered /\ u.age = s.age
  BY <1>1 DEF Account, Managers, Ranges
<1>3. /\ t \in Managers
      /\ t.ref = s.ref /\ t.banks = s.banks /\ t.inuse = s.inuse /\ t.slabs = s.slabs
      /\ t.age <= s.age + 1
      /\ \A c \in Banks : c # b =>
            /\ t.mr[c] = s.mr[c] /\ t.base[c] = s.base[c] /\ t.len[c] = s.len[c]
            /\ c \in s.registered => c \in t.registered
      /\ \/ t.base[b] = iov.base /\ t.len[b] = iov.len
         \/ t.base[b] = NULL /\ t.len[b] = 0
  <2> DEFINE v == [u EXCEPT !.base[b] = NULL, !.len[b] = 0, !.registered = @ \ {b}]
             closed == IF b \in u.registered THEN v ELSE u
             reg == [closed EXCEPT !.mr[b] = [base |-> closed.base[b], len |-> closed.len[b]],
                                   !.registered = @ \cup {b},
                                   !.bank_age[b] = u.age + 1, !.age = u.age + 1]
  <2>1. t \in {[u EXCEPT !.ok = FALSE], [closed EXCEPT !.ok = FALSE], reg}
    BY DEF Register
  <2>2. /\ v \in Managers
        /\ v.base = [u.base EXCEPT ![b] = NULL] /\ v.len = [u.len EXCEPT ![b] = 0]
        /\ v.registered = u.registered \ {b} /\ v.ref = u.ref /\ v.banks = u.banks
        /\ v.inuse = u.inuse /\ v.slabs = u.slabs /\ v.mr = u.mr /\ v.age = u.age
    BY <1>1, <1>2 DEF Managers, NULL
  <2>3. closed \in {u, v}
    OBVIOUS
  <2>4. /\ closed \in Managers
        /\ closed.ref = u.ref /\ closed.banks = u.banks /\ closed.inuse = u.inuse
        /\ closed.slabs = u.slabs /\ closed.mr = u.mr /\ closed.age = u.age
        /\ u.registered \ {b} \subseteq closed.registered
        /\ \A c \in Banks : c # b => closed.base[c] = u.base[c] /\ closed.len[c] = u.len[c]
        /\ \/ closed.base[b] = iov.base /\ closed.len[b] = iov.len
           \/ closed.base[b] = NULL /\ closed.len[b] = 0
    <3>1. CASE closed = u
      <4>1. u.base[b] = iov.base /\ u.len[b] = iov.len
        BY <1>1, <1>2 DEF Managers
      <4> HIDE DEF closed, u, v
      <4> QED BY <1>2, <3>1, <4>1
    <3>2. CASE closed = v
      <4>1. /\ v.base[b] = NULL /\ v.len[b] = 0
            /\ \A c \in Banks : c # b => v.base[c] = u.base[c] /\ v.len[c] = u.len[c]
        BY <1>1, <1>2, <2>2 DEF Managers
      <4> HIDE DEF closed, u, v
      <4> QED BY <2>2, <3>2, <4>1
    <3> QED BY <2>3, <3>1, <3>2
  <2> HIDE DEF closed, v
  <2>5. ASSUME NEW w \in {u, closed}
        PROVE  LET x == [w EXCEPT !.ok = FALSE]
               IN  /\ x \in Managers
                   /\ x.ref = w.ref /\ x.banks = w.banks /\ x.inuse = w.inuse
                   /\ x.slabs = w.slabs /\ x.age = w.age /\ x.mr = w.mr
                   /\ x.base = w.base /\ x.len = w.len /\ x.registered = w.registered
    <3>1. w \in Managers
      BY <1>2, <2>4
    <3> HIDE DEF u
    <3> QED BY <3>1 DEF Managers
  <2>6. /\ reg \in Managers
        /\ reg.ref = closed.ref /\ reg.banks = closed.banks /\ reg.inuse = closed.inuse
        /\ reg.slabs = closed.slabs /\ reg.age = u.age + 1
        /\ reg.base = closed.base /\ reg.len = closed.len
        /\ reg.registered = closed.registered \cup {b}
        /\ \A c \in Banks : c # b => reg.mr[c] = closed.mr[c]
    <3>1. closed \in Managers /\ [base |-> closed.base[b], len |-> closed.len[b]] \in Ranges
      BY <1>1, <2>4 DEF Managers, Ranges
    <3>2. u.age + 1 \in 0 .. MaxAge
      BY <1>2, MrAssumption DEF Managers
    <3> HIDE DEF u
    <3> QED BY <1>1, <3>1, <3>2 DEF Managers
  <2>7. s.age \in Nat /\ u.base[b] = iov.base /\ u.len[b] = iov.len
        /\ \A c \in Banks : c # b => u.base[c] = s.base[c] /\ u.len[c] = s.len[c]
    BY <1>1, <1>2, MrAssumption DEF Managers
  <2> HIDE DEF u, t, reg
  <2>8. CASE t = [u EXCEPT !.ok = FALSE]
    <3>1. /\ t \in Managers
          /\ t.ref = u.ref /\ t.banks = u.banks /\ t.inuse = u.inuse
          /\ t.slabs = u.slabs /\ t.age = u.age /\ t.mr = u.mr
          /\ t.base = u.base /\ t.len = u.len /\ t.registered = u.registered
      BY <2>5, <2>8
    <3> QED BY <1>2, <2>7, <3>1
  <2>9. CASE t = [closed EXCEPT !.ok = FALSE]
    BY <1>2, <2>4, <2>5, <2>7, <2>9
  <2>10. CASE t = reg
    BY <1>2, <2>4, <2>6, <2>7, <2>10
  <2> QED BY <2>1, <2>8, <2>9, <2>10
<1>4. ref[b] = 0 /\ To(b, s.banks) = {}
  BY <1>1, FiniteTo DEF Account, TypeOK
<1>5. \A r \in t.banks : Fits(t.base, t.len, r)
  <2> SUFFICES ASSUME NEW r \in s.banks PROVE Fits(t.base, t.len, r)
    BY <1>3
  <2>1. r.bank \in Banks /\ r.bank # b /\ Fits(s.base, s.len, r)
    BY <1>4 DEF Account, Managers, Claims, To
  <2> QED BY <1>3, <2>1 DEF Fits
<1>6. Account(t)
  BY <1>3, <1>4, <1>5 DEF Account
<1>7. Fits(t.base, t.len, [bank |-> b, iov |-> iov])
  BY <1>3 DEF Fits, Covers, Ranges
<1> QED BY <1>3, <1>6, <1>7

LEMMA SlabAccount ==
    ASSUME TypeOK, NEW s, Account(s), NEW iov, s.inuse # Slabs
    PROVE  Account(CopyToSlab(s, iov)) /\ CopyToSlab(s, iov).banks = s.banks
           /\ CopyToSlab(s, iov).age = s.age
<1> DEFINE Free == Slabs \ s.inuse
           i == CHOOSE x \in Free : \A y \in Free : x <= y
           t == [s EXCEPT !.inuse = @ \cup {i}, !.slabs = @ \cup {i}]
<1>1. Free \subseteq Nat /\ Free # {}
  BY MrAssumption DEF Slabs, Account, Managers
<1>2. i \in Free
  BY <1>1, LeastNumber
<1>3. CopyToSlab(s, iov) = t
  BY DEF CopyToSlab
<1>4. /\ t \in Managers /\ t.inuse = s.inuse \cup {i} /\ t.slabs = s.slabs \cup {i}
      /\ t.ref = s.ref /\ t.banks = s.banks /\ t.mr = s.mr /\ t.base = s.base
      /\ t.len = s.len /\ t.registered = s.registered /\ t.age = s.age
  BY <1>2 DEF Account, Managers
<1>5. Account(t)
  BY <1>2, <1>4 DEF Account
<1> QED BY <1>3, <1>4, <1>5

LEMMA ClaimAccount ==
    ASSUME TypeOK, NEW s, Account(s), NEW iov \in Ranges, s.age < MaxAge, NEW fault,
           iov.len # 0 => \A r \in s.banks : r.iov # iov
    PROVE  LET t == Claim(s, iov, fault)
           IN  /\ Account(t) /\ t.age <= s.age + 1
               /\ \A r \in t.banks : r \in s.banks \/ r.iov = iov
<1>0. s.age \in Nat
  BY MrAssumption DEF Account, Managers
<1>1. CASE ~s.ok \/ iov.len = 0
  <2>1. Claim(s, iov, fault) = s
    BY <1>1 DEF Claim
  <2> QED BY <1>0, <2>1
<1>2. CASE s.ok /\ iov.len # 0 /\ iov.len <= slab_size /\ s.inuse # Slabs
  <2>1. Claim(s, iov, fault) = CopyToSlab(s, iov)
    BY <1>2 DEF Claim
  <2> QED BY <1>0, <1>2, <2>1, SlabAccount
<1> DEFINE Large == s.ok /\ iov.len # 0 /\ ~(iov.len <= slab_size /\ s.inuse # Slabs)
<1>3. CASE Large /\ \E b \in Banks : IsHit(s, b, iov)
  <2> DEFINE b == CHOOSE x \in Banks : IsHit(s, x, iov)
  <2>1. b \in Banks /\ IsHit(s, b, iov)
    BY <1>3
  <2>2. Fits(s.base, s.len, [bank |-> b, iov |-> iov])
    BY <2>1 DEF IsHit, Fits
  <2>3. Claim(s, iov, fault) = Reference(s, b, iov)
    BY <1>3 DEF Claim
  <2> HIDE DEF b
  <2> QED BY <1>0, <1>3, <2>1, <2>2, <2>3, ReferenceAccount
<1>4. CASE Large /\ (~\E b \in Banks : IsHit(s, b, iov)) /\ Reusable(s) # {}
  <2> DEFINE b == CHOOSE x \in Banks : IsOldest(s, x)
             t == Register([s EXCEPT !.base[b] = iov.base, !.len[b] = iov.len], b, fault)
  <2>1. b \in Banks /\ IsOldest(s, b)
    BY <1>4, OldestExists DEF Account
  <2>2. b \in Reusable(s)
    BY <2>1 DEF IsOldest
  <2>3. Claim(s, iov, fault) = Reference(t, b, iov)
    BY <1>4 DEF Claim
  <2> HIDE DEF b
  <2>4. /\ Account(t) /\ t.banks = s.banks /\ t.age <= s.age + 1
        /\ t.ok => Fits(t.base, t.len, [bank |-> b, iov |-> iov])
    BY <2>2, RegisterAccount
  <2> HIDE DEF t
  <2> QED BY <1>4, <2>1, <2>3, <2>4, ReferenceAccount
<1>5. CASE Large /\ (~\E b \in Banks : IsHit(s, b, iov)) /\ Reusable(s) = {}
  <2>1. Claim(s, iov, fault) = [s EXCEPT !.ok = FALSE]
    BY <1>5 DEF Claim
  <2>2. [s EXCEPT !.ok = FALSE] \in Managers
    BY DEF Account, Managers
  <2> QED BY <1>0, <2>1, <2>2 DEF Account, Managers
<1> QED BY <1>1, <1>2, <1>3, <1>4, <1>5

(***************************************************************************)
(* The invariant.                                                          *)
(***************************************************************************)

Contexts == [banks : SUBSET Claims, slabs : SUBSET Slabs, live : BOOLEAN]

\* A handle that is not live holds nothing; none holds infinitely much.
HandlesOK ==
    /\ handle \in [Handles -> Contexts]
    /\ \A h \in Handles :
          /\ IsFiniteSet(handle[h].banks)
          /\ ~handle[h].live => handle[h].banks = {} /\ handle[h].slabs = {}

\* Counting makes sense.
FinitelyUsed == \A b \in Banks : IsFiniteSet(References(b))

\* The range of a bank in use holds the data it is used for, or was reset when
\* the bank was taken over.
AllFit == \A h \in Handles : \A r \in handle[h].banks : Fits(base, len, r)

Inv == TypeOK /\ RefCountsExact /\ SlabsExclusive /\ HandlesOK /\ FinitelyUsed /\ AllFit

\* What a step may not do to a bank in use.
Pinned ==
    \A b \in Banks : ref[b] > 0 =>
        /\ mr'[b] = mr[b] /\ base'[b] = base[b] /\ len'[b] = len[b]
        /\ b \in registered => b \in registered'

LEMMA ReferencesAre ==
    ASSUME NEW b
    PROVE  References(b) = UNION {{<<h, r>> : r \in To(b, handle[h].banks)} : h \in Handles}
  BY DEF References, To

\* A bank a handle refers to is counted.
LEMMA InUse ==
    ASSUME Inv, NEW h \in Handles, NEW r \in handle[h].banks
    PROVE  r.bank \in Banks /\ ref[r.bank] > 0
<1>1. r.bank \in Banks
  BY DEF Inv, TypeOK
<1>2. <<h, r>> \in References(r.bank)
  BY ReferencesAre DEF To
<1>3. /\ IsFiniteSet(References(r.bank)) /\ ref[r.bank] = Cardinality(References(r.bank))
      /\ ref[r.bank] \in Nat
  BY <1>1 DEF Inv, FinitelyUsed, RefCountsExact, TypeOK
<1>4. Cardinality(References(r.bank)) # 0
  BY <1>2, <1>3, FS_EmptySet
<1> QED BY <1>1, <1>3, <1>4

\* A handle that is given what a message claimed.
LEMMA GrantCount ==
    ASSUME Inv, NEW h \in Handles, ~handle[h].live, NEW g \in Contexts, IsFiniteSet(g.banks),
           handle' = [handle EXCEPT ![h] = g], NEW b \in Banks
    PROVE  /\ IsFiniteSet(References(b)')
           /\ Cardinality(References(b)') = Cardinality(References(b)) + Cardinality(To(b, g.banks))
<1> DEFINE T == {<<h, r>> : r \in To(b, g.banks)}
<1>1. handle[h].banks = {} /\ IsFiniteSet(References(b)) /\ handle \in [Handles -> Contexts]
  BY DEF Inv, HandlesOK, FinitelyUsed
<1>2. References(b)' = UNION {{<<k, r>> : r \in To(b, handle'[k].banks)} : k \in Handles}
  BY DEF References, To
<1>3. References(b)' = References(b) \cup T
  <2>1. handle'[h] = g /\ \A k \in Handles : k # h => handle'[k] = handle[k]
    BY <1>1
  <2>2. To(b, handle[h].banks) = {}
    BY <1>1 DEF To
  <2> QED BY <1>2, <2>1, <2>2, ReferencesAre
<1>4. References(b) \cap T = {}
  <2>1. To(b, handle[h].banks) = {}
    BY <1>1 DEF To
  <2> QED BY <2>1, ReferencesAre
<1>5. IsFiniteSet(T) /\ Cardinality(T) = Cardinality(To(b, g.banks)) /\ Cardinality(T) \in Nat
  <2>1. IsFiniteSet(To(b, g.banks)) /\ Cardinality(To(b, g.banks)) \in Nat
    BY FiniteTo
  <2> QED BY <2>1, Tagged
<1>6. /\ IsFiniteSet(References(b) \cup T)
      /\ Cardinality(References(b) \cup T)
            = Cardinality(References(b)) + Cardinality(T) - Cardinality(References(b) \cap T)
  BY <1>1, <1>5, FS_Union
<1>7. Cardinality(References(b) \cap T) = 0 /\ Cardinality(References(b)) \in Nat
  BY <1>1, <1>4, FS_EmptySet, FS_CardinalityType
<1> QED BY <1>3, <1>5, <1>6, <1>7

\* A handle that is released.
LEMMA ReturnCount ==
    ASSUME Inv, NEW h \in Handles, handle' = [handle EXCEPT ![h] = None], NEW b \in Banks
    PROVE  /\ IsFiniteSet(References(b)')
           /\ Cardinality(References(b)')
                 = Cardinality(References(b)) - Cardinality(To(b, handle[h].banks))
           /\ Cardinality(References(b)') \in Nat
<1> DEFINE T == {<<h, r>> : r \in To(b, handle[h].banks)}
<1>1. /\ IsFiniteSet(handle[h].banks) /\ IsFiniteSet(References(b))
      /\ handle \in [Handles -> Contexts]
  BY DEF Inv, HandlesOK, FinitelyUsed
<1>2. References(b)' = UNION {{<<k, r>> : r \in To(b, handle'[k].banks)} : k \in Handles}
  BY DEF References, To
<1>3. References(b)' = References(b) \ T
  <2>1. handle'[h] = None /\ \A k \in Handles : k # h => handle'[k] = handle[k]
    BY <1>1
  <2>2. To(b, None.banks) = {}
    BY DEF To, None
  <2> QED BY <1>2, <2>1, <2>2, ReferencesAre
<1>4. References(b) \cap T = T
  BY ReferencesAre
<1>5. IsFiniteSet(T) /\ Cardinality(T) = Cardinality(To(b, handle[h].banks))
  <2>1. IsFiniteSet(To(b, handle[h].banks))
    BY <1>1, FiniteTo
  <2> QED BY <2>1, Tagged
<1>6. /\ IsFiniteSet(References(b) \ T)
      /\ Cardinality(References(b) \ T) = Cardinality(References(b)) - Cardinality(References(b) \cap T)
  BY <1>1, FS_Difference
<1>7. Cardinality(References(b) \ T) \in Nat
  BY <1>6, FS_CardinalityType
<1> QED BY <1>3, <1>4, <1>5, <1>6, <1>7

\* A step that leaves counters, slabs and handles alone.
LEMMA KeptCount ==
    ASSUME Inv, TypeOK', Pinned, UNCHANGED <<ref, slabs, handle>>, state' # "aborted"
    PROVE  Inv'
<1>1. HandlesOK' /\ SlabsExclusive'
  BY DEF Inv, HandlesOK, SlabsExclusive
<1>2. \A b : References(b)' = References(b)
  BY DEF References
<1>3. FinitelyUsed' /\ RefCountsExact'
  BY <1>2 DEF Inv, FinitelyUsed, RefCountsExact
<1>4. AllFit'
  <2> SUFFICES ASSUME NEW h \in Handles, NEW r \in handle[h].banks
               PROVE  Fits(base, len, r)'
    BY DEF AllFit
  <2>1. r.bank \in Banks /\ ref[r.bank] > 0 /\ Fits(base, len, r)
    BY InUse DEF Inv, AllFit
  <2> QED BY <2>1 DEF Pinned, Fits
<1> QED BY <1>1, <1>3, <1>4 DEF Inv

(***************************************************************************)
(* The calls keep the invariant.                                           *)
(***************************************************************************)

LEMMA InitInv == Init => Inv
<1> SUFFICES ASSUME Init PROVE Inv
  OBVIOUS
<1>1. handle = [h \in Handles |-> None] /\ None \in Contexts
  BY DEF Init, None, Contexts
<1>2. \A h \in Handles : handle[h].banks = {} /\ handle[h].slabs = {} /\ ~handle[h].live
  BY <1>1 DEF None
<1>3. \A b : References(b) = {}
  BY <1>2, ReferencesAre DEF To
<1>4. TypeOK
  BY <1>2, MrAssumption DEF Init, TypeOK, NULL, Empty
<1>5. RefCountsExact /\ FinitelyUsed
  BY <1>3, FS_EmptySet DEF Init, RefCountsExact, FinitelyUsed
<1>6. HandlesOK /\ AllFit
  BY <1>1, <1>2, FS_EmptySet DEF HandlesOK, AllFit
<1>7. SlabsExclusive
  BY <1>2 DEF Init, SlabsExclusive
<1> QED BY <1>4, <1>5, <1>6, <1>7 DEF Inv

LEMMA ManagerAccount ==
    ASSUME Inv
    PROVE  Account(Manager) /\ Manager.banks = {} /\ Manager.slabs = {} /\ Manager.age = age
<1>1. Manager \in Managers
  BY DEF Inv, TypeOK, Manager, Managers, Ranges
<1>2. \A b : To(b, {}) = {}
  BY DEF To
<1>3. Cardinality({}) = 0 /\ IsFiniteSet({})
  BY FS_EmptySet
<1>4. /\ Manager.ref = ref /\ Manager.banks = {} /\ Manager.slabs = {} /\ Manager.inuse = slabs
      /\ Manager.mr = mr /\ Manager.base = base /\ Manager.len = len
      /\ Manager.registered = registered /\ Manager.age = age
  BY DEF Manager
<1>5. \A b \in Banks : ref[b] \in Nat /\ ref[b] = ref[b] + 0
  BY DEF Inv, TypeOK
<1> QED BY <1>1, <1>2, <1>3, <1>4, <1>5 DEF Account

LEMMA MessageRanges ==
    ASSUME NEW m \in Messages
    PROVE  /\ Len(m) \in {1, 2} /\ m[1] \in Ranges
           /\ Len(m) = 2 => m[2] \in Ranges /\ (m[1] # m[2] \/ m[1].len = 0)
<1>1. m \in Seq(Ranges) /\ Len(m) \in {1, 2}
  BY MrAssumption DEF Ranges
<1> QED BY <1>1, MrAssumption

LEMMA ClaimAllAccount ==
    ASSUME Inv, NEW m \in Messages, NEW faults, age + Len(m) <= MaxAge
    PROVE  Account(ClaimAll(Manager, m, faults))
<1> DEFINE s == Claim(Manager, m[1], faults[1])
<1>1. /\ Account(Manager) /\ Manager.banks = {} /\ Manager.age = age
      /\ age \in Nat /\ MaxAge \in Nat /\ TypeOK
  BY ManagerAccount, MrAssumption DEF Inv, TypeOK
<1>2. /\ Len(m) \in {1, 2} /\ m[1] \in Ranges
      /\ Len(m) = 2 => m[2] \in Ranges /\ (m[1] # m[2] \/ m[1].len = 0)
  BY MessageRanges
<1>3. Account(s) /\ s.age <= age + 1 /\ \A r \in s.banks : r.iov = m[1]
  <2>1. Manager.age < MaxAge
    BY <1>1, <1>2
  <2> QED BY <1>1, <1>2, <2>1, ClaimAccount
<1>4. CASE Len(m) = 1
  BY <1>3, <1>4 DEF ClaimAll
<1>5. CASE Len(m) = 2
  <2>1. ClaimAll(Manager, m, faults) = Claim(s, m[2], faults[2])
    BY <1>5 DEF ClaimAll
  <2>2. s.age < MaxAge
    BY <1>1, <1>3, <1>5, MrAssumption DEF Account, Managers
  <2>3. m[2].len # 0 => \A r \in s.banks : r.iov # m[2]
    BY <1>2, <1>3, <1>5
  <2> HIDE DEF s
  <2> QED BY <1>1, <1>2, <1>3, <1>5, <2>1, <2>2, <2>3, ClaimAccount
<1> QED BY <1>2, <1>4, <1>5

\* Giving everything back leaves what there was before the call.
LEMMA UnclaimAccount ==
    ASSUME TypeOK, NEW s, Account(s)
    PROVE  LET t == Unclaim(s, s.banks, s.slabs)
           IN  /\ t \in Managers /\ t.ref = ref /\ t.inuse = slabs
               /\ t.base = s.base /\ t.len = s.len /\ t.mr = s.mr
               /\ t.registered = s.registered
<1> DEFINE rest == [b \in Banks |-> s.ref[b] - Cardinality({r \in s.banks : r.bank = b})]
           t == [s EXCEPT !.ref = rest, !.inuse = @ \ s.slabs]
<1>1. Unclaim(s, s.banks, s.slabs) = t
  BY DEF Unclaim
<1>2. rest = ref
  <2>1. ASSUME NEW b \in Banks PROVE rest[b] = ref[b]
    <3>1. /\ s.ref[b] = ref[b] + Cardinality(To(b, s.banks)) /\ ref[b] \in Nat
          /\ Cardinality(To(b, s.banks)) \in Nat
      BY FiniteTo DEF Account, TypeOK
    <3> QED BY <3>1 DEF To
  <2> QED BY <2>1 DEF TypeOK
<1>3. s.inuse \ s.slabs = slabs
  BY DEF Account
<1> HIDE DEF rest
<1>4. t \in Managers /\ t.ref = ref /\ t.inuse = slabs /\ t.base = s.base /\ t.len = s.len
      /\ t.mr = s.mr /\ t.registered = s.registered
  BY <1>2, <1>3 DEF Account, Managers, TypeOK
<1> QED BY <1>1, <1>4

\* What the variables are after SetManager.
LEMMA SetTypes ==
    ASSUME TypeOK, NEW s \in Managers, SetManager(s)
    PROVE  /\ base' \in [Banks -> Nat] /\ len' \in [Banks -> Nat] /\ ref' \in [Banks -> Nat]
           /\ bank_age' \in [Banks -> 0 .. MaxAge] /\ age' \in 0 .. MaxAge
           /\ registered' \subseteq Banks /\ slabs' \subseteq Slabs
           /\ mr' \in [Banks -> [base : Nat, len : Nat]]
  BY DEF SetManager, Managers, Ranges

\* ofi_mr_describe
LEMMA DescribeStep ==
    ASSUME Inv, NEW h \in Handles, NEW m \in Messages, NEW faults, Describe(h, m, faults)
    PROVE  Inv' /\ Pinned
<1> DEFINE s == ClaimAll(Manager, m, faults)
           t == Unclaim(s, s.banks, s.slabs)
           g == [banks |-> s.banks, slabs |-> s.slabs, live |-> TRUE]
<1>1. TypeOK /\ Account(s) /\ s \in Managers
  BY ClaimAllAccount DEF Describe, Inv, Account
<1>2. ~handle[h].live /\ UNCHANGED <<nonvolatile, state>>
  BY DEF Describe
<1>3. CASE s.ok
  <2>1. SetManager(s) /\ handle' = [handle EXCEPT ![h] = g]
    BY <1>3 DEF Describe
  <2> HIDE DEF s
  <2>2. Pinned
    BY <1>1, <2>1 DEF SetManager, Account, Pinned
  <2>3. g \in Contexts /\ IsFiniteSet(g.banks)
    BY <1>1 DEF Account, Managers, Contexts
  <2>4. HandlesOK'
    BY <2>1, <2>3 DEF Inv, HandlesOK
  <2>5. handle'[h] = g /\ \A k \in Handles : k # h => handle'[k] = handle[k]
    BY <2>1 DEF Inv, HandlesOK
  <2>6. TypeOK'
    BY <1>1, <1>2, <2>1, <2>4, SetTypes DEF TypeOK, HandlesOK, Contexts, Claims
  <2>7. RefCountsExact' /\ FinitelyUsed'
    <3>1. ASSUME NEW b \in Banks
          PROVE  IsFiniteSet(References(b)') /\ ref'[b] = Cardinality(References(b)')
      <4>1. ref'[b] = ref[b] + Cardinality(To(b, s.banks))
        BY <1>1, <2>1 DEF SetManager, Account
      <4>2. ref[b] = Cardinality(References(b))
        BY DEF Inv, RefCountsExact
      <4> QED BY <1>2, <2>1, <2>3, <4>1, <4>2, GrantCount
    <3> QED BY <1>2, <3>1 DEF RefCountsExact, FinitelyUsed, Inv
  <2>8. SlabsExclusive'
    <3>1. slabs' = slabs \cup s.slabs /\ s.slabs \cap slabs = {}
      BY <1>1, <2>1 DEF SetManager, Account
    <3>2. handle[h].slabs = {}
      BY <1>2 DEF Inv, HandlesOK
    <3>3. g.slabs = s.slabs
      OBVIOUS
    <3>4. slabs' = UNION {handle'[k].slabs : k \in Handles}
      BY <2>5, <3>1, <3>2, <3>3 DEF Inv, SlabsExclusive
    <3>5. \A k \in Handles : handle[k].slabs \subseteq slabs
      BY DEF Inv, SlabsExclusive
    <3>6. \A j, k \in Handles : j # k => handle'[j].slabs \cap handle'[k].slabs = {}
      BY <2>5, <3>1, <3>3, <3>5 DEF Inv, SlabsExclusive
    <3> QED BY <3>4, <3>6 DEF SlabsExclusive
  <2>9. AllFit'
    <3>1. ASSUME NEW k \in Handles, k # h, NEW r \in handle'[k].banks
          PROVE  Fits(base, len, r)'
      <4>1. r \in handle[k].banks
        BY <2>5, <3>1
      <4>2. r.bank \in Banks /\ ref[r.bank] > 0 /\ Fits(base, len, r)
        BY <4>1, InUse DEF Inv, AllFit
      <4> QED BY <2>2, <4>2 DEF Pinned, Fits
    <3>2. \A r \in handle'[h].banks : Fits(base, len, r)'
      BY <1>1, <2>1, <2>5 DEF Account, SetManager
    <3> QED BY <3>1, <3>2 DEF AllFit
  <2> QED BY <2>2, <2>4, <2>6, <2>7, <2>8, <2>9 DEF Inv
<1>4. CASE ~s.ok
  <2>1. SetManager(t) /\ UNCHANGED handle
    BY <1>4 DEF Describe
  <2>2. /\ t \in Managers /\ t.ref = ref /\ t.inuse = slabs
        /\ t.base = s.base /\ t.len = s.len /\ t.mr = s.mr
        /\ t.registered = s.registered
    BY <1>1, UnclaimAccount
  <2> HIDE DEF s, t
  <2>3. Pinned /\ UNCHANGED <<ref, slabs, handle>>
    BY <1>1, <2>1, <2>2 DEF SetManager, Account, Pinned
  <2>4. TypeOK'
    BY <1>1, <1>2, <2>1, <2>2, SetTypes DEF TypeOK
  <2> QED BY <1>2, <2>3, <2>4, KeptCount DEF Inv, RefCountsExact
<1> QED BY <1>3, <1>4

\* ofi_mr_release
LEMMA ReleaseStep ==
    ASSUME Inv, NEW h \in Handles, Release(h)
    PROVE  Inv' /\ Pinned
<1> DEFINE g == handle[h]
           t == Unclaim(Manager, g.banks, g.slabs)
<1>1. /\ SetManager(t) /\ handle' = [handle EXCEPT ![h] = None]
      /\ UNCHANGED <<nonvolatile, state>> /\ TypeOK
  BY DEF Release, Inv
<1>2. /\ ref' = [b \in Banks |-> ref[b] - Cardinality(To(b, g.banks))]
      /\ slabs' = slabs \ g.slabs
      /\ UNCHANGED <<base, len, bank_age, mr, registered, age>>
  BY <1>1 DEF SetManager, Unclaim, Manager, To
<1>3. Pinned
  BY <1>2 DEF Pinned
<1>4. None \in Contexts /\ None.banks = {} /\ None.slabs = {} /\ None.live = FALSE
  BY DEF None, Contexts
<1>5. handle'[h] = None /\ \A k \in Handles : k # h => handle'[k] = handle[k]
  BY <1>1 DEF Inv, HandlesOK
<1>6. HandlesOK'
  BY <1>1, <1>4, FS_EmptySet DEF Inv, HandlesOK
<1>7. ASSUME NEW b \in Banks
      PROVE  /\ IsFiniteSet(References(b)') /\ ref'[b] = Cardinality(References(b)')
             /\ ref'[b] \in Nat
  <2>1. ref[b] = Cardinality(References(b)) /\ ref'[b] = ref[b] - Cardinality(To(b, g.banks))
    BY <1>2 DEF Inv, RefCountsExact
  <2> QED BY <1>1, <2>1, ReturnCount
<1>8. RefCountsExact' /\ FinitelyUsed'
  BY <1>1, <1>7 DEF RefCountsExact, FinitelyUsed, Inv
<1>9. TypeOK'
  <2>1. ref' \in [Banks -> Nat]
    BY <1>2, <1>7
  <2> QED BY <1>1, <1>2, <1>6, <2>1 DEF TypeOK, HandlesOK, Contexts, Claims
<1>10. SlabsExclusive'
  <2>1. slabs = UNION {handle[k].slabs : k \in Handles}
        /\ \A j, k \in Handles : j # k => handle[j].slabs \cap handle[k].slabs = {}
    BY DEF Inv, SlabsExclusive
  <2>2. slabs' = UNION {handle'[k].slabs : k \in Handles}
    BY <1>2, <1>4, <1>5, <2>1
  <2>3. \A j, k \in Handles : j # k => handle'[j].slabs \cap handle'[k].slabs = {}
    BY <1>4, <1>5, <2>1
  <2> QED BY <2>2, <2>3 DEF SlabsExclusive
<1>11. AllFit'
  BY <1>2, <1>4, <1>5 DEF Inv, AllFit
<1> QED BY <1>3, <1>6, <1>8, <1>9, <1>10, <1>11 DEF Inv

\* ofi_mr_mark
LEMMA MarkStep ==
    ASSUME Inv, NEW range \in Marks, NEW fault, Mark(range, fault)
    PROVE  Inv' /\ Pinned
<1> DEFINE unused == {b \in Banks : ref[b] = 0 /\ b \notin registered \cup nonvolatile}
           b == CHOOSE x \in unused : \A y \in unused : x <= y
           t == Register([Manager EXCEPT !.base[b] = range.base, !.len[b] = range.len], b, fault)
<1>1. /\ SetManager(t) /\ nonvolatile' = nonvolatile \cup {b} /\ UNCHANGED handle
      /\ state' = "hung" /\ unused # {} /\ age < MaxAge /\ TypeOK
  BY DEF Mark, Inv
<1>2. b \in unused
  <2>1. unused \subseteq Nat
    BY DEF Banks
  <2> QED BY <1>1, <2>1, LeastNumber
<1>3. b \in Banks /\ b \in Reusable(Manager)
  BY <1>2 DEF Reusable, Manager
<1> HIDE DEF b, unused
<1>4. range \in Ranges
  <2>1. <<range>> \in Seq(Ranges)
    BY MrAssumption DEF Ranges
  <2> QED BY <2>1
<1>5. Account(Manager) /\ Manager.banks = {} /\ Manager.slabs = {} /\ Manager.age < MaxAge
  BY <1>1, ManagerAccount
<1>6. Account(t) /\ t.banks = {} /\ t.slabs = {}
  <2>1. TypeOK /\ Account(Manager) /\ b \in Reusable(Manager) /\ range \in Ranges
        /\ Manager.age < MaxAge
    BY <1>1, <1>3, <1>4, <1>5
  <2>2. Account(t) /\ t.banks = Manager.banks /\ t.slabs = Manager.slabs
    BY <2>1, RegisterAccount
  <2> QED BY <1>5, <2>2
<1> HIDE DEF t
<1>7. t \in Managers
  BY <1>6 DEF Account
<1>8. UNCHANGED <<ref, slabs, handle>>
  <2>1. \A c : To(c, {}) = {} /\ Cardinality({}) = 0
    BY FS_EmptySet DEF To
  <2>2. \A c \in Banks : ref'[c] = ref[c] + 0 /\ ref[c] \in Nat
    <3>1. \A c \in Banks : t.ref[c] = ref[c] + Cardinality(To(c, t.banks)) /\ ref[c] \in Nat
      BY <1>1, <1>6 DEF Account, TypeOK
    <3>2. ref' = t.ref
      BY <1>1 DEF SetManager
    <3> QED BY <1>6, <2>1, <3>1, <3>2
  <2>3. ref' = ref
    BY <1>1, <1>7, <2>2, SetTypes DEF TypeOK
  <2> QED BY <1>1, <1>6, <2>3 DEF Account, SetManager
<1>9. Pinned
  BY <1>1, <1>6 DEF SetManager, Account, Pinned
<1>10. TypeOK'
  BY <1>1, <1>3, <1>7, SetTypes DEF TypeOK
<1> QED BY <1>1, <1>8, <1>9, <1>10, KeptCount

\* ofi_mr_invalidate
LEMMA InvalidateStep ==
    ASSUME Inv, NEW range \in Marks, NEW fault, Invalidate(range, fault)
    PROVE  Inv' /\ Pinned
<1>1. \A b \in ClosedBy(range) : b \in Banks /\ ref[b] = 0
  BY DEF ClosedBy, Banks
<1>2. /\ UNCHANGED <<ref, bank_age, mr, slabs, age, handle, state>>
      /\ nonvolatile' \subseteq nonvolatile /\ registered' \subseteq registered
      /\ \A b \in registered : b \in ClosedBy(range) \/ b \in registered'
      /\ base' \in [Banks -> Nat] /\ len' \in [Banks -> Nat]
      /\ \A b \in Banks : b \in ClosedBy(range) \/ (base'[b] = base[b] /\ len'[b] = len[b])
  BY DEF Invalidate, Inv, TypeOK, NULL
<1>3. Pinned
  BY <1>1, <1>2 DEF Pinned
<1>4. TypeOK'
  BY <1>2 DEF Inv, TypeOK
<1> QED BY <1>2, <1>3, <1>4, KeptCount DEF Inv, RefCountsExact

\* ofi_mr_term: with no handle left, no bank is in use.
LEMMA TermStep ==
    ASSUME Inv, NEW fault, Term(fault)
    PROVE  Inv' /\ Pinned
<1>1. \A h \in Handles : handle[h].banks = {}
  BY DEF Term, Inv, HandlesOK
<1>2. \A b \in Banks : ref[b] = 0
  <2>1. \A b : References(b) = {}
    BY <1>1, ReferencesAre DEF To
  <2> QED BY <2>1, FS_EmptySet DEF Inv, RefCountsExact
<1>3. /\ UNCHANGED <<ref, bank_age, nonvolatile, mr, slabs, age, handle>>
      /\ state' = "terminated" /\ registered' \subseteq registered
      /\ base' \in [Banks -> Nat] /\ len' \in [Banks -> Nat]
  BY <1>2 DEF Term, Inv, TypeOK, NULL
<1>4. Pinned
  BY <1>2 DEF Pinned
<1>5. TypeOK'
  BY <1>3 DEF Inv, TypeOK
<1> QED BY <1>3, <1>4, <1>5, KeptCount

LEMMA StepInv ==
    ASSUME Inv, [Next]_vars
    PROVE  Inv' /\ (Pinned \/ UNCHANGED vars)
<1>1. CASE Next
  BY <1>1, DescribeStep, ReleaseStep, MarkStep, InvalidateStep, TermStep DEF Next
<1>2. CASE UNCHANGED vars
  <2>1. /\ TypeOK' /\ SlabsExclusive' /\ HandlesOK' /\ AllFit'
    BY <1>2 DEF vars, Inv, TypeOK, SlabsExclusive, HandlesOK, AllFit, Fits
  <2>2. \A b : References(b)' = References(b)
    BY <1>2 DEF vars, References
  <2>3. RefCountsExact' /\ FinitelyUsed'
    BY <1>2, <2>2 DEF vars, Inv, RefCountsExact, FinitelyUsed
  <2> QED BY <1>2, <2>1, <2>3 DEF Inv
<1> QED BY <1>1, <1>2

LEMMA InvAlways == Spec => []Inv
<1>1. Inv /\ [Next]_vars => Inv'
  BY StepInv
<1> QED BY InitInv, <1>1, PTL DEF Spec

(***************************************************************************)
(* The theorems.                                                           *)
(***************************************************************************)

\* The fields of banks, slabs and manager keep their types.
THEOREM TypeCorrect == Spec => []TypeOK
<1>1. Inv => TypeOK
  BY DEF Inv
<1> QED BY InvAlways, <1>1, PTL

\* Every counter of references is exact, so nn_assert(bank->ref == 0) in
\* ofi_mr_term holds once every handle has been released.
THEOREM CountersAreExact == Spec => []RefCountsExact
<1>1. Inv => RefCountsExact
  BY DEF Inv
<1> QED BY InvAlways, <1>1, PTL

\* No slab is shared by two messages in transit or leaked by a failed describe.
THEOREM SlabsAreExclusive == Spec => []SlabsExclusive
<1>1. Inv => SlabsExclusive
  BY DEF Inv
<1> QED BY InvAlways, <1>1, PTL

\* ofi_mr_find_bank never takes a cached registration for more than it holds.
THEOREM CacheIsSound == Spec => []DescriptorsWithinRange
<1>1. ASSUME Inv PROVE DescriptorsWithinRange
  <2> SUFFICES ASSUME NEW h \in Handles, NEW r \in handle[h].banks,
                      mr[r.bank] = [base |-> base[r.bank], len |-> len[r.bank]],
                      mr[r.bank] # Empty
               PROVE  Covers(mr[r.bank], r.iov)
    BY DEF DescriptorsWithinRange
  <2>1. Fits(base, len, r)
    BY <1>1 DEF Inv, AllFit
  <2> QED BY <2>1 DEF Fits, Empty
<1> QED BY InvAlways, <1>1, PTL

\* The registration of a bank stays under the sends in transit that use it,
\* whatever is described, marked, invalidated or fails meanwhile.
THEOREM RegistrationsArePinned == Spec => RegistrationPinned
<1> DEFINE A == \A h \in Handles : handle'[h] = handle[h] =>
                  \A r \in handle[h].banks :
                     mr'[r.bank] = mr[r.bank] /\ (r.bank \in registered => r.bank \in registered')
<1>1. ASSUME Inv, [Next]_vars PROVE [A]_vars
  <2>1. CASE UNCHANGED vars
    BY <2>1
  <2>2. CASE Pinned
    BY <1>1, <2>2, InUse DEF Pinned
  <2> QED BY <1>1, <2>1, <2>2, StepInv
<1> HIDE DEF A
<1>2. Spec => [][A]_vars
  BY InvAlways, <1>1, PTL DEF Spec
<1> QED BY <1>2 DEF A, RegistrationPinned
(***************************************************************************)
(* When a descriptor covers its data.  DescriptorCovers is violated; the   *)
(* two ways to that are a bank fi_mr_reg refused, which keeps the range it *)
(* was to have, and a bank used again, whose registration is closed after  *)
(* its range was set.  Without them it holds.                              *)
(***************************************************************************)

\* No registered bank gets another range: none is used again.
KeepsRanges ==
    \A b \in registered \cap registered' : base'[b] = base[b] /\ len'[b] = len[b]

\* A bank is registered for its range, or has none.
Honest(s) ==
    \A b \in Banks :
        IF b \in s.registered
        THEN s.mr[b] = [base |-> s.base[b], len |-> s.len[b]] /\ s.len[b] > 0
        ELSE s.len[b] = 0

Covered(s, banks) ==
    \A r \in banks : r.bank \in s.registered /\ Covers(s.mr[r.bank], r.iov)

\* What a claim leaves alone.
Same(s, t, b) ==
    /\ t.base[b] = s.base[b] /\ t.len[b] = s.len[b] /\ t.mr[b] = s.mr[b]
    /\ b \in t.registered <=> b \in s.registered

\* A registered bank has got another range, for good in this call.
Reused(s, t) ==
    \E b \in s.registered :
        /\ b \in t.registered /\ (t.base[b] # s.base[b] \/ t.len[b] # s.len[b])
        /\ ~t.ok \/ t.ref[b] > 0

\* The three ends of ofi_mr_register that fi_mr_reg does not refuse: b is new,
\* its old registration cannot be closed, or closing it has reset its range.
Registers(s, b, iov, t) ==
    /\ b \in t.registered
    /\ \/ /\ b \notin s.registered /\ t.ok
          /\ t.base[b] = iov.base /\ t.len[b] = iov.len /\ t.mr[b] = iov
       \/ /\ b \in s.registered /\ ~t.ok
          /\ t.base[b] = iov.base /\ t.len[b] = iov.len
       \/ /\ b \in s.registered /\ t.ok
          /\ t.base[b] = NULL /\ t.len[b] = 0

RegisterEnds(s, b, iov, fault, t) ==
    /\ t \in Managers /\ t.ref = s.ref /\ t.banks = s.banks
    /\ \A c \in Banks : c # b => Same(s, t, c)
    /\ fault # "REG" => Registers(s, b, iov, t)

LEMMA RegisterFields ==
    ASSUME NEW s \in Managers, s.ok, NEW b \in Banks, NEW iov \in Ranges, s.age < MaxAge,
           NEW fault
    PROVE  RegisterEnds(s, b, iov, fault,
               Register([s EXCEPT !.base[b] = iov.base, !.len[b] = iov.len], b, fault))
<1> DEFINE u == [s EXCEPT !.base[b] = iov.base, !.len[b] = iov.len]
           v == [u EXCEPT !.base[b] = NULL, !.len[b] = 0, !.registered = @ \ {b}]
           closed == IF b \in u.registered THEN v ELSE u
           reg == [closed EXCEPT !.mr[b] = [base |-> closed.base[b], len |-> closed.len[b]],
                                 !.registered = @ \cup {b},
                                 !.bank_age[b] = u.age + 1, !.age = u.age + 1]
           t == Register(u, b, fault)
<1> SUFFICES RegisterEnds(s, b, iov, fault, t)
  OBVIOUS
<1>1. /\ u \in Managers /\ u.ok /\ u.ref = s.ref /\ u.banks = s.banks /\ u.mr = s.mr
      /\ u.registered = s.registered /\ u.age = s.age
      /\ u.base = [s.base EXCEPT ![b] = iov.base] /\ u.len = [s.len EXCEPT ![b] = iov.len]
  BY DEF Managers, Ranges
<1>2. /\ v \in Managers /\ v.ok /\ v.ref = s.ref /\ v.banks = s.banks /\ v.mr = s.mr
      /\ v.registered = s.registered \ {b} /\ v.age = s.age
      /\ v.base = [u.base EXCEPT ![b] = NULL] /\ v.len = [u.len EXCEPT ![b] = 0]
  <2> HIDE DEF u
  <2> QED BY <1>1 DEF Managers, NULL
<1>3. /\ u.base[b] = iov.base /\ u.len[b] = iov.len /\ v.base[b] = NULL /\ v.len[b] = 0
      /\ \A c \in Banks : c # b => /\ u.base[c] = s.base[c] /\ u.len[c] = s.len[c]
                                   /\ v.base[c] = s.base[c] /\ v.len[c] = s.len[c]
  <2>1. /\ s.base \in [Banks -> Nat] /\ s.len \in [Banks -> Nat]
        /\ u.base \in [Banks -> Nat] /\ u.len \in [Banks -> Nat]
    BY <1>1 DEF Managers
  <2> HIDE DEF u, v
  <2> QED BY <1>1, <1>2, <2>1
<1>4. \/ t = [u EXCEPT !.ok = FALSE] /\ b \in u.registered
      \/ t = [closed EXCEPT !.ok = FALSE] /\ fault = "REG"
      \/ t = reg
  BY DEF Register
<1>5. closed \in {u, v} /\ (b \in s.registered => closed = v)
      /\ (b \notin s.registered => closed = u)
  BY <1>1
<1> HIDE DEF u, v, closed
<1>6. ASSUME NEW w \in {u, v}
      PROVE  LET x == [w EXCEPT !.ok = FALSE]
             IN  /\ x \in Managers /\ ~x.ok /\ x.ref = w.ref /\ x.banks = w.banks
                 /\ x.mr = w.mr /\ x.base = w.base /\ x.len = w.len
                 /\ x.registered = w.registered
  <2>1. w \in Managers
    BY <1>1, <1>2
  <2> QED BY <2>1 DEF Managers
<1>7. /\ reg \in Managers /\ reg.ok /\ reg.ref = s.ref /\ reg.banks = s.banks
      /\ reg.base = closed.base /\ reg.len = closed.len
      /\ reg.registered = closed.registered \cup {b}
      /\ reg.mr[b] = [base |-> closed.base[b], len |-> closed.len[b]]
      /\ \A c \in Banks : c # b => reg.mr[c] = s.mr[c]
  <2>1. /\ closed \in Managers /\ closed.ok /\ closed.ref = s.ref /\ closed.banks = s.banks
        /\ closed.mr = s.mr
    BY <1>1, <1>2, <1>5
  <2>2. [base |-> closed.base[b], len |-> closed.len[b]] \in Ranges
    BY <2>1 DEF Managers, Ranges
  <2>3. u.age + 1 \in 0 .. MaxAge
    BY <1>1, MrAssumption DEF Managers
  <2> DEFINE range == [base |-> closed.base[b], len |-> closed.len[b]]
  <2> HIDE DEF range
  <2>4. /\ reg \in Managers /\ reg.ok /\ reg.ref = s.ref /\ reg.banks = s.banks
        /\ reg.base = closed.base /\ reg.len = closed.len
        /\ reg.registered = closed.registered \cup {b}
    BY <2>1, <2>2, <2>3 DEF Managers
  <2>5. reg.mr = [s.mr EXCEPT ![b] = range] /\ s.mr \in [Banks -> Ranges]
    BY <2>1 DEF Managers, range
  <2>6. reg.mr[b] = range /\ \A c \in Banks : c # b => reg.mr[c] = s.mr[c]
    BY <2>5
  <2> QED BY <2>4, <2>6 DEF range
<1>8. iov = [base |-> iov.base, len |-> iov.len] /\ s.mr \in [Banks -> Ranges]
  BY DEF Ranges, Managers
<1> HIDE DEF t, reg
<1> USE DEF RegisterEnds, Registers, Same
<1>9. CASE t = [u EXCEPT !.ok = FALSE] /\ b \in u.registered
  <2>1. /\ t \in Managers /\ ~t.ok /\ t.ref = u.ref /\ t.banks = u.banks
        /\ t.mr = u.mr /\ t.base = u.base /\ t.len = u.len
        /\ t.registered = u.registered /\ b \in u.registered
    BY <1>6, <1>9
  <2>2. u.ref = s.ref /\ u.banks = s.banks /\ u.mr = s.mr /\ u.registered = s.registered
    BY <1>1
  <2> QED BY <1>3, <2>1, <2>2
<1>10. CASE fault = "REG" /\ t = [closed EXCEPT !.ok = FALSE]
  <2>1. /\ t \in Managers /\ ~t.ok /\ t.ref = closed.ref /\ t.banks = closed.banks
        /\ t.mr = closed.mr /\ t.base = closed.base /\ t.len = closed.len
        /\ t.registered = closed.registered /\ fault = "REG"
    BY <1>5, <1>6, <1>10
  <2> QED BY <1>1, <1>2, <1>3, <1>5, <2>1
<1>11. CASE t = reg
  <2>1. /\ t \in Managers /\ t.ok /\ t.ref = s.ref /\ t.banks = s.banks
        /\ t.base = closed.base /\ t.len = closed.len
        /\ t.registered = closed.registered \cup {b}
        /\ t.mr[b] = [base |-> closed.base[b], len |-> closed.len[b]]
        /\ \A c \in Banks : c # b => t.mr[c] = s.mr[c]
    BY <1>7, <1>11
  <2>2. CASE b \in s.registered
    <3>1. closed = v /\ v.registered = s.registered \ {b}
      BY <1>2, <1>5, <2>2
    <3>2. t.registered = s.registered
      BY <2>1, <2>2, <3>1
    <3> QED BY <1>3, <2>1, <2>2, <3>1, <3>2
  <2>3. CASE b \notin s.registered
    <3>1. closed = u /\ t.registered = s.registered \cup {b}
      BY <1>1, <1>5, <2>1, <2>3
    <3>2. t.mr[b] = iov
      BY <1>3, <1>8, <2>1, <3>1
    <3> QED BY <1>3, <2>1, <2>3, <3>1, <3>2
  <2> QED BY <2>2, <2>3
<1> QED BY <1>4, <1>9, <1>10, <1>11
LEMMA ReferenceFields ==
    ASSUME NEW s \in Managers, NEW b \in Banks, NEW iov \in Ranges
    PROVE  LET t == Reference(s, b, iov)
           IN  /\ t \in Managers /\ t.base = s.base /\ t.len = s.len /\ t.mr = s.mr
               /\ t.registered = s.registered /\ t.ok = s.ok /\ t.age = s.age
               /\ \A c \in Banks : s.ref[c] > 0 => t.ref[c] > 0
               /\ s.ok => /\ t.ref[b] > 0
                          /\ t.banks = s.banks \cup {[bank |-> b, iov |-> iov]}
               /\ ~s.ok => t = s
<1> DEFINE t == [s EXCEPT !.ref[b] = @ + 1, !.banks = @ \cup {[bank |-> b, iov |-> iov]}]
<1>1. CASE ~s.ok
  BY <1>1 DEF Reference
<1>2. CASE s.ok
  <2>1. Reference(s, b, iov) = t
    BY <1>2 DEF Reference
  <2>2. [bank |-> b, iov |-> iov] \in Claims /\ s.ref \in [Banks -> Nat]
    BY DEF Claims, Managers
  <2>3. /\ t \in Managers /\ t.base = s.base /\ t.len = s.len /\ t.mr = s.mr
        /\ t.registered = s.registered /\ t.ok = s.ok /\ t.age = s.age
        /\ t.banks = s.banks \cup {[bank |-> b, iov |-> iov]}
        /\ t.ref = [s.ref EXCEPT ![b] = @ + 1]
    <3>1. [s.ref EXCEPT ![b] = s.ref[b] + 1] \in [Banks -> Nat]
      BY <2>2
    <3>2. s.banks \cup {[bank |-> b, iov |-> iov]} \in SUBSET Claims
      BY <2>2 DEF Managers
    <3> QED BY <3>1, <3>2 DEF Managers
  <2>4. t.ref[b] > 0 /\ \A c \in Banks : s.ref[c] > 0 => t.ref[c] > 0
    BY <2>2, <2>3
  <2> HIDE DEF t
  <2> QED BY <1>2, <2>1, <2>3, <2>4
<1> QED BY <1>1, <1>2

LEMMA SlabFields ==
    ASSUME NEW s \in Managers, NEW iov, s.inuse # Slabs
    PROVE  LET t == CopyToSlab(s, iov)
           IN  /\ t \in Managers /\ t.base = s.base /\ t.len = s.len /\ t.mr = s.mr
               /\ t.registered = s.registered /\ t.ref = s.ref /\ t.banks = s.banks
<1> DEFINE Free == Slabs \ s.inuse
           i == CHOOSE x \in Free : \A y \in Free : x <= y
<1>1. Free \subseteq Nat /\ Free # {}
  <2>1. s.inuse \subseteq Slabs
    BY DEF Managers
  <2>2. Slabs \subseteq Nat
    BY MrAssumption DEF Slabs
  <2> QED BY <2>1, <2>2
<1>2. i \in Free
  BY <1>1, LeastNumber
<1>3. CopyToSlab(s, iov) = [s EXCEPT !.inuse = @ \cup {i}, !.slabs = @ \cup {i}]
  BY DEF CopyToSlab
<1>4. i \in Slabs
  BY <1>2
<1> HIDE DEF i, Free
<1>5. LET t == [s EXCEPT !.inuse = @ \cup {i}, !.slabs = @ \cup {i}]
      IN  /\ t \in Managers /\ t.base = s.base /\ t.len = s.len /\ t.mr = s.mr
          /\ t.registered = s.registered /\ t.ref = s.ref /\ t.banks = s.banks
  BY <1>4 DEF Managers
<1> QED BY <1>3, <1>5

\* If a bank covers the data, the loop over the banks finds one that does.
LEMMA HitExists ==
    ASSUME NEW s, NEW iov, NEW b \in Banks,
           Covers([base |-> s.base[b], len |-> s.len[b]], iov)
    PROVE  \E c \in Banks : IsHit(s, c, iov)
<1> DEFINE Hits == {c \in Banks : Covers([base |-> s.base[c], len |-> s.len[c]], iov)}
<1>1. Hits \subseteq Nat /\ Hits # {} /\ Banks \subseteq Nat
  BY DEF Banks
<1>2. PICK c \in Hits : \A d \in Hits : c <= d
  BY <1>1, LeastNumber
<1>3. \A d \in 1 .. c - 1 : d \in Banks /\ ~(c <= d)
  BY <1>1, <1>2, MrAssumption DEF Banks
<1> QED BY <1>2, <1>3 DEF IsHit

\* The turns of the loop: nothing to describe, a slab, a cached bank, a bank
\* to register, none left.
ClaimTurn(s, iov, fault, t) ==
    \/ t = s
    \/ s.inuse # Slabs /\ t = CopyToSlab(s, iov)
    \/ /\ s.ok /\ iov.len # 0
       /\ \E b \in Banks : IsHit(s, b, iov) /\ t = Reference(s, b, iov)
    \/ /\ s.ok /\ iov.len # 0 /\ ~\E c \in Banks : IsHit(s, c, iov)
       /\ \E b \in Reusable(s) :
             t = Reference(Register([s EXCEPT !.base[b] = iov.base, !.len[b] = iov.len], b, fault),
                           b, iov)
    \/ t = [s EXCEPT !.ok = FALSE]

LEMMA ClaimTurns ==
    ASSUME NEW s \in Managers, NEW iov, NEW fault
    PROVE  ClaimTurn(s, iov, fault, Claim(s, iov, fault)) /\ (~s.ok => Claim(s, iov, fault) = s)
<1>1. CASE \E b \in Banks : IsHit(s, b, iov)
  BY <1>1 DEF Claim, ClaimTurn
<1>2. CASE ~\E b \in Banks : IsHit(s, b, iov)
  <2>1. CASE Reusable(s) # {}
    <3> DEFINE b == CHOOSE x \in Banks : IsOldest(s, x)
    <3>1. b \in Reusable(s)
      <4>1. b \in Banks /\ IsOldest(s, b)
        BY <2>1, OldestExists
      <4> QED BY <4>1 DEF IsOldest
    <3> QED BY <1>2, <2>1, <3>1 DEF Claim, ClaimTurn
  <2>2. CASE Reusable(s) = {}
    BY <1>2, <2>2 DEF Claim, ClaimTurn
  <2> QED BY <2>1, <2>2
<1> QED BY <1>1, <1>2

\* A claim leaves the banks in use alone, and does not give them back.
LEMMA ClaimKeeps ==
    ASSUME NEW s \in Managers, NEW iov \in Ranges, s.age < MaxAge, NEW fault,
           NEW b \in Banks, s.ref[b] > 0
    PROVE  Same(s, Claim(s, iov, fault), b) /\ Claim(s, iov, fault).ref[b] > 0
<1> DEFINE t == Claim(s, iov, fault)
<1> SUFFICES Same(s, t, b) /\ t.ref[b] > 0
  OBVIOUS
<1>1. ClaimTurn(s, iov, fault, t)
  BY ClaimTurns
<1> HIDE DEF t
<1>2. CASE t = s
  BY <1>2 DEF Same
<1>3. CASE s.inuse # Slabs /\ t = CopyToSlab(s, iov)
  BY <1>3, SlabFields DEF Same
<1>4. CASE \E c \in Banks : t = Reference(s, c, iov)
  BY <1>4, ReferenceFields DEF Same
<1>5. ASSUME s.ok, NEW c \in Reusable(s),
             t = Reference(Register([s EXCEPT !.base[c] = iov.base, !.len[c] = iov.len], c, fault),
                           c, iov)
      PROVE  Same(s, t, b) /\ t.ref[b] > 0
  <2> DEFINE u == Register([s EXCEPT !.base[c] = iov.base, !.len[c] = iov.len], c, fault)
  <2>1. c \in Banks /\ s.ref[c] = 0 /\ c # b
    BY <1>5 DEF Reusable
  <2>2. RegisterEnds(s, c, iov, fault, u)
    BY <1>5, <2>1, RegisterFields
  <2>3. t = Reference(u, c, iov)
    BY <1>5
  <2> HIDE DEF u
  <2>4. u \in Managers /\ u.ref = s.ref /\ Same(s, u, b)
    BY <2>1, <2>2 DEF RegisterEnds
  <2> QED BY <2>1, <2>3, <2>4, ReferenceFields DEF Same
<1>6. CASE t = [s EXCEPT !.ok = FALSE]
  BY <1>6 DEF Managers, Same
<1> QED BY <1>1, <1>2, <1>3, <1>4, <1>5, <1>6 DEF ClaimTurn
\* What a call has done so far when it has used no bank again.
Sound(m, s) ==
    /\ Honest(s) /\ Covered(s, s.banks)
    /\ \A r \in s.banks : s.ref[r.bank] > 0
    /\ \A b \in m.registered : Same(m, s, b)
    /\ \A b \in s.registered \ m.registered : s.ref[b] > 0

\* A bank registered for the data, or taken from another range.
LEMMA RegisterSound ==
    ASSUME NEW s \in Managers, s.ok, s.age < MaxAge, Honest(s), Covered(s, s.banks),
           \A r \in s.banks : s.ref[r.bank] > 0,
           NEW iov \in Ranges, iov.len # 0, NEW fault, fault # "REG",
           ~\E c \in Banks : IsHit(s, c, iov), NEW b \in Reusable(s)
    PROVE  LET t == Reference(
                        Register([s EXCEPT !.base[b] = iov.base, !.len[b] = iov.len], b, fault),
                        b, iov)
           IN  Reused(s, t) \/ Sound(s, t)
<1> DEFINE u == Register([s EXCEPT !.base[b] = iov.base, !.len[b] = iov.len], b, fault)
           t == Reference(u, b, iov)
<1> SUFFICES Reused(s, t) \/ Sound(s, t)
  OBVIOUS
<1>1. b \in Banks /\ s.ref[b] = 0
  BY DEF Reusable
<1>2. RegisterEnds(s, b, iov, fault, u)
  BY <1>1, RegisterFields
<1> HIDE DEF u
<1>3. /\ u \in Managers /\ u.ref = s.ref /\ u.banks = s.banks
      /\ \A c \in Banks : c # b => Same(s, u, c)
      /\ Registers(s, b, iov, u)
  BY <1>2 DEF RegisterEnds
<1>4. /\ t.base = u.base /\ t.len = u.len /\ t.mr = u.mr /\ t.registered = u.registered
      /\ t.ok = u.ok /\ \A c \in Banks : u.ref[c] > 0 => t.ref[c] > 0
      /\ u.ok => t.ref[b] > 0 /\ t.banks = u.banks \cup {[bank |-> b, iov |-> iov]}
  BY <1>1, <1>3, ReferenceFields
<1> HIDE DEF t
<1>5. CASE b \notin s.registered
  <2>1. /\ b \in u.registered /\ u.ok /\ u.base[b] = iov.base /\ u.len[b] = iov.len
        /\ u.mr[b] = iov
    BY <1>3, <1>5 DEF Registers
  <2>2. iov = [base |-> iov.base, len |-> iov.len] /\ iov.base \in Nat /\ iov.len \in Nat
        /\ iov.len > 0 /\ Covers(iov, iov)
    BY DEF Ranges, Covers
  <2>3. s.registered \subseteq Banks /\ u.registered \subseteq Banks
        /\ \A r \in s.banks : r.bank \in Banks
    BY <1>3 DEF Managers, Claims
  <2>4. Honest(t)
    <3>1. ASSUME NEW c \in Banks
          PROVE  IF c \in t.registered
                 THEN t.mr[c] = [base |-> t.base[c], len |-> t.len[c]] /\ t.len[c] > 0
                 ELSE t.len[c] = 0
      <4>1. CASE c = b
        BY <1>4, <2>1, <2>2, <4>1
      <4>2. CASE c # b
        BY <1>3, <1>4, <4>2 DEF Honest, Same
      <4> QED BY <4>1, <4>2
    <3> QED BY <3>1 DEF Honest
  <2>5. ASSUME NEW r \in t.banks
        PROVE  r.bank \in t.registered /\ Covers(t.mr[r.bank], r.iov) /\ t.ref[r.bank] > 0
    <3>1. CASE r \in s.banks
      <4>1. r.bank \in Banks /\ r.bank # b /\ s.ref[r.bank] > 0 /\ u.ref[r.bank] > 0
        BY <1>1, <1>3, <2>3, <3>1
      <4>2. r.bank \in s.registered /\ Covers(s.mr[r.bank], r.iov)
        BY <3>1 DEF Covered
      <4> QED BY <1>3, <1>4, <4>1, <4>2 DEF Same
    <3>2. CASE r = [bank |-> b, iov |-> iov]
      BY <1>4, <2>1, <2>2, <3>2
    <3> QED BY <1>3, <1>4, <2>1, <3>1, <3>2
  <2>6. \A c \in s.registered : Same(s, t, c)
    BY <1>3, <1>4, <1>5, <2>3 DEF Same
  <2>7. \A c \in t.registered \ s.registered : t.ref[c] > 0
    BY <1>3, <1>4, <2>1, <2>3 DEF Same
  <2> QED BY <2>4, <2>5, <2>6, <2>7 DEF Sound, Covered
<1>6. CASE b \in s.registered /\ ~u.ok
  <2>1. b \in u.registered /\ u.base[b] = iov.base /\ u.len[b] = iov.len
    BY <1>3, <1>6 DEF Registers
  <2>2. u.base[b] # s.base[b] \/ u.len[b] # s.len[b]
    <3> SUFFICES ASSUME s.base[b] = iov.base, s.len[b] = iov.len PROVE FALSE
      BY <2>1
    <3>1. Covers([base |-> s.base[b], len |-> s.len[b]], iov)
      BY DEF Covers, Ranges
    <3> QED BY <1>1, <3>1, HitExists
  <2> QED BY <1>4, <1>6, <2>1, <2>2 DEF Reused
<1>7. CASE b \in s.registered /\ u.ok
  <2>1. b \in u.registered /\ u.len[b] = 0
    BY <1>3, <1>7 DEF Registers
  <2>2. s.len[b] > 0
    BY <1>1, <1>7 DEF Honest
  <2> QED BY <1>4, <1>7, <2>1, <2>2 DEF Reused
<1> QED BY <1>5, <1>6, <1>7

LEMMA ClaimSound ==
    ASSUME NEW s \in Managers, s.ok, s.age < MaxAge, Honest(s), Covered(s, s.banks),
           \A r \in s.banks : s.ref[r.bank] > 0,
           NEW iov \in Ranges, NEW fault, fault # "REG"
    PROVE  LET t == Claim(s, iov, fault) IN Reused(s, t) \/ Sound(s, t)
<1> DEFINE t == Claim(s, iov, fault)
<1> SUFFICES Reused(s, t) \/ Sound(s, t)
  OBVIOUS
<1>1. ClaimTurn(s, iov, fault, t)
  BY ClaimTurns
<1> HIDE DEF t
<1>2. ASSUME NEW x, x.base = s.base, x.len = s.len, x.mr = s.mr, x.registered = s.registered,
             x.ref = s.ref, x.banks = s.banks
      PROVE  Sound(s, x)
  BY <1>2 DEF Sound, Honest, Covered, Same
<1>3. CASE t = s
  BY <1>2, <1>3
<1>4. CASE s.inuse # Slabs /\ t = CopyToSlab(s, iov)
  BY <1>2, <1>4, SlabFields
<1>5. ASSUME iov.len # 0, NEW b \in Banks, IsHit(s, b, iov), t = Reference(s, b, iov)
      PROVE  Sound(s, t)
  <2>1. /\ t.base = s.base /\ t.len = s.len /\ t.mr = s.mr /\ t.registered = s.registered
        /\ \A c \in Banks : s.ref[c] > 0 => t.ref[c] > 0
        /\ t.ref[b] > 0 /\ t.banks = s.banks \cup {[bank |-> b, iov |-> iov]}
    BY <1>5, ReferenceFields
  <2>2. Covers([base |-> s.base[b], len |-> s.len[b]], iov)
    BY <1>5 DEF IsHit
  <2>3. s.len[b] # 0
    <3>1. s.base[b] \in Nat /\ s.len[b] \in Nat /\ iov.base \in Nat /\ iov.len \in Nat
      BY DEF Managers, Ranges
    <3> QED BY <1>5, <2>2, <3>1 DEF Covers
  <2>4. b \in s.registered /\ s.mr[b] = [base |-> s.base[b], len |-> s.len[b]]
    BY <2>3 DEF Honest
  <2>5. \A r \in s.banks : r.bank \in Banks
    BY DEF Managers, Claims
  <2>6. \A r \in t.banks : r.bank \in t.registered /\ Covers(t.mr[r.bank], r.iov)
                           /\ t.ref[r.bank] > 0
    BY <2>1, <2>2, <2>4, <2>5 DEF Covered
  <2> QED BY <2>1, <2>6 DEF Sound, Covered, Honest, Same
<1>6. ASSUME iov.len # 0, ~\E c \in Banks : IsHit(s, c, iov), NEW b \in Reusable(s),
             t = Reference(Register([s EXCEPT !.base[b] = iov.base, !.len[b] = iov.len], b, fault),
                           b, iov)
      PROVE  Reused(s, t) \/ Sound(s, t)
  BY <1>6, RegisterSound
<1>7. CASE t = [s EXCEPT !.ok = FALSE]
  BY <1>2, <1>7 DEF Managers
<1> QED BY <1>1, <1>3, <1>4, <1>5, <1>6, <1>7 DEF ClaimTurn
LEMMA ClaimAllSound ==
    ASSUME Inv, Honest(Manager), NEW m \in Messages, NEW faults,
           faults[1] # "REG", faults[2] # "REG", age + Len(m) <= MaxAge
    PROVE  LET t == ClaimAll(Manager, m, faults) IN Reused(Manager, t) \/ Sound(Manager, t)
<1> DEFINE s == Claim(Manager, m[1], faults[1])
           t == Claim(s, m[2], faults[2])
<1>1. /\ Account(Manager) /\ Manager \in Managers /\ Manager.ok /\ Manager.banks = {}
      /\ Manager.age = age /\ age \in Nat /\ MaxAge \in Nat /\ TypeOK
  <2>1. Manager.ok
    BY DEF Manager
  <2> QED BY <2>1, ManagerAccount, MrAssumption DEF Inv, TypeOK, Account
<1>2. /\ Len(m) \in {1, 2} /\ m[1] \in Ranges
      /\ Len(m) = 2 => m[2] \in Ranges
  BY MessageRanges
<1>3. Account(s) /\ s \in Managers /\ s.age <= age + 1 /\ s.age \in Nat
  <2>1. Manager.age < MaxAge
    BY <1>1, <1>2
  <2>2. Account(s) /\ s.age <= age + 1
    BY <1>1, <1>2, <2>1, ClaimAccount
  <2> HIDE DEF s
  <2> QED BY <2>2 DEF Account, Managers
<1>4. Reused(Manager, s) \/ Sound(Manager, s)
  <2>1. Manager.age < MaxAge /\ Covered(Manager, Manager.banks)
    BY <1>1, <1>2 DEF Covered
  <2> QED BY <1>1, <1>2, <2>1, ClaimSound
<1>5. CASE Len(m) = 1
  <2>1. ClaimAll(Manager, m, faults) = s
    BY <1>5 DEF ClaimAll
  <2> QED BY <1>4, <2>1
<1>6. CASE Len(m) = 2
  <2>1. ClaimAll(Manager, m, faults) = t
    BY <1>6 DEF ClaimAll
  <2>2. m[2] \in Ranges /\ s.age < MaxAge
    BY <1>1, <1>2, <1>3, <1>6
  <2> HIDE DEF s
  <2> SUFFICES Reused(Manager, t) \/ Sound(Manager, t)
    BY <2>1
  <2>3. CASE ~s.ok
    <3>1. t = s
      BY <1>3, <2>3, ClaimTurns
    <3> QED BY <1>4, <3>1
  <2>4. CASE s.ok
    <3>1. \A b \in Banks : s.ref[b] > 0 => Same(s, t, b) /\ t.ref[b] > 0
      BY <1>3, <2>2, ClaimKeeps
    <3> DEFINE u == t
    <3>2. Manager.registered \subseteq Banks /\ s.registered \subseteq Banks
      BY <1>1, <1>3 DEF Managers
    <3>3. CASE Reused(Manager, s)
      <4>1. PICK b \in Manager.registered :
               /\ b \in s.registered
               /\ s.base[b] # Manager.base[b] \/ s.len[b] # Manager.len[b]
               /\ s.ref[b] > 0
        BY <2>4, <3>3 DEF Reused
      <4>2. Same(s, t, b) /\ t.ref[b] > 0
        BY <3>1, <3>2, <4>1
      <4> HIDE DEF t
      <4> QED BY <4>1, <4>2 DEF Reused, Same
    <3>4. CASE Sound(Manager, s)
      <4>1. Reused(s, t) \/ Sound(s, t)
        BY <1>3, <2>2, <2>4, <3>4, ClaimSound DEF Sound
      <4> HIDE DEF t
      <4>2. CASE Reused(s, t)
        <5>1. PICK b \in s.registered :
                 /\ b \in t.registered
                 /\ t.base[b] # s.base[b] \/ t.len[b] # s.len[b]
                 /\ ~t.ok \/ t.ref[b] > 0
          BY <4>2 DEF Reused
        <5>2. b \in Manager.registered
          BY <3>1, <3>2, <3>4, <5>1 DEF Sound, Same
        <5>3. s.base[b] = Manager.base[b] /\ s.len[b] = Manager.len[b]
          BY <3>4, <5>2 DEF Sound, Same
        <5> QED BY <5>1, <5>2, <5>3 DEF Reused
      <4>3. CASE Sound(s, t)
        <5>1. \A b \in Manager.registered : Same(Manager, s, b) /\ b \in s.registered
                                            /\ Same(s, t, b)
          BY <3>4, <4>3 DEF Sound, Same
        <5>2. \A b \in Manager.registered : Same(Manager, t, b)
          BY <5>1 DEF Same
        <5>3. ASSUME NEW b \in t.registered \ Manager.registered
              PROVE  t.ref[b] > 0
          <6>1. CASE b \in s.registered
            BY <3>1, <3>2, <3>4, <5>3, <6>1 DEF Sound
          <6>2. CASE b \notin s.registered
            BY <4>3, <5>3, <6>2 DEF Sound
          <6> QED BY <6>1, <6>2
        <5> QED BY <4>3, <5>2, <5>3 DEF Sound
      <4> QED BY <4>1, <4>2, <4>3
    <3> QED BY <1>4, <3>3, <3>4
  <2> QED BY <2>3, <2>4
<1> QED BY <1>2, <1>5, <1>6

\* While the manager is in service every bank is registered for its range.
Descriptors == DescriptorCovers /\ (state = "ready" => Honest(Manager))

LEMMA PinnedCovers ==
    ASSUME Inv, DescriptorCovers, Pinned, NEW h \in Handles, NEW r \in handle[h].banks
    PROVE  r.bank \in registered' /\ Covers(mr'[r.bank], r.iov)
BY InUse DEF Pinned, DescriptorCovers

LEMMA DescriptorsStep ==
    ASSUME "REG" \notin Faults, Inv, Descriptors, Next, KeepsRanges
    PROVE  Descriptors'
<1> USE DEF Descriptors
<1>1. ASSUME NEW h \in Handles, NEW m \in Messages,
             NEW faults \in [{1, 2} -> Faults \cup {"NONE"}], Describe(h, m, faults)
      PROVE  Descriptors'
  <2> DEFINE s == ClaimAll(Manager, m, faults)
             t == Unclaim(s, s.banks, s.slabs)
             g == [banks |-> s.banks, slabs |-> s.slabs, live |-> TRUE]
             n == IF s.ok THEN s ELSE t
  <2>1. Pinned /\ TypeOK /\ Account(s)
    BY <1>1, DescribeStep, ClaimAllAccount DEF Describe, Inv
  <2>2. /\ state = "ready" /\ age + Len(m) <= MaxAge
        /\ faults[1] # "REG" /\ faults[2] # "REG"
        /\ SetManager(n) /\ handle' \in {handle, [handle EXCEPT ![h] = g]}
        /\ ~s.ok => UNCHANGED handle
    BY <1>1 DEF Describe
  <2>3. Reused(Manager, s) \/ Sound(Manager, s)
    BY <2>2, ClaimAllSound
  <2>4. /\ t.base = s.base /\ t.len = s.len /\ t.mr = s.mr /\ t.registered = s.registered
    BY <2>1, UnclaimAccount
  <2>5. /\ base' = s.base /\ len' = s.len /\ mr' = s.mr /\ registered' = s.registered
    BY <2>2, <2>4 DEF SetManager
  <2> HIDE DEF s, t, n
  <2>6. ~Reused(Manager, s)
    BY <2>5 DEF Reused, KeepsRanges, Manager
  <2>7. Sound(Manager, s)
    BY <2>3, <2>6
  <2>8. Honest(Manager)'
    BY <2>5, <2>7 DEF Sound, Honest, Manager
  <2>9. ASSUME NEW k \in Handles, NEW r \in handle'[k].banks
        PROVE  r.bank \in registered' /\ Covers(mr'[r.bank], r.iov)
    <3>1. CASE r \in handle[k].banks
      BY <2>1, <3>1, PinnedCovers
    <3>2. CASE r \notin handle[k].banks
      <4>1. r \in s.banks
        BY <2>2, <2>9, <3>2 DEF Inv, HandlesOK
      <4> QED BY <2>5, <2>7, <4>1 DEF Sound, Covered
    <3> QED BY <3>1, <3>2
  <2> QED BY <2>8, <2>9 DEF DescriptorCovers
<1>2. ASSUME NEW h \in Handles, Release(h) PROVE Descriptors'
  <2>1. Pinned
    BY <1>2, ReleaseStep
  <2>2. /\ handle' = [handle EXCEPT ![h] = None] /\ state = "ready"
        /\ UNCHANGED <<base, len, mr, registered, state>>
    BY <1>2 DEF Release, SetManager, Unclaim, Manager
  <2>3. \A k \in Handles : handle'[k].banks \subseteq handle[k].banks
    BY <2>2 DEF Inv, HandlesOK, None
  <2>4. DescriptorCovers'
    BY <2>1, <2>3, PinnedCovers DEF DescriptorCovers
  <2>5. Honest(Manager)'
    BY <2>2 DEF Honest, Manager
  <2> QED BY <2>4, <2>5
<1>3. ASSUME NEW range \in Marks, NEW fault \in Faults \cup {"NONE"}, Mark(range, fault)
      PROVE  Descriptors'
  <2>1. Pinned /\ UNCHANGED handle /\ state' = "hung"
    BY <1>3, MarkStep DEF Mark
  <2> QED BY <2>1, PinnedCovers DEF DescriptorCovers
<1>4. ASSUME NEW range \in Marks, NEW fault \in Faults \cup {"NONE"}, Invalidate(range, fault)
      PROVE  Descriptors'
  <2>1. Pinned /\ UNCHANGED <<handle, mr>> /\ state = "ready"
    BY <1>4, InvalidateStep DEF Invalidate
  <2>2. Honest(Manager)'
    BY <1>4, <2>1 DEF Invalidate, Honest, Manager, NULL
  <2> QED BY <2>1, <2>2, PinnedCovers DEF DescriptorCovers
<1>5. ASSUME NEW fault \in Faults \cup {"NONE"}, Term(fault) PROVE Descriptors'
  <2>1. Pinned /\ UNCHANGED handle /\ state' # "ready"
    BY <1>5, TermStep DEF Term
  <2> QED BY <2>1, PinnedCovers DEF DescriptorCovers
<1> QED BY <1>1, <1>2, <1>3, <1>4, <1>5 DEF Next

\* Every send is given a descriptor that covers its data (ofimr.h:218), as
\* long as fi_mr_reg refuses nothing and no registered bank is used for other
\* memory: what DescriptorCovers finds has one of these two causes
\* (ofimr.c:282, 136-137), whatever else happens, a refused fi_close included.
THEOREM CoveredUnlessReused ==
    ASSUME "REG" \notin Faults
    PROVE  Spec /\ [][KeepsRanges]_vars => []DescriptorCovers
<1>1. Init => Descriptors
  <2> SUFFICES ASSUME Init PROVE Descriptors
    OBVIOUS
  <2>1. DescriptorCovers
    BY DEF Init, DescriptorCovers, None
  <2>2. Honest(Manager)
    BY DEF Init, Honest, Manager
  <2> QED BY <2>1, <2>2 DEF Descriptors
<1>2. Inv /\ Descriptors /\ [Next]_vars /\ [KeepsRanges]_vars => Descriptors'
  <2> SUFFICES ASSUME Inv, Descriptors, [Next]_vars, [KeepsRanges]_vars PROVE Descriptors'
    OBVIOUS
  <2>1. CASE UNCHANGED vars
    <3>1. DescriptorCovers'
      BY <2>1 DEF vars, Descriptors, DescriptorCovers
    <3>2. state' = "ready" => Honest(Manager)'
      BY <2>1 DEF vars, Descriptors, Honest, Manager
    <3> QED BY <3>1, <3>2 DEF Descriptors
  <2>2. CASE Next /\ KeepsRanges
    BY <2>2, DescriptorsStep
  <2> QED BY <2>1, <2>2
<1>3. Descriptors => DescriptorCovers
  BY DEF Descriptors
<1> QED BY <1>1, <1>2, <1>3, InvAlways, PTL DEF Spec
=============================================================================
