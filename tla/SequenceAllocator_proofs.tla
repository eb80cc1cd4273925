--------------------- MODULE SequenceAllocator_proofs ---------------------
(* Distinct holds of SequenceAllocator for every set of callers. *)
EXTENDS SequenceAllocator, TLAPS

\* Every number is a natural or Null: what signerData() hands out is never
\* the unread counter.
THEOREM AllocatorTypeOK == Spec => []TypeOK
<1>1. Init => TypeOK
  BY DEF Init, TypeOK, Null
<1>2. TypeOK /\ [Next]_vars => TypeOK'
  <2> SUFFICES ASSUME TypeOK, [Next]_vars PROVE TypeOK'
    OBVIOUS
  <2>1. CASE Seed
    BY <2>1 DEF Seed, TypeOK
  <2>2. ASSUME NEW c \in Callers, Reserve(c) PROVE TypeOK'
    BY <2>2 DEF Reserve, TypeOK, Null
  <2>3. ASSUME NEW c \in Callers, Return(c) PROVE TypeOK'
    BY <2>3 DEF Return, TypeOK, OthersHold, Null
  <2>4. ASSUME NEW c \in Callers, Adopt(c) PROVE TypeOK'
    BY <2>4 DEF Adopt, TypeOK, OthersHold, Null
  <2>5. CASE UNCHANGED vars
    BY <2>5 DEF vars, TypeOK
  <2> QED
    BY <2>1, <2>2, <2>3, <2>4, <2>5 DEF Next
<1> QED
  BY <1>1, <1>2, PTL DEF Spec

\* The inductive strengthening: nothing is held before the counter is seeded.
Inv == Distinct /\ (next = Null => Holders = {})

\* No two holders share a number unless one was adopted under them.
THEOREM AllocatorDistinct == Spec => []Distinct
<1>1. Init => Inv
  BY DEF Init, Inv, Distinct, Holders
<1>2. TypeOK /\ Inv /\ [Next]_vars => Inv'
  <2> SUFFICES ASSUME TypeOK, Inv, [Next]_vars PROVE Inv'
    OBVIOUS
  <2> USE DEF TypeOK, Inv, Distinct, Holders, Null
  <2>1. CASE Seed
    BY <2>1 DEF Seed
  <2>2. ASSUME NEW c \in Callers, Reserve(c) PROVE Inv'
    BY <2>2 DEF Reserve
  <2>3. ASSUME NEW c \in Callers, Return(c) PROVE Inv'
    <3>1. CASE ~OthersHold(c)
      BY <2>3, <3>1 DEF Return, OthersHold
    <3>2. CASE OthersHold(c) /\ UNCHANGED next
      BY <2>3, <3>2 DEF Return
    <3>3. CASE OthersHold(c) /\ next = held[c] + 1 /\ next' = held[c]
      BY <2>3, <3>3 DEF Return
    <3> QED
      BY <2>3, <3>1, <3>2, <3>3 DEF Return
  <2>4. ASSUME NEW c \in Callers, Adopt(c) PROVE Inv'
    BY <2>4 DEF Adopt, OthersHold
  <2>5. CASE UNCHANGED vars
    BY <2>5 DEF vars
  <2> QED
    BY <2>1, <2>2, <2>3, <2>4, <2>5 DEF Next
<1>3. Inv => Distinct
  BY DEF Inv
<1> QED
  BY <1>1, <1>2, <1>3, AllocatorTypeOK, PTL DEF Spec
===========================================================================
