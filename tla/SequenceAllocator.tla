------------------------ MODULE SequenceAllocator ------------------------
(***************************************************************************)
(* What the wallet's signer data promises: numbers handed out one at a     *)
(* time from a counter that is seeded once, given back only from the top,  *)
(* and moved anywhere else only by adopting the number the chain names.    *)
(* WalletSequence implements this with the awaits, queries and broadcasts  *)
(* of the code.                                                            *)
(***************************************************************************)
EXTENDS Integers

CONSTANT Callers

Null == -1

VARIABLES
  next,     \* the number to hand out next, Null until seeded
  held,     \* the number each caller holds, or Null
  overlap   \* a number was adopted while others were held, and some still are

vars == <<next, held, overlap>>

TypeOK ==
  /\ next \in Nat \cup {Null}
  /\ held \in [Callers -> Nat \cup {Null}]
  /\ overlap \in BOOLEAN

Holders == {c \in Callers : held[c] # Null}

OthersHold(c) == \E d \in Callers \ {c} : held[d] # Null

Init ==
  /\ next = Null
  /\ held = [c \in Callers |-> Null]
  /\ overlap = FALSE

\* The counter is read from the chain once, before anything is handed out.
Seed ==
  /\ next = Null
  /\ next' \in Nat
  /\ UNCHANGED <<held, overlap>>

Reserve(c) ==
  /\ next # Null
  /\ held[c] = Null
  /\ held' = [held EXCEPT ![c] = next]
  /\ next' = next + 1
  /\ UNCHANGED overlap

\* A holder is done with its number; the topmost may be handed out again.
Return(c) ==
  /\ held[c] # Null
  /\ held' = [held EXCEPT ![c] = Null]
  /\ \/ UNCHANGED next
     \/ next = held[c] + 1 /\ next' = held[c]
  /\ overlap' = (overlap /\ OthersHold(c))

Adopt(c) ==
  /\ held[c] # Null
  /\ held' = [held EXCEPT ![c] = Null]
  /\ next' \in Nat
  /\ overlap' = OthersHold(c)

Next == Seed \/ \E c \in Callers : Reserve(c) \/ Return(c) \/ Adopt(c)

Spec == Init /\ [][Next]_vars

\* Numbers held at once are distinct and below the counter, unless one was adopted
\* under other holders (signerData() in wallet.mjs).
Distinct ==
  ~overlap => /\ \A c \in Holders : held[c] < next
              /\ \A c, d \in Holders : held[c] = held[d] => c = d
===========================================================================
