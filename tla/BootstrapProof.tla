--------------------------- MODULE BootstrapProof ---------------------------
(***************************************************************************)
(* Whoever listens finds every row once, for any number of instances and   *)
(* of crashes.                                                             *)
(*                                                                         *)
(* The argument.  A start that has come to a key has seen a row for every  *)
(* key before it, its own or another's; rows are never removed, and the    *)
(* unique index keeps a name from having two.  So when a start has passed  *)
(* the last key there is one row for each, and that stays so.              *)
(***************************************************************************)
EXTENDS Bootstrap, TLAPS

\* What a start has behind it, at whatever call it is.
Passed ==
  \A i \in Instances : \A k \in DOMAIN Keys :
    k < key[i] => rows[Keys[k]] = 1

Unique == \A n \in Name : rows[n] \in {0, 1}

BootInv == TypeOK /\ Passed /\ Unique /\ ListeningIsReady

-----------------------------------------------------------------------------

\* The keys, as far as the proofs need them.
LEMMA KeysFacts ==
  /\ Len(Keys) = 4
  /\ DOMAIN Keys = 1 .. 4
  /\ \A k \in 1 .. 4 : Keys[k] \in Name
  /\ \A n \in Name : \E k \in 1 .. 4 : n = Keys[k]
BY DEF Keys, Name

\* Nothing has been passed when nobody has started.
LEMMA BootInit == Init => BootInv
<1> SUFFICES ASSUME Init
             PROVE  BootInv
  OBVIOUS
<1> USE KeysFacts DEF Init
<1>1. TypeOK
  <2>1. migrated \in BOOLEAN
    OBVIOUS
  <2>2. faults \in 0 .. MaxFaults
    BY BootstrapAssumption
  <2>3. /\ rows \in [Name -> Nat]
        /\ key \in [Instances -> 1 .. Len(Keys)]
        /\ pc \in [Instances -> {"down", "listening"} \cup Starting]
    OBVIOUS
  <2> QED BY <2>1, <2>2, <2>3 DEF TypeOK
<1>2. Passed
  BY DEF Passed
<1>3. Unique /\ ListeningIsReady
  BY DEF Unique, ListeningIsReady
<1> QED BY <1>1, <1>2, <1>3 DEF BootInv

\* A step that adds a row leaves every other row alone.
LEMMA RowsGrow ==
  ASSUME BootInv, [Next]_vars
  PROVE  \A n \in Name : rows[n] = 1 => rows'[n] = 1
<1>1. ASSUME NEW i \in Instances, Create(i)
      PROVE  \A n \in Name : rows[n] = 1 => rows'[n] = 1
  BY <1>1, KeysFacts DEF Create, BootInv, TypeOK
<1> QED
  BY <1>1 DEF Next, BootStep, Start, Migrate, Find, Dies, vars

\* On to the next key, which is only done when the row of this one is there.
LEMMA NextKeyKeeps ==
  ASSUME BootInv, NEW i \in Instances, NextKey(i),
         rows' \in [Name -> Nat], rows'[Keys[key[i]]] = 1,
         migrated' \in BOOLEAN, faults' \in 0 .. MaxFaults,
         \A n \in Name : rows[n] = 1 => rows'[n] = 1,
         Unique'
  PROVE  BootInv'
<1> USE KeysFacts DEF BootInv, TypeOK, NextKey, Goto, Starting
<1>1. TypeOK'
  OBVIOUS
<1>2. Passed'
  <2> SUFFICES ASSUME NEW j \in Instances, NEW k \in DOMAIN Keys, k < key'[j]
               PROVE  rows'[Keys[k]] = 1
    BY DEF Passed
  <2>1. k < key[j] \/ (j = i /\ k = key[i])
    OBVIOUS
  <2> QED BY <2>1 DEF Passed
<1>3. ListeningIsReady'
  <2>1. CASE \E j \in Instances : pc[j] = "listening"
    BY <2>1 DEF ListeningIsReady
  <2>2. CASE key[i] = 4
    <3>1. \A k \in 1 .. 4 : rows'[Keys[k]] = 1
      BY <2>2 DEF Passed
    <3> QED BY <3>1 DEF ListeningIsReady
  <2>3. CASE key[i] < 4 /\ ~\E j \in Instances : pc[j] = "listening"
    BY <2>3 DEF ListeningIsReady
  <2> QED BY <2>1, <2>2, <2>3
<1> QED BY <1>1, <1>2, <1>3

\* Every step keeps the invariant.
LEMMA BootNext == BootInv /\ [Next]_vars => BootInv'
<1> SUFFICES ASSUME BootInv, [Next]_vars
             PROVE  BootInv'
  OBVIOUS
<1> USE KeysFacts, BootstrapAssumption
    DEF BootInv, TypeOK, Goto, Exit, Starting
<1>1. CASE UNCHANGED vars
  BY <1>1 DEF vars, Passed, Unique, ListeningIsReady
<1>2. ASSUME NEW i \in Instances, Start(i)
      PROVE  BootInv'
  BY <1>2 DEF Start, Passed, Unique, ListeningIsReady
<1>3. ASSUME NEW i \in Instances, Migrate(i)
      PROVE  BootInv'
  <2>1. migrated' \in BOOLEAN
    BY <1>3 DEF Migrate
  <2>2. faults' \in 0 .. MaxFaults
    BY <1>3 DEF Migrate
  <2>3. Passed' /\ Unique' /\ ListeningIsReady'
    BY <1>3 DEF Migrate, Passed, Unique, ListeningIsReady
  <2> QED BY <1>3, <2>1, <2>2, <2>3 DEF Migrate
<1>4. ASSUME NEW i \in Instances, Find(i)
      PROVE  BootInv'
  <2>1. CASE ~migrated
    BY <1>4, <2>1 DEF Find, Passed, Unique, ListeningIsReady
  <2>2. CASE migrated /\ rows[Keys[key[i]]] = 0
    BY <1>4, <2>2 DEF Find, Passed, Unique, ListeningIsReady
  <2>3. CASE migrated /\ rows[Keys[key[i]]] # 0
    <3>1. rows[Keys[key[i]]] = 1
      BY <2>3 DEF Unique
    <3>2. NextKey(i) /\ UNCHANGED <<rows, migrated, faults>>
      BY <1>4, <2>3 DEF Find
    <3> QED BY <3>1, <3>2, NextKeyKeeps DEF Unique
  <2> QED BY <2>1, <2>2, <2>3
<1>5. ASSUME NEW i \in Instances, Create(i)
      PROVE  BootInv'
  <2>1. CASE rows[Keys[key[i]]] = 0
    <3>1. /\ rows' = [rows EXCEPT ![Keys[key[i]]] = 1]
          /\ NextKey(i)
          /\ UNCHANGED <<migrated, faults>>
      BY <1>5, <2>1 DEF Create
    <3>2. rows' \in [Name -> Nat] /\ rows'[Keys[key[i]]] = 1 /\ Unique'
      BY <3>1 DEF Unique
    <3> QED BY <3>1, <3>2, RowsGrow, NextKeyKeeps
  <2>2. CASE rows[Keys[key[i]]] # 0
    BY <1>5, <2>2 DEF Create, Passed, Unique, ListeningIsReady
  <2> QED BY <2>1, <2>2
<1>6. ASSUME NEW i \in Instances, Dies(i)
      PROVE  BootInv'
  BY <1>6 DEF Dies, Passed, Unique, ListeningIsReady
<1> QED BY <1>1, <1>2, <1>3, <1>4, <1>5, <1>6 DEF Next, BootStep

\* An instance that listens finds its rows, however the starts interleaved.
THEOREM ListeningIsReadyHolds == Spec => []ListeningIsReady
<1>1. BootInv => ListeningIsReady
  BY DEF BootInv
<1> QED BY <1>1, BootInit, BootNext, PTL DEF Spec

\* The state of a start is one of the code's at every call.
THEOREM BootTypeCorrect == Spec => []TypeOK
<1>1. BootInv => TypeOK
  BY DEF BootInv
<1> QED BY <1>1, BootInit, BootNext, PTL DEF Spec

=============================================================================
