----------------------------- MODULE OwnerProofs ------------------------------
(***************************************************************************)
(* Proofs about ProviderOwner, for any number of places and ProviderImpls  *)
(* and callbacks: the inductive invariant IInv, and from it which          *)
(* ProviderImpls are left when the engine ends, that nothing is            *)
(* dereferenced that is not there until it begins to, and that no callback *)
(* outlives a Provider that stays in its place.                            *)
(***************************************************************************)
EXTENDS OwnerInvariant, Integers, SequenceTheorems, WellFoundedInduction, TLAPS

-----------------------------------------------------------------------------
(* The engine's list of callbacks.                                         *)

(* A set of positions in a list has a last one, which CHOOSE finds in      *)
(* pop_finalize_callback.                                                  *)
LEMMA LastPosition ==
  ASSUME NEW n \in Nat, NEW P \in SUBSET (1..n), P # {}
  PROVE  \E m \in P : \A j \in P : j <= m
<1> DEFINE T == {n - i : i \in P}
<1>1. T \subseteq Nat /\ T # {}
  <2>1. \A i \in P : i \in Nat /\ i <= n
    OBVIOUS
  <2>2. \A i \in P : n - i \in Nat
    BY <2>1
  <2> QED
    BY <2>2
<1>2. PICK x \in T : \A y \in T : ~(<<y, x>> \in OpToRel(<, Nat))
  <2> HIDE DEF T
  <2> QED
    BY <1>1, NatLessThanWellFounded, WFMin
<1>3. \A y \in T : ~(y < x)
  BY <1>1, <1>2 DEF OpToRel
<1>4. PICK m \in P : x = n - m
  OBVIOUS
<1>5. \A j \in P : n - j \in T
  OBVIOUS
<1>6. \A j \in P : ~(n - j < n - m)
  BY <1>3, <1>4, <1>5
<1>7. \A j \in P : j <= m
  <2>1. \A j \in P : j \in Nat
    OBVIOUS
  <2> QED
    BY <1>6, <2>1
<1> QED
  BY <1>7

(***************************************************************************)
(* pop_finalize_callback(p, list): each entry that is left was in the list,*)
(* the entries of other owners are left, and one of p is not.  f tells     *)
(* where an entry came from.                                               *)
(***************************************************************************)
IsPopped(list, p, popped) ==
  /\ popped \in Seq(Place)
  /\ \E f \in [DOMAIN popped -> DOMAIN list] :
       /\ \A i \in DOMAIN popped : popped[i] = list[f[i]]
       /\ \A i, j \in DOMAIN popped : f[i] = f[j] => i = j
       /\ \A k \in DOMAIN list :
            list[k] # p => \E i \in DOMAIN popped : f[i] = k
       /\ Positions(p, list) # {} =>
            \E k \in Positions(p, list) : \A i \in DOMAIN popped : f[i] # k

(* What pop_finalize_callback leaves in the list (margo).                  *)
LEMMA PopProperties ==
  ASSUME NEW list \in Seq(Place), NEW p \in Place
  PROVE  IsPopped(list, p, pop_finalize_callback(p, list))
<1> DEFINE popped == pop_finalize_callback(p, list)
           n == Len(list)
<1>0. n \in Nat /\ DOMAIN list = 1..n /\ \A i \in 1..n : list[i] \in Place
  BY LenProperties, ElementOfSeq
<1>1. CASE Positions(p, list) = {}
  <2>1. popped = list
    BY <1>1 DEF pop_finalize_callback
  <2> DEFINE f == [i \in DOMAIN list |-> i]
  <2>2. f \in [DOMAIN popped -> DOMAIN list]
    BY <2>1
  <2> QED
    BY <1>1, <2>1, <2>2 DEF IsPopped
<1>2. CASE Positions(p, list) # {}
  <2> DEFINE last == CHOOSE i \in Positions(p, list) :
                       \A j \in Positions(p, list) : j <= i
             front == SubSeq(list, 1, last - 1)
             back  == SubSeq(list, last + 1, n)
  <2>1. last \in Positions(p, list)
    <3>1. Positions(p, list) \in SUBSET (1..n)
      BY <1>0 DEF Positions
    <3> QED
      BY <1>0, <1>2, <3>1, LastPosition
  <2>2. /\ last \in 1..n /\ list[last] = p
        /\ last \in Nat /\ 1 <= last /\ last <= n
    BY <1>0, <2>1 DEF Positions
  <2>3. popped = front \o back
    BY <1>2 DEF pop_finalize_callback
  <2> HIDE DEF last, n
  <2>4. /\ front \in Seq(Place) /\ Len(front) = last - 1
        /\ \A i \in 1..(last - 1) : front[i] = list[i]
    BY <1>0, <2>2, SubSeqProperties
  <2>5. /\ back \in Seq(Place) /\ Len(back) = n - last
        /\ \A i \in 1..(n - last) : back[i] = list[last + i]
    <3>1. last + 1 \in Int /\ \A i \in (last + 1)..n : list[i] \in Place
      BY <1>0, <2>2
    <3>2. /\ back \in Seq(Place)
          /\ Len(back) = IF last + 1 <= n THEN n - (last + 1) + 1 ELSE 0
          /\ \A i \in 1..(n - (last + 1) + 1) :
               back[i] = list[last + 1 + i - 1]
      BY <1>0, <3>1, SubSeqProperties
    <3> HIDE DEF back
    <3>3. n - (last + 1) + 1 = n - last
      BY <1>0, <2>2
    <3>4. \A i \in 1..(n - last) : last + 1 + i - 1 = last + i
      BY <1>0, <2>2
    <3>5. Len(back) = n - last
      <4>1. CASE last = n
        BY <1>0, <3>2, <4>1
      <4>2. CASE last < n
        BY <1>0, <2>2, <3>2, <3>3, <4>2
      <4> QED
        BY <1>0, <2>2, <4>1, <4>2
    <3>6. \A i \in 1..(n - last) : back[i] = list[last + i]
      BY <3>2, <3>3, <3>4
    <3> QED
      BY <3>2, <3>5, <3>6
  <2> HIDE DEF front, back
  <2>6. /\ popped \in Seq(Place) /\ Len(popped) = n - 1
        /\ \A i \in 1..(n - 1) :
             popped[i] = list[IF i < last THEN i ELSE i + 1]
    <3>1. /\ popped \in Seq(Place) /\ Len(popped) = n - 1
          /\ \A i \in 1..(n - 1) :
               popped[i] = IF i <= last - 1 THEN front[i]
                           ELSE back[i - (last - 1)]
      <4>1. /\ front \o back \in Seq(Place)
            /\ Len(front \o back) = Len(front) + Len(back)
            /\ \A i \in 1..(Len(front) + Len(back)) : (front \o back)[i] =
                 IF i <= Len(front) THEN front[i] ELSE back[i - Len(front)]
        BY <2>4, <2>5, ConcatProperties
      <4>2. Len(front) + Len(back) = n - 1
        BY <1>0, <2>2, <2>4, <2>5
      <4> QED
        BY <2>3, <2>4, <4>1, <4>2
    <3> HIDE DEF popped
    <3> QED
      BY <1>0, <2>2, <2>4, <2>5, <3>1
  <2> HIDE DEF popped
  <2>7. DOMAIN popped = 1..(n - 1)
    BY <2>6, LenProperties
  <2> DEFINE f == [i \in 1..(n - 1) |-> IF i < last THEN i ELSE i + 1]
  <2>8. f \in [1..(n - 1) -> 1..n]
    BY <1>0, <2>2
  <2>9. \A k \in 1..n : k # last => \E i \in 1..(n - 1) : f[i] = k
    <3>1. SUFFICES ASSUME NEW k \in 1..n, k # last
                   PROVE  \E i \in 1..(n - 1) : f[i] = k
      OBVIOUS
    <3>2. CASE k < last
      BY <1>0, <2>2, <3>1, <3>2
    <3>3. CASE ~(k < last)
      <4>1. k - 1 \in 1..(n - 1) /\ ~(k - 1 < last)
        BY <1>0, <2>2, <3>1, <3>3
      <4>2. f[k - 1] = k
        BY <1>0, <4>1
      <4> QED
        BY <4>1, <4>2
    <3> QED
      BY <3>2, <3>3
  <2>10. \A i \in 1..(n - 1) : f[i] # last
    BY <1>0, <2>2
  <2>11. \A i, j \in 1..(n - 1) : f[i] = f[j] => i = j
    BY <1>0, <2>2
  <2>12. \A i \in 1..(n - 1) : popped[i] = list[f[i]]
    BY <2>6
  <2> HIDE DEF f
  <2>13. /\ \A k \in 1..n : list[k] # p => \E i \in 1..(n - 1) : f[i] = k
         /\ \E k \in Positions(p, list) : \A i \in 1..(n - 1) : f[i] # k
    BY <2>1, <2>2, <2>9, <2>10
  <2>14. f \in [DOMAIN popped -> DOMAIN list]
    BY <1>0, <2>7, <2>8
  <2>15. /\ \A i \in DOMAIN popped : popped[i] = list[f[i]]
         /\ \A i, j \in DOMAIN popped : f[i] = f[j] => i = j
         /\ \A k \in DOMAIN list :
              list[k] # p => \E i \in DOMAIN popped : f[i] = k
         /\ Positions(p, list) # {} =>
              \E k \in Positions(p, list) : \A i \in DOMAIN popped : f[i] # k
    BY <1>0, <2>7, <2>11, <2>12, <2>13
  <2>16. IsPopped(list, p, popped)
    BY <2>6, <2>14, <2>15 DEF IsPopped
  <2> QED
    BY <2>16 DEF popped
<1> QED
  BY <1>1, <1>2

(* The callbacks of other owners stay when one of p is popped.             *)
LEMMA PopOthers ==
  ASSUME NEW list \in Seq(Place), NEW p \in Place, NEW q \in Place, q # p,
         NEW popped, IsPopped(list, p, popped),
         Positions(q, list) # {}
  PROVE  Positions(q, popped) # {}
<1>1. PICK f \in [DOMAIN popped -> DOMAIN list] :
        /\ \A i \in DOMAIN popped : popped[i] = list[f[i]]
        /\ \A i, j \in DOMAIN popped : f[i] = f[j] => i = j
        /\ \A k \in DOMAIN list :
             list[k] # p => \E i \in DOMAIN popped : f[i] = k
        /\ Positions(p, list) # {} =>
             \E k \in Positions(p, list) : \A i \in DOMAIN popped : f[i] # k
  BY DEF IsPopped
<1>2. PICK k \in DOMAIN list : list[k] = q
  BY DEF Positions
<1> QED
  BY <1>1, <1>2 DEF Positions

(* Of a Provider that stays in its place the callback that is popped was   *)
(* the only one; it is left in the list once if another's is popped.       *)
LEMMA PinnedPopped ==
  ASSUME TypeOK, PinnedInv, NEW p \in Place,
         NEW popped, IsPopped(callbacks, p, popped),
         NEW i \in DOMAIN popped, popped[i] \in Place \ Movable
  PROVE  /\ popped[i] # p
         /\ Positions(popped[i], popped) = {i}
         /\ \E k \in DOMAIN callbacks : callbacks[k] = popped[i]
<1>1. PICK f \in [DOMAIN popped -> DOMAIN callbacks] :
        /\ \A j \in DOMAIN popped : popped[j] = callbacks[f[j]]
        /\ \A j, k \in DOMAIN popped : f[j] = f[k] => j = k
        /\ \A k \in DOMAIN callbacks :
             callbacks[k] # p => \E j \in DOMAIN popped : f[j] = k
        /\ Positions(p, callbacks) # {} =>
             \E k \in Positions(p, callbacks) :
               \A j \in DOMAIN popped : f[j] # k
  BY DEF IsPopped
<1>2. i \in DOMAIN popped /\ popped[i] \in Place \ Movable
  OBVIOUS
<1>3. f[i] \in DOMAIN callbacks /\ Positions(popped[i], callbacks) = {f[i]}
  BY <1>1, <1>2 DEF PinnedInv
<1>4. popped[i] # p
  BY <1>1, <1>2, <1>3
<1>5. \A j \in DOMAIN popped : popped[j] = popped[i] => j = i
  BY <1>1, <1>2, <1>3 DEF Positions
<1>6. Positions(popped[i], popped) = {i}
  BY <1>2, <1>5 DEF Positions
<1> QED
  BY <1>1, <1>3, <1>4, <1>6

(* push_finalize_callback(p, list): one more entry, at the end.            *)
IsPushed(list, p, pushed) ==
  /\ pushed \in Seq(Place)
  /\ DOMAIN pushed = DOMAIN list \cup {Len(list) + 1}
  /\ Len(list) + 1 \notin DOMAIN list
  /\ \A i \in DOMAIN list : pushed[i] = list[i]
  /\ pushed[Len(list) + 1] = p

(* What push_finalize_callback adds to the list (margo).                   *)
LEMMA PushProperties ==
  ASSUME NEW list \in Seq(Place), NEW p \in Place
  PROVE  IsPushed(list, p, push_finalize_callback(p, list))
<1> DEFINE pushed == push_finalize_callback(p, list)
<1>1. /\ Len(list) \in Nat /\ DOMAIN list = 1..Len(list)
      /\ pushed \in Seq(Place)
      /\ Len(pushed) = Len(list) + 1
      /\ \A i \in 1..Len(list) : pushed[i] = list[i]
      /\ pushed[Len(list) + 1] = p
  BY LenProperties, AppendProperties DEF push_finalize_callback
<1>2. DOMAIN pushed = 1..(Len(list) + 1)
  BY <1>1, LenProperties
<1>3. 1..(Len(list) + 1) = 1..Len(list) \cup {Len(list) + 1}
  BY <1>1
<1> HIDE DEF pushed
<1>4. IsPushed(list, p, pushed)
  BY <1>1, <1>2, <1>3 DEF IsPushed
<1> QED
  BY <1>4 DEF pushed

(* RunCallback: the list without its newest entry.                         *)
LEMMA FrontProperties ==
  ASSUME NEW list \in Seq(Place), list # <<>>,
         NEW front, front = SubSeq(list, 1, Len(list) - 1)
  PROVE  /\ front \in Seq(Place)
         /\ DOMAIN front = DOMAIN list \ {Len(list)}
         /\ Len(list) \in DOMAIN list
         /\ list[Len(list)] \in Place
         /\ \A i \in DOMAIN front : front[i] = list[i]
<1> DEFINE n == Len(list)
<1>1. /\ n \in Nat /\ n # 0 /\ DOMAIN list = 1..n
      /\ \A i \in 1..n : list[i] \in Place
      /\ front = SubSeq(list, 1, n - 1)
  BY LenProperties, ElementOfSeq, EmptySeq
<1> HIDE DEF n
<1>2. /\ front \in Seq(Place) /\ Len(front) = n - 1
      /\ \A i \in 1..(n - 1) : front[i] = list[i]
  <2>1. \A i \in 1..(n - 1) : list[i] \in Place
    BY <1>1
  <2>2. /\ front \in Seq(Place)
        /\ Len(front) = IF 1 <= n - 1 THEN n - 1 - 1 + 1 ELSE 0
        /\ \A i \in 1..(n - 1 - 1 + 1) : front[i] = list[1 + i - 1]
    BY <1>1, <2>1, SubSeqProperties
  <2>3. n - 1 - 1 + 1 = n - 1 /\ \A i \in 1..(n - 1) : 1 + i - 1 = i
    BY <1>1
  <2>4. CASE n = 1
    BY <2>2, <2>3, <2>4
  <2>5. CASE n > 1
    BY <1>1, <2>2, <2>3, <2>5
  <2> QED
    BY <1>1, <2>4, <2>5
<1>3. DOMAIN front = 1..(n - 1)
  BY <1>2, LenProperties
<1>4. 1..(n - 1) = 1..n \ {n} /\ n \in 1..n
  BY <1>1
<1> QED
  BY <1>1, <1>2, <1>3, <1>4 DEF n

-----------------------------------------------------------------------------
(* Every action preserves the invariant.                                   *)

(* An engine that has just been started (examples/server.cpp:22-24).       *)
LEMMA InitInv == Init => IInv
<1> SUFFICES ASSUME Init PROVE IInv
  OBVIOUS
<1>1. TypeOK
  BY EmptySeq DEF Init, TypeOK, Stage
<1>2. DOMAIN callbacks = {}
  BY LenProperties, EmptySeq DEF Init, TypeOK
<1>3. OwnedInv /\ SourceInv /\ CalledInv /\ PinnedInv /\ SelfInv
  BY <1>2 DEF Init, OwnedInv, SourceInv, CalledInv, PinnedInv, SelfInv
<1> QED
  BY <1>1, <1>3 DEF IInv

(* Construct: the new ProviderImpl has one owner, which is between two     *)
(* lines (Provider.cpp:17, 22).                                            *)
LEMMA ConstructStep ==
  ASSUME IInv, ~crashed, NEW p \in Place, Construct(p)
  PROVE  IInv'
<1> USE DEF IInv
<1>1. PICK i \in Impl \ used :
        /\ self' = [self EXCEPT ![p] = i]
        /\ used' = used \cup {i}
        /\ registered' = registered \cup {i}
  BY DEF Construct
<1>2. /\ stage[p] = "none"
      /\ stage' = [stage EXCEPT ![p] = "pointed"]
      /\ UNCHANGED <<source, callbacks, engine, crashed>>
      /\ i # Null
  BY OwnerAssumption DEF Construct
<1>3. TypeOK'
  BY <1>1, <1>2 DEF TypeOK, Stage
<1>4. OwnedInv'
  <2>1. self[p] = Null /\ \A q \in Place : self[q] # i
    BY <1>1, <1>2 DEF OwnedInv, TypeOK
  <2>2. \A j \in registered' : \E q \in Place : self'[q] = j
    BY <1>1, <2>1, OwnerAssumption DEF OwnedInv, TypeOK
  <2>3. \A q \in Place : self'[q] # Null =>
          stage'[q] \notin {"none", "moving"} /\ self'[q] \in registered'
    BY <1>1, <1>2 DEF OwnedInv, TypeOK
  <2>4. \A q, r \in Place : self'[q] = self'[r] /\ self'[q] # Null => q = r
    BY <1>1, <2>1 DEF OwnedInv, TypeOK
  <2> QED
    BY <2>2, <2>3, <2>4 DEF OwnedInv
<1>5. SourceInv'
  BY <1>2, OwnerAssumption DEF SourceInv, TypeOK
<1>6. CalledInv'
  BY <1>1, <1>2 DEF CalledInv, TypeOK, Between, Positions
<1>7. PinnedInv'
  BY <1>1, <1>2 DEF PinnedInv, TypeOK, Positions
<1>8. SelfInv'
  BY <1>1, <1>2, OwnerAssumption DEF SelfInv, SourceInv, TypeOK
<1> QED
  BY <1>3, <1>4, <1>5, <1>6, <1>7, <1>8

(* PushCallback: a Provider that owns something is called back             *)
(* (Provider.cpp:18, 23, 29).                                              *)
LEMMA PushCallbackStep ==
  ASSUME IInv, ~crashed, NEW p \in Place, PushCallback(p)
  PROVE  IInv'
<1> USE DEF IInv
<1>1. /\ callbacks' \in Seq(Place)
      /\ DOMAIN callbacks' = DOMAIN callbacks \cup {Len(callbacks) + 1}
      /\ Len(callbacks) + 1 \notin DOMAIN callbacks
      /\ \A k \in DOMAIN callbacks : callbacks'[k] = callbacks[k]
      /\ callbacks'[Len(callbacks) + 1] = p
  <2>1. callbacks \in Seq(Place)
        /\ callbacks' = push_finalize_callback(p, callbacks)
    BY DEF PushCallback, TypeOK
  <2>2. IsPushed(callbacks, p, callbacks')
    BY <2>1, PushProperties
  <2> QED
    BY <2>2 DEF IsPushed
<1>2. /\ stage[p] = "pointed"
      /\ self[p] # Null
      /\ stage' = [stage EXCEPT ![p] = "whole"]
      /\ UNCHANGED <<source, self, registered, used, engine, crashed>>
  BY DEF PushCallback
<1>3. TypeOK'
  BY <1>1, <1>2 DEF TypeOK, Stage
<1>4. OwnedInv'
  BY <1>2 DEF OwnedInv, TypeOK
<1>5. SourceInv'
  BY <1>2, OwnerAssumption DEF SourceInv, TypeOK
<1>6. CalledInv'
  BY <1>1, <1>2 DEF CalledInv, TypeOK, Between, Positions
<1>7. PinnedInv'
  <2>1. ASSUME NEW k \in DOMAIN callbacks, callbacks[k] \in Place \ Movable
        PROVE  /\ callbacks[k] # p
               /\ stage'[callbacks[k]] \in {"whole", "tested"}
               /\ self'[callbacks[k]] # Null
               /\ Positions(callbacks[k], callbacks') = {k}
    BY <1>1, <1>2, <2>1 DEF PinnedInv, TypeOK, Positions
  <2>2. ASSUME p \in Place \ Movable
        PROVE  Positions(p, callbacks') = {Len(callbacks) + 1}
    BY <1>1, <2>1, <2>2 DEF Positions
  <2> QED
    BY <1>1, <1>2, <2>1, <2>2 DEF PinnedInv, TypeOK
<1>8. SelfInv'
  BY <1>2 DEF SelfInv, TypeOK
<1> QED
  BY <1>3, <1>4, <1>5, <1>6, <1>7, <1>8

(* Move: other's callback stays in the list (Provider.cpp:27).             *)
LEMMA MoveStep ==
  ASSUME IInv, ~crashed, NEW p \in Place, NEW other \in Place, Move(p, other)
  PROVE  IInv'
<1> USE DEF IInv
<1>1. /\ stage[p] = "none" /\ stage[other] = "whole" /\ p # other
      /\ other \in Movable
      /\ self[other] # Null
      /\ stage' = [stage EXCEPT ![p] = "moving", ![other] = "given"]
      /\ source' = [source EXCEPT ![p] = other]
      /\ UNCHANGED <<self, registered, used, engine, crashed>>
  BY DEF Move
<1>2. self[p] = Null
  BY <1>1 DEF OwnedInv, TypeOK
<1>3. callbacks' \in Seq(Place) /\ IsPopped(callbacks, p, callbacks')
  <2>1. IsPopped(callbacks, p, pop_finalize_callback(p, callbacks))
    BY PopProperties DEF TypeOK
  <2>2. callbacks' = pop_finalize_callback(p, callbacks)
    BY DEF Move
  <2>3. IsPopped(callbacks, p, callbacks')
    BY <2>1, <2>2
  <2> QED
    BY <2>3 DEF IsPopped
<1>4. TypeOK'
  BY <1>1, <1>3 DEF TypeOK, Stage
<1>5. OwnedInv'
  BY <1>1, <1>2 DEF OwnedInv, TypeOK
<1>6. SourceInv'
  <2>1. ASSUME NEW q \in Place, stage'[q] = "moving", q # p
        PROVE  /\ stage[q] = "moving" /\ source'[q] = source[q]
               /\ source[q] \in Movable
               /\ stage[source[q]] = "given"
               /\ stage'[source[q]] = "given"
               /\ source[q] # other
    BY <1>1, <2>1, OwnerAssumption DEF SourceInv, TypeOK
  <2>2. source'[p] = other /\ stage'[other] = "given" /\ other \in Movable
    BY <1>1 DEF TypeOK
  <2>3. ASSUME NEW q \in Place, NEW r \in Place,
               stage'[q] = "moving", stage'[r] = "moving",
               source'[r] = source'[q]
        PROVE  r = q
    <3>1. CASE q = p \/ r = p
      BY <2>1, <2>2, <2>3, <3>1
    <3>2. CASE q # p /\ r # p
      BY <2>1, <2>3, <3>2 DEF SourceInv
    <3> QED
      BY <3>1, <3>2
  <2>4. ASSUME NEW q \in Place, stage'[q] = "moving"
        PROVE  source'[q] \in Movable /\ stage'[source'[q]] = "given"
    BY <2>1, <2>2, <2>4
  <2> QED
    BY <2>3, <2>4 DEF SourceInv
<1>7. CalledInv'
  <2>1. ASSUME engine' # "finalized", NEW q \in Place, self'[q] # Null,
               ~Between(q)'
        PROVE  Positions(q, callbacks') # {}
    <3>1. q # p /\ self[q] # Null /\ ~Between(q)
      BY <1>1, <1>2, <2>1 DEF Between, TypeOK
    <3>2. Positions(q, callbacks) # {}
      BY <1>1, <2>1, <3>1 DEF CalledInv
    <3> QED
      BY <1>3, <3>1, <3>2, PopOthers DEF TypeOK
  <2> QED
    BY <2>1 DEF CalledInv
<1>8. PinnedInv'
  <2>1. ASSUME NEW k \in DOMAIN callbacks', callbacks'[k] \in Place \ Movable
        PROVE  /\ callbacks'[k] # p
               /\ Positions(callbacks'[k], callbacks') = {k}
               /\ \E j \in DOMAIN callbacks : callbacks[j] = callbacks'[k]
    BY <1>3, <2>1, PinnedPopped
  <2> QED
    BY <1>1, <2>1 DEF PinnedInv, TypeOK
<1>9. SelfInv'
  BY <1>1, OwnerAssumption DEF SelfInv, SourceInv, TypeOK
<1> QED
  BY <1>4, <1>5, <1>6, <1>7, <1>8, <1>9

(* TakeSelf: the ProviderImpl has a new owner (Provider.cpp:28).           *)
LEMMA TakeSelfStep ==
  ASSUME IInv, ~crashed, NEW p \in Place, TakeSelf(p)
  PROVE  IInv'
<1> USE DEF IInv
<1>1. PICK other \in Movable :
        /\ source[p] = other /\ stage[other] = "given"
        /\ \A q \in Place :
             stage[q] = "moving" /\ source[q] = other => q = p
  BY DEF TakeSelf, SourceInv
<1>2. /\ other \in Place /\ p # other
      /\ stage[p] = "moving"
      /\ self' = [self EXCEPT ![p] = self[other], ![other] = Null]
      /\ stage' = [stage EXCEPT ![p] = "pointed", ![other] = "whole"]
      /\ source' = [source EXCEPT ![p] = Null]
      /\ UNCHANGED <<registered, used, callbacks, engine, crashed>>
  BY <1>1, OwnerAssumption DEF TakeSelf
<1>3. self[p] = Null
  BY <1>2 DEF OwnedInv
<1>4. TypeOK'
  BY <1>2 DEF TypeOK, Stage
<1>5. OwnedInv'
  BY <1>1, <1>2, <1>3 DEF OwnedInv, TypeOK
<1>6. SourceInv'
  BY <1>1, <1>2, OwnerAssumption DEF SourceInv, TypeOK
<1>7. CalledInv'
  BY <1>1, <1>2 DEF CalledInv, TypeOK, Between, Positions
<1>8. PinnedInv'
  BY <1>1, <1>2 DEF PinnedInv, TypeOK, Positions
<1>9. SelfInv'
  BY <1>1, <1>2, OwnerAssumption DEF SelfInv, SourceInv, TypeOK
<1> QED
  BY <1>4, <1>5, <1>6, <1>7, <1>8, <1>9

(* Destroy: who owns what is as before (Provider.cpp:33).                  *)
LEMMA DestroyStep ==
  ASSUME IInv, ~crashed, NEW p \in Place, Destroy(p)
  PROVE  IInv'
<1> USE DEF IInv
<1>1. /\ stage[p] = "whole"
      /\ stage' = [stage EXCEPT ![p] = IF self[p] = Null THEN "ending"
                                                        ELSE "tested"]
      /\ UNCHANGED <<source, self, registered, used, callbacks, engine,
                     crashed>>
  BY DEF Destroy
<1>2. TypeOK'
  BY <1>1 DEF TypeOK, Stage
<1>3. OwnedInv'
  BY <1>1 DEF OwnedInv, TypeOK
<1>4. SourceInv'
  BY <1>1, OwnerAssumption DEF SourceInv, TypeOK
<1>5. CalledInv'
  BY <1>1 DEF CalledInv, TypeOK, Between, Positions
<1>6. PinnedInv'
  BY <1>1 DEF PinnedInv, TypeOK, Positions
<1>7. SelfInv'
  BY <1>1 DEF SelfInv, TypeOK
<1> QED
  BY <1>2, <1>3, <1>4, <1>5, <1>6, <1>7

(* PopCallback: the Provider is not called back any more                   *)
(* (Provider.cpp:34).                                                      *)
LEMMA PopCallbackStep ==
  ASSUME IInv, ~crashed, NEW p \in Place, PopCallback(p)
  PROVE  IInv'
<1> USE DEF IInv
<1>1. /\ stage[p] = "tested"
      /\ stage' = [stage EXCEPT ![p] = "ending"]
      /\ UNCHANGED <<source, self, registered, used, engine, crashed>>
  BY DEF PopCallback
<1>2. callbacks' \in Seq(Place) /\ IsPopped(callbacks, p, callbacks')
  <2>1. IsPopped(callbacks, p, pop_finalize_callback(p, callbacks))
    BY PopProperties DEF TypeOK
  <2>2. callbacks' = pop_finalize_callback(p, callbacks)
    BY DEF PopCallback
  <2>3. IsPopped(callbacks, p, callbacks')
    BY <2>1, <2>2
  <2> QED
    BY <2>3 DEF IsPopped
<1>3. TypeOK'
  BY <1>1, <1>2 DEF TypeOK, Stage
<1>4. OwnedInv'
  BY <1>1 DEF OwnedInv, TypeOK
<1>5. SourceInv'
  BY <1>1, OwnerAssumption DEF SourceInv, TypeOK
<1>6. CalledInv'
  <2>1. ASSUME engine' # "finalized", NEW q \in Place, self'[q] # Null,
               ~Between(q)'
        PROVE  Positions(q, callbacks') # {}
    <3>1. q # p /\ self[q] # Null /\ ~Between(q)
      BY <1>1, <2>1 DEF Between, TypeOK
    <3>2. Positions(q, callbacks) # {}
      BY <1>1, <2>1, <3>1 DEF CalledInv
    <3> QED
      BY <1>2, <3>1, <3>2, PopOthers DEF TypeOK
  <2> QED
    BY <2>1 DEF CalledInv
<1>7. PinnedInv'
  <2>1. ASSUME NEW k \in DOMAIN callbacks', callbacks'[k] \in Place \ Movable
        PROVE  /\ callbacks'[k] # p
               /\ Positions(callbacks'[k], callbacks') = {k}
               /\ \E j \in DOMAIN callbacks : callbacks[j] = callbacks'[k]
    BY <1>2, <2>1, PinnedPopped
  <2> QED
    BY <1>1, <2>1 DEF PinnedInv, TypeOK
<1>8. SelfInv'
  BY <1>1 DEF SelfInv, TypeOK
<1> QED
  BY <1>3, <1>4, <1>5, <1>6, <1>7, <1>8

(* Release: what the Provider still owned goes with it                     *)
(* (Provider.cpp:36).                                                      *)
LEMMA ReleaseStep ==
  ASSUME IInv, ~crashed, NEW p \in Place, Release(p)
  PROVE  IInv'
<1> USE DEF IInv
<1>1. /\ stage[p] = "ending"
      /\ self' = [self EXCEPT ![p] = Null]
      /\ registered' = registered \ {self[p]}
      /\ stage' = [stage EXCEPT ![p] = "none"]
      /\ UNCHANGED <<source, used, callbacks, engine, crashed>>
  BY DEF Release
<1>2. TypeOK'
  BY <1>1 DEF TypeOK, Stage
<1>3. OwnedInv'
  BY <1>1 DEF OwnedInv, TypeOK
<1>4. SourceInv'
  BY <1>1, OwnerAssumption DEF SourceInv, TypeOK
<1>5. CalledInv'
  BY <1>1 DEF CalledInv, TypeOK, Between, Positions
<1>6. PinnedInv'
  BY <1>1 DEF PinnedInv, TypeOK, Positions
<1>7. SelfInv'
  BY <1>1, OwnerAssumption DEF SelfInv, SourceInv, TypeOK
<1> QED
  BY <1>2, <1>3, <1>4, <1>5, <1>6, <1>7

(* Crash: only a callback can have taken away what is dereferenced.        *)
LEMMA CrashStep ==
  ASSUME IInv, ~crashed, NEW p \in Place, Crash(p)
  PROVE  IInv'
<1> USE DEF IInv
<1>1. /\ crashed'
      /\ UNCHANGED <<stage, source, self, registered, used, callbacks, engine>>
  BY DEF Crash
<1>2. TypeOK'
  BY <1>1 DEF Crash, TypeOK
<1>3. OwnedInv' /\ SourceInv' /\ CalledInv' /\ PinnedInv'
  BY <1>1 DEF OwnedInv, SourceInv, CalledInv, PinnedInv, Between
<1>4. engine # "running"
  BY DEF Crash, SelfInv
<1>5. SelfInv'
  BY <1>1, <1>4 DEF SelfInv
<1> QED
  BY <1>2, <1>3, <1>5

(* RunCallback: what the newest callback's Provider owned is gone          *)
(* (Provider.cpp:18, 23).                                                  *)
LEMMA RunCallbackStep ==
  ASSUME IInv, ~crashed, RunCallback
  PROVE  IInv'
<1> USE DEF IInv
<1> DEFINE last == Len(callbacks)
           p == callbacks[last]
<1>1. /\ callbacks' \in Seq(Place)
      /\ DOMAIN callbacks' = DOMAIN callbacks \ {last}
      /\ last \in DOMAIN callbacks
      /\ p \in Place
      /\ \A k \in DOMAIN callbacks' : callbacks'[k] = callbacks[k]
  BY FrontProperties DEF RunCallback, TypeOK
<1>2. /\ self' = [self EXCEPT ![p] = Null]
      /\ registered' = registered \ {self[p]}
      /\ UNCHANGED <<stage, source, used, engine, crashed>>
      /\ engine = "finalizing"
  BY DEF RunCallback
<1> HIDE DEF last, p
<1>3. TypeOK'
  BY <1>1, <1>2 DEF TypeOK
<1>4. OwnedInv'
  BY <1>1, <1>2 DEF OwnedInv, TypeOK
<1>5. SourceInv'
  BY <1>2 DEF SourceInv
<1>6. CalledInv'
  BY <1>1, <1>2 DEF CalledInv, TypeOK, Positions, Between, p
<1>7. PinnedInv'
  <2>1. ASSUME NEW k \in DOMAIN callbacks', callbacks'[k] \in Place \ Movable
        PROVE  /\ stage[callbacks[k]] \in {"whole", "tested"}
               /\ self[callbacks[k]] # Null
               /\ Positions(callbacks[k], callbacks) = {k}
               /\ callbacks'[k] = callbacks[k] /\ k # last
    BY <1>1, <2>1 DEF PinnedInv
  <2>2. ASSUME NEW k \in DOMAIN callbacks', callbacks'[k] \in Place \ Movable
        PROVE  /\ Positions(callbacks[k], callbacks') = {k}
               /\ callbacks[k] # p
    BY <1>1, <2>1, <2>2 DEF Positions, p
  <2> QED
    BY <1>1, <1>2, <2>1, <2>2 DEF PinnedInv, TypeOK
<1>8. SelfInv'
  BY <1>2 DEF SelfInv
<1> QED
  BY <1>3, <1>4, <1>5, <1>6, <1>7, <1>8

(* StartFinalize and EndFinalize: the engine may do either at any time, as *)
(* far as the owners are concerned.                                        *)
LEMMA EngineStep ==
  ASSUME IInv, ~crashed, StartFinalize \/ EndFinalize
  PROVE  IInv'
<1> USE DEF IInv
<1>1. /\ UNCHANGED <<stage, source, self, registered, used, callbacks,
                     crashed>>
      /\ engine # "finalized"
      /\ engine' \in {"finalizing", "finalized"}
  BY DEF StartFinalize, EndFinalize
<1>2. TypeOK'
  BY <1>1 DEF TypeOK
<1>3. OwnedInv' /\ SourceInv' /\ CalledInv' /\ PinnedInv'
  BY <1>1 DEF OwnedInv, SourceInv, CalledInv, PinnedInv, Between
<1>4. SelfInv'
  BY <1>1 DEF SelfInv
<1> QED
  BY <1>2, <1>3, <1>4

-----------------------------------------------------------------------------
(* Theorems.                                                               *)

(* Invariance: IInv holds whatever the owners and the engine do, line by   *)
(* line.                                                                   *)
THEOREM Invariance == Spec => []IInv
<1>1. IInv /\ [Next]_vars => IInv'
  <2> SUFFICES ASSUME IInv, [Next]_vars PROVE IInv'
    OBVIOUS
  <2>1. CASE UNCHANGED vars
    BY <2>1 DEF vars, IInv, TypeOK, OwnedInv, SourceInv, CalledInv, PinnedInv,
                SelfInv, Between
  <2>2. ASSUME ~crashed, NEW p \in Place, OwnerStep(p)
        PROVE  IInv'
    BY <2>2, ConstructStep, PushCallbackStep, MoveStep, TakeSelfStep,
       DestroyStep, PopCallbackStep, ReleaseStep, CrashStep DEF OwnerStep
  <2> QED
    BY <2>1, <2>2, RunCallbackStep, EngineStep DEF Next
<1> QED
  BY <1>1, InitInv, PTL DEF Spec

(* Gone: what is left when the engine ends belongs to a constructor or a   *)
(* destructor that is between two lines, however often Providers were      *)
(* moved, and however many of them were.                                   *)
THEOREM Gone == Spec => GoneFirst
<1>1. IInv /\ [Next]_vars =>
        (engine # "finalized" /\ engine' = "finalized" =>
           \A i \in registered : \E p \in Place : Between(p) /\ self[p] = i)
  <2> SUFFICES ASSUME IInv, [Next]_vars,
                      engine # "finalized", engine' = "finalized",
                      NEW i \in registered
               PROVE  \E p \in Place : Between(p) /\ self[p] = i
    OBVIOUS
  <2>1. PICK p \in Place : self[p] = i
    BY DEF IInv, OwnedInv
  <2>2. self[p] # Null
    BY <2>1, OwnerAssumption DEF IInv, TypeOK
  <2>3. callbacks = <<>>
    BY DEF Next, OwnerStep, vars, Construct, PushCallback, Move, TakeSelf,
           Destroy, PopCallback, Release, Crash, StartFinalize, RunCallback,
           EndFinalize
  <2>4. Positions(p, callbacks) = {}
    BY <2>3, LenProperties, EmptySeq DEF IInv, TypeOK, Positions
  <2> QED
    BY <2>1, <2>2, <2>4 DEF IInv, CalledInv
<1> QED
  BY <1>1, Invariance, PTL DEF Spec, GoneFirst

(* Uncrashed: until the engine finalizes nothing is dereferenced that is   *)
(* not there, whatever is made, moved and destroyed at once.               *)
THEOREM Uncrashed == Spec => []NoCrash
<1>1. IInv => NoCrash
  BY DEF IInv, SelfInv, NoCrash
<1> QED
  BY <1>1, Invariance, PTL

(* Pinned: no callback outlives a Provider that is not moved away.         *)
THEOREM Pinned == Spec => []PinnedAlive
<1>1. IInv => PinnedAlive
  BY DEF IInv, PinnedInv, PinnedAlive, object
<1> QED
  BY <1>1, Invariance, PTL

===============================================================================
