--------------------------- MODULE ChunkingProofs ---------------------------
(***************************************************************************)
(* The chunker's anchors, sections and sizes, proved for every parsed      *)
(* document and every token limit, after the facts about sums, joined      *)
(* sequences and orders that are proved from well-foundedness.             *)
(***************************************************************************)
EXTENDS Chunking, FiniteSetTheorems, WellFoundedInduction, TLAPS

(* A set of numbers that is not empty has a least member: what induction   *)
(* over numbers amounts to.                                                *)
LEMMA Least ==
  ASSUME NEW T, T \subseteq Nat, T # {}
  PROVE  \E m \in T : \A k \in T : m <= k
<1>1. PICK m \in T : \A k \in T : <<k, m>> \notin OpToRel(<, Nat)
  BY NatLessThanWellFounded, WFMin
<1>2. \A k \in T : ~(k < m)
  BY <1>1 DEF OpToRel
<1> QED
  BY <1>2

(* Among subsets of a finite set there is a smallest one, one that has none*)
(* of the others as a part: what induction over finite sets amounts to.    *)
LEMMA LeastSubset ==
  ASSUME NEW S, IsFiniteSet(S), NEW T, T \subseteq SUBSET S, T # {}
  PROVE  \E m \in T : \A u \in T : u \subseteq m => u = m
<1>1. FiniteSubsetsOf(S) = SUBSET S
  BY FS_FiniteSubsetsOfFinite
<1>2. PICK m \in T : \A u \in T : <<u, m>> \notin StrictSubsetOrdering(S)
  BY <1>1, FS_StrictSubsetOrderingWellFounded, WFMin
<1> QED
  BY <1>2 DEF StrictSubsetOrdering

(* A sum over a set, as the library defines it: a function of all its      *)
(* subsets that takes the elements off one at a time.                      *)
Chosen(s) == CHOOSE x \in s : TRUE
IsSum(g, f, S) ==
  g = [s \in SUBSET S |-> IF s = {} THEN 0 ELSE f[Chosen(s)] + g[s \ {Chosen(s)}]]

(* The sum is the value of such a function at the whole set.               *)
LEMMA SumIs ==
  ASSUME NEW f, NEW S
  PROVE  SumFunctionOnSet(f, S) = (CHOOSE g : IsSum(g, f, S))[S]
BY DEF SumFunctionOnSet, FoldFunctionOnSet, MapThenFoldSet, IsSum, Chosen

(* What is taken off a set is in it.                                       *)
LEMMA ChosenIn == ASSUME NEW S, S # {} PROVE Chosen(S) \in S
BY DEF Chosen

(* What such a function is at one subset.                                  *)
LEMMA SumAt ==
  ASSUME NEW g, NEW f, NEW S, IsSum(g, f, S), NEW s, s \subseteq S
  PROVE  g[s] = IF s = {} THEN 0 ELSE f[Chosen(s)] + g[s \ {Chosen(s)}]
<1> DEFINE value(t) == IF t = {} THEN 0 ELSE f[Chosen(t)] + g[t \ {Chosen(t)}]
<1>1. g = [t \in SUBSET S |-> value(t)]
  BY DEF IsSum
<1> HIDE DEF value
<1>2. s \in SUBSET S
  OBVIOUS
<1>3. g[s] = value(s)
  BY ONLY <1>1, <1>2
<1> QED
  BY <1>3 DEF value

(* Such functions agree wherever both are defined: a smallest subset where *)
(* they do not would have a smaller one.                                   *)
LEMMA SumUnique ==
  ASSUME NEW S, IsFiniteSet(S), NEW f, NEW U, U \subseteq S, NEW V, V \subseteq S,
         NEW g, IsSum(g, f, U), NEW h, IsSum(h, f, V)
  PROVE  \A s : s \subseteq U /\ s \subseteq V => g[s] = h[s]
<1> SUFFICES ASSUME \E s : s \subseteq U /\ s \subseteq V /\ g[s] # h[s] PROVE FALSE
  OBVIOUS
<1> DEFINE Wrong == {s \in SUBSET S : s \subseteq U /\ s \subseteq V /\ g[s] # h[s]}
<1>1. PICK s \in Wrong : \A t \in Wrong : t \subseteq s => t = s
  <2>1. Wrong \subseteq SUBSET S /\ Wrong # {}
    OBVIOUS
  <2> HIDE DEF Wrong
  <2> QED
    BY <2>1, LeastSubset
<1>2. s \subseteq U /\ s \subseteq V /\ g[s] # h[s] /\ s \subseteq S
  OBVIOUS
<1>3. s # {}
  BY <1>2, SumAt
<1>4. PICK x : x = Chosen(s) /\ x \in s
  BY <1>3, ChosenIn
<1>5. s \ {x} \notin Wrong
  BY <1>1, <1>4
<1>6. g[s \ {x}] = h[s \ {x}]
  BY <1>2, <1>5
<1>7. g[s] = f[x] + g[s \ {x}] /\ h[s] = f[x] + h[s \ {x}]
  BY <1>2, <1>3, <1>4, SumAt
<1> QED
  BY <1>2, <1>6, <1>7

(* There is such a function on every finite set: a smallest subset without *)
(* one would be one element more than a subset with one.                   *)
LEMMA SumExists ==
  ASSUME NEW S, IsFiniteSet(S), NEW f
  PROVE  \E g : IsSum(g, f, S)
<1> SUFFICES ASSUME ~ \E g : IsSum(g, f, S) PROVE FALSE
  OBVIOUS
<1> DEFINE None == {s \in SUBSET S : ~ \E g : IsSum(g, f, s)}
<1>1. PICK s \in None : \A t \in None : t \subseteq s => t = s
  <2>1. None \subseteq SUBSET S /\ None # {}
    OBVIOUS
  <2> HIDE DEF None
  <2> QED
    BY <2>1, LeastSubset
<1>2. s \subseteq S /\ ~ \E g : IsSum(g, f, s)
  OBVIOUS
<1>3. ASSUME NEW t, t \subseteq s, t # s PROVE \E g : IsSum(g, f, t)
  BY <1>1, <1>2, <1>3
<1> HIDE DEF None
<1> DEFINE sum(t) == CHOOSE g : IsSum(g, f, t)
           value(t) == sum(t)[t]
           part(t) == IF t = s THEN IF s = {} THEN 0 ELSE f[Chosen(s)] + value(s \ {Chosen(s)})
                      ELSE value(t)
           whole == [t \in SUBSET s |-> part(t)]
<1>4. ASSUME NEW t, t \subseteq s, t # s PROVE IsSum(sum(t), f, t)
  BY <1>3, <1>4
<1> HIDE DEF sum
<1>5. ASSUME NEW t \in SUBSET s
      PROVE  part(t) = IF t = {} THEN 0 ELSE f[Chosen(t)] + whole[t \ {Chosen(t)}]
  <2>1. CASE t = {}
    <3>1. CASE t = s
      BY <2>1, <3>1
    <3>2. CASE t # s
      <4>1. sum(t)[t] = 0
        BY <1>4, <2>1, <3>2, SumAt
      <4> QED
        BY <2>1, <3>2, <4>1
    <3> QED
      BY <3>1, <3>2
  <2>2. CASE t # {}
    <3>1. PICK x : x = Chosen(t) /\ x \in t
      BY <2>2, ChosenIn
    <3>2. PICK r : r = t \ {x} /\ r \in SUBSET s /\ r # s /\ r \subseteq t
      <4>1. t \ {x} \in SUBSET s /\ t \ {x} \subseteq t
        OBVIOUS
      <4>2. t \ {x} # s
        BY <3>1
      <4> QED
        BY <4>1, <4>2
    <3>3. whole[r] = value(r)
      BY <3>2
    <3>4. CASE t = s
      BY <2>2, <3>1, <3>2, <3>3, <3>4
    <3>5. CASE t # s
      <4>1. IsSum(sum(t), f, t) /\ IsSum(sum(r), f, r)
        BY <1>4, <3>2, <3>5
      <4>2. sum(t)[t] = f[x] + sum(t)[r]
        BY <2>2, <3>1, <3>2, <4>1, SumAt
      <4>3. PICK g, h : g = sum(t) /\ h = sum(r) /\ IsSum(g, f, t) /\ IsSum(h, f, r)
        BY <4>1
      <4>4. g[r] = h[r]
        <5>1. t \subseteq S /\ r \subseteq S /\ r \subseteq r /\ r \subseteq t
          BY <1>2, <3>2
        <5> QED
          BY <5>1, <4>3, SumUnique
      <4> QED
        BY <2>2, <3>1, <3>2, <3>3, <3>5, <4>2, <4>3, <4>4
    <3> QED
      BY <3>4, <3>5
  <2> QED
    BY <2>1, <2>2
<1>6. whole = [t \in SUBSET s |-> IF t = {} THEN 0 ELSE f[Chosen(t)] + whole[t \ {Chosen(t)}]]
  <2> DEFINE entry(t) == IF t = {} THEN 0 ELSE f[Chosen(t)] + whole[t \ {Chosen(t)}]
  <2>1. \A t \in SUBSET s : part(t) = entry(t)
    BY <1>5
  <2> HIDE DEF entry, part
  <2>2. [t \in SUBSET s |-> part(t)] = [t \in SUBSET s |-> entry(t)]
    BY ONLY <2>1
  <2> QED
    BY <2>2 DEF entry
<1>7. IsSum(whole, f, s)
  BY <1>6 DEF IsSum
<1> QED
  BY <1>2, <1>7

(* So the sum over a set is that over the rest and what was taken off.     *)
LEMMA SumOf ==
  ASSUME NEW S, IsFiniteSet(S), NEW f
  PROVE  /\ S = {} => SumFunctionOnSet(f, S) = 0
         /\ S # {} => /\ Chosen(S) \in S
                      /\ SumFunctionOnSet(f, S) = f[Chosen(S)] + SumFunctionOnSet(f, S \ {Chosen(S)})
<1>1. PICK g : g = (CHOOSE h : IsSum(h, f, S)) /\ IsSum(g, f, S) /\ SumFunctionOnSet(f, S) = g[S]
  BY SumExists, SumIs
<1>2. S \subseteq S
  OBVIOUS
<1>3. g[S] = IF S = {} THEN 0 ELSE f[Chosen(S)] + g[S \ {Chosen(S)}]
  BY <1>1, <1>2, SumAt
<1>4. ASSUME S # {} PROVE g[S \ {Chosen(S)}] = SumFunctionOnSet(f, S \ {Chosen(S)})
  <2>1. PICK r : r = S \ {Chosen(S)} /\ r \subseteq S
    OBVIOUS
  <2>2. IsFiniteSet(r)
    BY <2>1, FS_Subset
  <2>3. PICK h : IsSum(h, f, r) /\ SumFunctionOnSet(f, r) = h[r]
    BY <2>2, SumExists, SumIs
  <2>4. r \subseteq r
    OBVIOUS
  <2>5. g[r] = h[r]
    BY <1>1, <1>2, <2>1, <2>3, <2>4, SumUnique
  <2> QED
    BY <2>1, <2>3, <2>5
<1> QED
  BY <1>1, <1>3, <1>4, ChosenIn

(* A sum of naturals is one.                                               *)
LEMMA SumType ==
  ASSUME NEW S, IsFiniteSet(S), NEW f, \A x \in S : f[x] \in Nat
  PROVE  SumFunctionOnSet(f, S) \in Nat
<1> SUFFICES ASSUME SumFunctionOnSet(f, S) \notin Nat PROVE FALSE
  OBVIOUS
<1> DEFINE Wrong == {s \in SUBSET S : SumFunctionOnSet(f, s) \notin Nat}
<1>1. PICK s \in Wrong : \A t \in Wrong : t \subseteq s => t = s
  <2>1. Wrong \subseteq SUBSET S /\ Wrong # {}
    OBVIOUS
  <2> HIDE DEF Wrong
  <2> QED
    BY <2>1, LeastSubset
<1>2. s \subseteq S /\ SumFunctionOnSet(f, s) \notin Nat
  OBVIOUS
<1>3. IsFiniteSet(s)
  BY <1>2, FS_Subset
<1>4. s # {} /\ Chosen(s) \in s
  <2>1. s = {} => SumFunctionOnSet(f, s) = 0
    BY <1>3, SumOf
  <2> QED
    BY <1>2, <2>1, ChosenIn
<1>5. PICK r : r = s \ {Chosen(s)} /\ r \subseteq s /\ r # s /\ r \in SUBSET S
  <2>1. s \ {Chosen(s)} \subseteq s /\ s \ {Chosen(s)} \in SUBSET S
    BY <1>2
  <2>2. s \ {Chosen(s)} # s
    BY <1>4
  <2> QED
    BY <2>1, <2>2
<1>6. SumFunctionOnSet(f, r) \in Nat
  BY <1>1, <1>5
<1>7. SumFunctionOnSet(f, s) = f[Chosen(s)] + SumFunctionOnSet(f, r) /\ f[Chosen(s)] \in Nat
  BY <1>2, <1>3, <1>4, <1>5, SumOf
<1> QED
  BY <1>2, <1>6, <1>7

(* The order does not matter: any element may be the one that is taken off.*)
LEMMA SumWithout ==
  ASSUME NEW S, IsFiniteSet(S), NEW f, \A x \in S : f[x] \in Nat, NEW x \in S
  PROVE  SumFunctionOnSet(f, S) = f[x] + SumFunctionOnSet(f, S \ {x})
<1> DEFINE Differs(s) == \E y \in s : SumFunctionOnSet(f, s) # f[y] + SumFunctionOnSet(f, s \ {y})
<1> SUFFICES ASSUME Differs(S) PROVE FALSE
  OBVIOUS
<1> DEFINE Wrong == {s \in SUBSET S : Differs(s)}
<1>1. PICK s \in Wrong : \A t \in Wrong : t \subseteq s => t = s
  <2>1. Wrong \subseteq SUBSET S /\ Wrong # {}
    OBVIOUS
  <2> HIDE DEF Wrong
  <2> QED
    BY <2>1, LeastSubset
<1>2. s \subseteq S /\ Differs(s)
  OBVIOUS
<1>3. PICK y \in s : SumFunctionOnSet(f, s) # f[y] + SumFunctionOnSet(f, s \ {y})
  BY <1>2
<1>4. PICK c : c = Chosen(s) /\ c \in s
  BY ChosenIn
<1>5. IsFiniteSet(s) /\ IsFiniteSet(s \ {c}) /\ IsFiniteSet(s \ {y}) /\ IsFiniteSet((s \ {c}) \ {y})
  BY <1>2, FS_Subset
<1>6. SumFunctionOnSet(f, s) = f[c] + SumFunctionOnSet(f, s \ {c})
  BY <1>4, <1>5, SumOf
<1>7. c # y
  BY <1>3, <1>6
<1>8. ~Differs(s \ {c}) /\ ~Differs(s \ {y})
  <2>1. s \ {c} \in SUBSET S /\ s \ {c} \subseteq s /\ s \ {c} # s
    BY <1>2, <1>4
  <2>2. s \ {y} \in SUBSET S /\ s \ {y} \subseteq s /\ s \ {y} # s
    BY <1>2
  <2> HIDE DEF Differs
  <2> QED
    BY <1>1, <2>1, <2>2
<1>9. SumFunctionOnSet(f, s \ {c}) = f[y] + SumFunctionOnSet(f, (s \ {c}) \ {y})
  BY <1>7, <1>8
<1>10. SumFunctionOnSet(f, s \ {y}) = f[c] + SumFunctionOnSet(f, (s \ {y}) \ {c})
  BY <1>4, <1>7, <1>8
<1>11. (s \ {y}) \ {c} = (s \ {c}) \ {y}
  OBVIOUS
<1>12. PICK rest, fc, fy \in Nat : rest = SumFunctionOnSet(f, (s \ {c}) \ {y}) /\ fc = f[c] /\ fy = f[y]
  BY <1>2, <1>4, <1>5, SumType
<1>13. SumFunctionOnSet(f, s) = fc + (fy + rest) /\ SumFunctionOnSet(f, s \ {y}) = fc + rest
  BY <1>6, <1>9, <1>10, <1>11, <1>12
<1> QED
  BY <1>3, <1>12, <1>13

(* A sum of naturals, one of which is not zero, is none.                   *)
LEMMA SumPositive ==
  ASSUME NEW S, IsFiniteSet(S), NEW f, \A x \in S : f[x] \in Nat, NEW y \in S, f[y] # 0
  PROVE  SumFunctionOnSet(f, S) \in Nat \ {0}
<1>1. SumFunctionOnSet(f, S) = f[y] + SumFunctionOnSet(f, S \ {y})
  BY SumWithout
<1>2. IsFiniteSet(S \ {y}) /\ \A x \in S \ {y} : f[x] \in Nat
  BY FS_RemoveElement
<1>3. SumFunctionOnSet(f, S \ {y}) \in Nat
  BY <1>2, SumType
<1> QED
  BY <1>1, <1>3

(* Only the values in the set count.                                       *)
LEMMA SumSame ==
  ASSUME NEW S, IsFiniteSet(S), NEW f, NEW g, \A x \in S : f[x] = g[x]
  PROVE  SumFunctionOnSet(f, S) = SumFunctionOnSet(g, S)
<1> SUFFICES ASSUME SumFunctionOnSet(f, S) # SumFunctionOnSet(g, S) PROVE FALSE
  OBVIOUS
<1> DEFINE Wrong == {s \in SUBSET S : SumFunctionOnSet(f, s) # SumFunctionOnSet(g, s)}
<1>1. PICK s \in Wrong : \A t \in Wrong : t \subseteq s => t = s
  <2>1. Wrong \subseteq SUBSET S /\ Wrong # {}
    OBVIOUS
  <2> HIDE DEF Wrong
  <2> QED
    BY <2>1, LeastSubset
<1>2. s \subseteq S /\ SumFunctionOnSet(f, s) # SumFunctionOnSet(g, s)
  OBVIOUS
<1>3. IsFiniteSet(s)
  BY <1>2, FS_Subset
<1>4. s # {} /\ Chosen(s) \in s
  BY <1>2, <1>3, SumOf
<1>5. PICK r : r = s \ {Chosen(s)} /\ r \subseteq s /\ r # s /\ r \in SUBSET S
  <2>1. s \ {Chosen(s)} \subseteq s /\ s \ {Chosen(s)} \in SUBSET S
    BY <1>2
  <2>2. s \ {Chosen(s)} # s
    BY <1>4
  <2> QED
    BY <2>1, <2>2
<1>6. SumFunctionOnSet(f, r) = SumFunctionOnSet(g, r)
  BY <1>1, <1>5
<1>7. /\ SumFunctionOnSet(f, s) = f[Chosen(s)] + SumFunctionOnSet(f, r)
      /\ SumFunctionOnSet(g, s) = g[Chosen(s)] + SumFunctionOnSet(g, r)
  BY <1>2, <1>3, <1>4, <1>5, SumOf
<1> QED
  BY <1>2, <1>4, <1>6, <1>7

(* A sum over an interval, and one place more.                             *)
LEMMA SumNext ==
  ASSUME NEW a \in Nat, NEW b \in Nat, a <= b + 1, NEW f, \A x \in a..(b + 1) : f[x] \in Nat
  PROVE  SumFunctionOnSet(f, a..(b + 1)) = SumFunctionOnSet(f, a..b) + f[b + 1]
<1>1. IsFiniteSet(a..(b + 1)) /\ IsFiniteSet(a..b)
  BY FS_Interval
<1>2. b + 1 \in a..(b + 1) /\ (a..(b + 1)) \ {b + 1} = a..b
  OBVIOUS
<1>3. SumFunctionOnSet(f, a..(b + 1)) = f[b + 1] + SumFunctionOnSet(f, a..b)
  BY <1>1, <1>2, SumWithout
<1>4. SumFunctionOnSet(f, a..b) \in Nat /\ f[b + 1] \in Nat
  BY <1>1, <1>2, SumType
<1> QED
  BY <1>3, <1>4

(* A sum over one place.                                                   *)
LEMMA SumOne ==
  ASSUME NEW a \in Nat, NEW f, f[a] \in Nat
  PROVE  SumFunctionOnSet(f, a..a) = f[a]
<1>1. PICK s : s = {a} /\ IsFiniteSet(s) /\ s \ {a} = {} /\ a..a = s /\ a \in s
  <2>1. {a} \ {a} = {} /\ a..a = {a}
    OBVIOUS
  <2> QED
    BY <2>1, FS_Singleton
<1>2. SumFunctionOnSet(f, s) = f[a] + SumFunctionOnSet(f, s \ {a})
  BY <1>1, SumWithout
<1>3. SumFunctionOnSet(f, s \ {a}) = 0
  BY <1>1, SumOf, FS_EmptySet
<1>4. PICK v \in Nat : v = f[a] /\ SumFunctionOnSet(f, a..a) = v + 0
  BY <1>1, <1>2, <1>3
<1> QED
  BY <1>4

(* FlattenSeq joins sequences one after the other.                         *)
IsFlat(g, seqs, n) == g = [i \in 1..n |-> IF i = 1 THEN seqs[i] ELSE g[i - 1] \o seqs[i]]

(* Joining a sequence of sequences, as the library defines it, is the last *)
(* of the partial joins; a least length without partial joins would have a *)
(* lesser one.                                                             *)
LEMMA FlattenIs ==
  ASSUME NEW seqs, NEW n \in Nat, n = Len(seqs), n # 0, seqs # <<>>
  PROVE  \E g : IsFlat(g, seqs, n) /\ FlattenSeq(seqs) = g[n]
<1>1. \E g : IsFlat(g, seqs, n)
  <2> SUFFICES ASSUME ~ \E g : IsFlat(g, seqs, n) PROVE FALSE
    OBVIOUS
  <2> DEFINE None == {k \in Nat : ~ \E g : IsFlat(g, seqs, k)}
  <2>1. PICK k \in None : \A j \in None : k <= j
    <3>1. None \subseteq Nat /\ None # {}
      OBVIOUS
    <3> HIDE DEF None
    <3> QED
      BY <3>1, Least
  <2>2. k \in Nat /\ ~ \E g : IsFlat(g, seqs, k)
    OBVIOUS
  <2>3. CASE k = 0
    <3> DEFINE g == [i \in {} |-> 0]
    <3>1. IsFlat(g, seqs, 0)
      BY DEF IsFlat
    <3> QED
      BY <2>2, <2>3, <3>1
  <2>4. CASE k # 0
    <3>1. k - 1 \in Nat /\ k - 1 \notin None
      <4>1. k - 1 \in Nat /\ ~(k <= k - 1)
        BY <2>2, <2>4
      <4> HIDE DEF None
      <4> QED
        BY <2>1, <4>1
    <3>2. PICK g : IsFlat(g, seqs, k - 1)
      BY <3>1
    <3> DEFINE more == [i \in 1..k |-> IF i = k THEN IF k = 1 THEN seqs[k] ELSE g[k - 1] \o seqs[k] ELSE g[i]]
    <3>3. ASSUME NEW i \in 1..k PROVE more[i] = IF i = 1 THEN seqs[i] ELSE more[i - 1] \o seqs[i]
      <4>1. CASE i = k
        BY <2>2, <2>4, <4>1
      <4>2. CASE i # k
        <5>1. i \in 1..(k - 1)
          BY <2>2, <4>2
        <5>2. g[i] = IF i = 1 THEN seqs[i] ELSE g[i - 1] \o seqs[i]
          BY <3>2, <5>1 DEF IsFlat
        <5> QED
          BY <2>2, <4>2, <5>1, <5>2
      <4> QED
        BY <4>1, <4>2
    <3>4. more = [i \in 1..k |-> IF i = 1 THEN seqs[i] ELSE more[i - 1] \o seqs[i]]
      <4> DEFINE entry(i) == IF i = 1 THEN seqs[i] ELSE more[i - 1] \o seqs[i]
      <4>1. \A i \in 1..k : more[i] = entry(i)
        BY <3>3
      <4>2. more = [i \in 1..k |-> more[i]]
        OBVIOUS
      <4> HIDE DEF entry, more
      <4>3. more = [i \in 1..k |-> entry(i)]
        BY ONLY <4>1, <4>2
      <4> QED
        BY <4>3 DEF entry
    <3> QED
      BY <2>2, <3>4 DEF IsFlat
  <2> QED
    BY <2>3, <2>4
<1>2. PICK g : IsFlat(g, seqs, n) /\ FlattenSeq(seqs) = g[n]
  <2>1. FlattenSeq(seqs) = (CHOOSE g : IsFlat(g, seqs, n))[n]
    BY DEF FlattenSeq, IsFlat
  <2> QED
    BY <1>1, <2>1
<1> QED
  BY <1>2

(* What is joined from sequences over a set is one, empty only if all are. *)
LEMMA FlattenOf ==
  ASSUME NEW S, NEW seqs \in Seq(Seq(S))
  PROVE  /\ FlattenSeq(seqs) \in Seq(S)
         /\ \A k \in 1..Len(seqs) : seqs[k] # <<>> => FlattenSeq(seqs) # <<>>
<1>3. PICK n \in Nat : n = Len(seqs)
  OBVIOUS
<1>1. CASE n = 0
  <2>1. seqs = <<>>
    BY <1>1, <1>3
  <2> QED
    BY <2>1 DEF FlattenSeq
<1>2. CASE n # 0
  <2>2. PICK g : IsFlat(g, seqs, n) /\ FlattenSeq(seqs) = g[n]
    BY <1>2, <1>3, FlattenIs
  <2>3. \A i \in 1..n : g[i] \in Seq(S)
    <3> SUFFICES ASSUME \E i \in 1..n : g[i] \notin Seq(S) PROVE FALSE
      OBVIOUS
    <3> DEFINE Wrong == {i \in 1..n : g[i] \notin Seq(S)}
    <3>1. PICK i \in Wrong : \A j \in Wrong : i <= j
      <4>1. Wrong \subseteq Nat /\ Wrong # {}
        BY <1>3
      <4> HIDE DEF Wrong
      <4> QED
        BY <4>1, Least
    <3>2. i \in 1..n /\ g[i] \notin Seq(S) /\ seqs[i] \in Seq(S)
      BY <1>3
    <3>3. g[i] = IF i = 1 THEN seqs[i] ELSE g[i - 1] \o seqs[i]
      BY <2>2, <3>2 DEF IsFlat
    <3>4. CASE i = 1
      BY <3>2, <3>3, <3>4
    <3>5. CASE i # 1
      <4>1. i - 1 \in 1..n /\ i - 1 \notin Wrong
        BY <3>1, <3>2, <3>5
      <4>2. g[i - 1] \in Seq(S)
        BY <4>1
      <4>3. g[i] = g[i - 1] \o seqs[i]
        BY <3>3, <3>5
      <4>4. \A a, b \in Seq(S) : a \o b \in Seq(S)
        OBVIOUS
      <4> QED
        BY <3>2, <4>2, <4>3, <4>4
    <3> QED
      BY <3>4, <3>5
  <2>4. ASSUME NEW k \in 1..n, seqs[k] # <<>> PROVE g[n] # <<>>
    <3> DEFINE Wrong == {i \in k..n : g[i] = <<>>}
    <3>1. SUFFICES ASSUME Wrong # {} PROVE FALSE
      BY <1>3, <1>2
    <3>2. PICK i \in Wrong : \A j \in Wrong : i <= j
      <4>1. Wrong \subseteq Nat /\ Wrong # {}
        BY <3>1
      <4> HIDE DEF Wrong
      <4> QED
        BY <4>1, Least
    <3>3. i \in k..n /\ i \in 1..n /\ g[i] = <<>> /\ seqs[i] \in Seq(S)
      BY <1>3
    <3>4. g[i] = IF i = 1 THEN seqs[i] ELSE g[i - 1] \o seqs[i]
      BY <2>2, <3>3 DEF IsFlat
    <3>5. i # k
      <4>1. CASE k = 1
        BY <2>4, <3>3, <3>4, <4>1
      <4>2. CASE k # 1
        <5>1. k - 1 \in 1..n
          BY <4>2
        <5>2. PICK x \in Seq(S) : x = g[k - 1]
          BY <2>3, <5>1
        <5>3. \A y \in Seq(S) : x \o y = <<>> => y = <<>>
          OBVIOUS
        <5> QED
          BY <2>4, <3>3, <3>4, <4>2, <5>2, <5>3
      <4> QED
        BY <4>1, <4>2
    <3>6. i - 1 \in k..n /\ i - 1 \in 1..n /\ i # 1 /\ ~(i <= i - 1)
      BY <3>3, <3>5
    <3>7. g[i - 1] # <<>>
      <4>1. i - 1 \notin Wrong
        <5> HIDE DEF Wrong
        <5> QED
          BY <3>2, <3>6
      <4> QED
        BY <3>6, <4>1
    <3>8. PICK x \in Seq(S) : x = g[i - 1]
      BY <2>3, <3>6
    <3>9. \A y \in Seq(S) : x \o y = <<>> => x = <<>>
      OBVIOUS
    <3> QED
      BY <3>3, <3>4, <3>6, <3>7, <3>8, <3>9
  <2> QED
    BY <1>2, <1>3, <2>2, <2>3, <2>4
<1> QED
  BY <1>1, <1>2

(* R orders S: of any two elements one comes first, and what is before a   *)
(* later one is before all that follow.                                    *)
Orders(R, S) ==
  /\ \A x, y \in S : x # y => <<x, y>> \in R \/ <<y, x>> \in R
  /\ \A x, y, z \in S : <<x, y>> \in R /\ <<y, z>> \in R => <<x, z>> \in R

(* A finite set that is ordered and not empty has a last element.          *)
LEMMA LastOne ==
  ASSUME NEW S, IsFiniteSet(S), NEW R, Orders(R, S), S # {}
  PROVE  \E m \in S : \A x \in S : x # m => <<x, m>> \in R
<1> DEFINE Has(s) == \E m \in s : \A x \in s : x # m => <<x, m>> \in R
           None == {s \in SUBSET S : s # {} /\ ~Has(s)}
<1> SUFFICES ASSUME ~Has(S) PROVE FALSE
  OBVIOUS
<1>1. PICK s \in None : \A t \in None : t \subseteq s => t = s
  <2>1. None \subseteq SUBSET S /\ None # {}
    OBVIOUS
  <2> HIDE DEF None
  <2> QED
    BY <2>1, LeastSubset
<1>2. s \subseteq S /\ s # {} /\ ~Has(s)
  OBVIOUS
<1>3. PICK x \in s : TRUE
  BY <1>2
<1>4. CASE s \ {x} = {}
  <2>1. s = {x}
    BY <1>3, <1>4
  <2> QED
    BY <1>2, <2>1
<1>5. CASE s \ {x} # {}
  <2>1. s \ {x} \in SUBSET S /\ s \ {x} \subseteq s /\ s \ {x} # s
    BY <1>2, <1>3
  <2>2. Has(s \ {x})
    <3> HIDE DEF Has
    <3> QED
      BY <1>1, <1>5, <2>1
  <2>3. PICK m \in s \ {x} : \A y \in s \ {x} : y # m => <<y, m>> \in R
    BY <2>2
  <2>4. x \in S /\ m \in S /\ m \in s /\ m # x
    BY <1>2, <1>3, <2>3
  <2>5. CASE <<x, m>> \in R
    BY <1>2, <2>3, <2>4, <2>5
  <2>6. CASE <<m, x>> \in R
    <3>1. \A y \in s : y # x => <<y, x>> \in R
      BY <1>2, <2>3, <2>4, <2>6 DEF Orders
    <3> QED
      BY <1>2, <1>3, <3>1
  <2> QED
    BY <2>4, <2>5, <2>6 DEF Orders
<1> QED
  BY <1>4, <1>5

(* A finite set that is ordered can be listed in that order: a smallest    *)
(* subset that cannot would have a last element, and the rest a list.      *)
LEMMA Sortable ==
  ASSUME NEW S, IsFiniteSet(S), NEW R, Orders(R, S)
  PROVE  \E s \in [1..Cardinality(S) -> S] :
           /\ \A i, j \in 1..Cardinality(S) : i < j => <<s[i], s[j]>> \in R
           /\ \A i, j \in 1..Cardinality(S) : i # j => s[i] # s[j]
<1> DEFINE Sort(T, s) == /\ s \in [1..Cardinality(T) -> T]
                         /\ \A i, j \in 1..Cardinality(T) : i < j => <<s[i], s[j]>> \in R
                         /\ \A i, j \in 1..Cardinality(T) : i # j => s[i] # s[j]
           Wrong == {T \in SUBSET S : ~ \E s : Sort(T, s)}
<1> SUFFICES ASSUME ~ \E s : Sort(S, s) PROVE FALSE
  OBVIOUS
<1>1. PICK T \in Wrong : \A U \in Wrong : U \subseteq T => U = T
  <2>1. Wrong \subseteq SUBSET S /\ Wrong # {}
    OBVIOUS
  <2> HIDE DEF Wrong
  <2> QED
    BY <2>1, LeastSubset
<1>2. T \subseteq S /\ ~ \E s : Sort(T, s)
  OBVIOUS
<1>3. IsFiniteSet(T) /\ Cardinality(T) \in Nat
  BY <1>2, FS_Subset, FS_CardinalityType
<1>4. T # {}
  <2> SUFFICES ASSUME T = {} PROVE FALSE
    OBVIOUS
  <2>1. Cardinality(T) = 0
    BY FS_EmptySet
  <2>2. 1..0 = {}
    OBVIOUS
  <2>3. Sort(T, [i \in {} |-> 0])
    BY <2>1, <2>2
  <2> QED
    BY <1>2, <2>3
<1>5. PICK m \in T : \A x \in T : x # m => <<x, m>> \in R
  <2>1. Orders(R, T)
    BY <1>2 DEF Orders
  <2> QED
    BY <1>3, <1>4, <2>1, LastOne
<1>6. PICK n \in Nat : n = Cardinality(T \ {m}) /\ Cardinality(T) = n + 1
  <2>1. IsFiniteSet(T \ {m}) /\ Cardinality(T \ {m}) = Cardinality(T) - 1
    BY <1>3, FS_RemoveElement
  <2>2. Cardinality(T \ {m}) \in Nat
    BY <2>1, FS_CardinalityType
  <2> QED
    BY <1>3, <2>1, <2>2
<1>7. PICK s : Sort(T \ {m}, s)
  <2>1. T \ {m} \in SUBSET S /\ T \ {m} \subseteq T /\ T \ {m} # T
    BY <1>2
  <2> HIDE DEF Sort
  <2> QED
    BY <1>1, <2>1
<1> DEFINE more == [i \in 1..(n + 1) |-> IF i = n + 1 THEN m ELSE s[i]]
<1>8. \A i \in 1..n : s[i] \in T /\ s[i] # m
  BY <1>6, <1>7
<1>9. \A i \in 1..(n + 1) : i = n + 1 \/ i \in 1..n
  OBVIOUS
<1>10. more \in [1..(n + 1) -> T]
  BY <1>8, <1>9
<1>11. ASSUME NEW i \in 1..(n + 1), NEW j \in 1..(n + 1), i < j PROVE <<more[i], more[j]>> \in R
  <2>1. i \in 1..n /\ more[i] = s[i]
    BY <1>11
  <2>2. CASE j = n + 1
    BY <1>5, <1>8, <2>1, <2>2
  <2>3. CASE j # n + 1
    <3>1. j \in 1..n /\ more[j] = s[j]
      BY <2>3
    <3> QED
      BY <1>6, <1>7, <1>11, <2>1, <3>1
  <2> QED
    BY <2>2, <2>3
<1>12. ASSUME NEW i \in 1..(n + 1), NEW j \in 1..(n + 1), i # j PROVE more[i] # more[j]
  <2>1. CASE i = n + 1
    <3>1. j \in 1..n /\ more[j] = s[j] /\ more[i] = m
      BY <1>12, <2>1
    <3> QED
      BY <1>8, <3>1
  <2>2. CASE j = n + 1
    <3>1. i \in 1..n /\ more[i] = s[i] /\ more[j] = m
      BY <1>12, <2>2
    <3> QED
      BY <1>8, <3>1
  <2>3. CASE i # n + 1 /\ j # n + 1
    <3>1. i \in 1..n /\ j \in 1..n /\ more[i] = s[i] /\ more[j] = s[j]
      BY <2>3
    <3> QED
      BY <1>6, <1>7, <1>12, <3>1
  <2> QED
    BY <2>1, <2>2, <2>3
<1>13. Sort(T, more)
  <2> HIDE DEF more
  <2> QED
    BY <1>6, <1>10, <1>11, <1>12
<1> QED
  BY <1>2, <1>13

Piece == [block : Nat, from : Nat, to : Nat]
Chunk == [text : Seq(Piece), section : Seq(Nat), overlap : Nat]

(* The pieces of a text are blocks next to each other, all but the ends    *)
(* of the first and the last of them whole.                                *)
Contiguous(text) ==
  /\ text # <<>>
  /\ \A p \in 1..Len(text) :
       /\ text[p].block = text[1].block + p - 1
       /\ text[p].block \in 1..Len(doc) /\ IsBody(text[p].block)
       /\ p # 1 => text[p].from = 1
       /\ p # Len(text) => text[p].to = Len(doc[text[p].block].sentences)

LastOf(text) == text[Len(text)]
Increasing(s) == \A i, j \in 1..Len(s) : i < j => s[i] < s[j]

(* A chunk's text is contiguous and under the headings it names.           *)
Sound(chunk) ==
  /\ Contiguous(chunk.text)
  /\ Increasing(chunk.section)
  /\ \A p \in 1..Len(chunk.text) : ToSet(chunk.section) = Enclosing(chunk.text[p].block)

(* Every chunk is sound, ends before the later ones begin, and repeats     *)
(* nothing but the tail of the one before it in its section.               *)
Laid(chs) ==
  /\ \A c \in 1..Len(chs) : Sound(chs[c])
  /\ \A c, d \in 1..Len(chs) : c < d =>
       Before(LastOf(chs[c].text).block, LastOf(chs[c].text).to,
              chs[d].text[1].block, chs[d].text[1].from)
  /\ \A c \in 1..Len(chs) : chs[c].overlap # 0 =>
       chs[c].overlap = c - 1 /\ chs[c - 1].section = chs[c].section

-----------------------------------------------------------------------------
TypeInv ==
  /\ doc \in Seq(Block) /\ next \in 1..(Len(doc) + 2)
  /\ headings \in Seq(Nat) /\ body \in Seq(Piece)
  /\ overlap \in Nat /\ chunks \in Seq(Chunk)
  /\ split.at \in Nat /\ split.start \in Nat

(* The headings that are open enclose the block the loop is at.            *)
HeadingsInv ==
  Increasing(headings) /\ (next <= Len(doc) + 1 => ToSet(headings) = Enclosing(next))

(* The pieces accumulated are the body blocks just before the loop's.      *)
BodyInv ==
  /\ Len(body) < next /\ (body # <<>> => next <= Len(doc) + 1)
  /\ \A p \in 1..Len(body) :
       LET b == next - Len(body) + p - 1
       IN body[p] = Whole(b) /\ IsBody(b) /\ Enclosing(b) = ToSet(headings)

SplitInv ==
  split # NoSplit =>
    /\ body = <<>> /\ next <= Len(doc) /\ IsBody(next)
    /\ split.at # 0 /\ split.start < split.at /\ (split.start = 0 => split.at = 1)

(* What the next chunk repeats is the tail of the last one, in its section. *)
Repeats(tail, chs) == tail # 0 => tail = Len(chs) /\ chs[tail].section = headings

(* All chunks end before the text begins that no chunk has yet.            *)
EndBefore(chs, b, s) ==
  \A c \in 1..Len(chs) : Before(LastOf(chs[c].text).block, LastOf(chs[c].text).to, b, s)
StartAt == IF body # <<>> THEN 1 ELSE split.start
FrontInv == EndBefore(chunks, next - Len(body), StartAt)

(* A sentence the loops have passed is in a chunk, or waits for one.       *)
Passed(b, s) == b < next \/ (b = next /\ split # NoSplit /\ s < split.at)
Waits(b, s) ==
  next - Len(body) <= b /\ (b = next => split # NoSplit /\ split.start # 0 /\ split.start <= s)
Has(text, b, s) == \E p \in 1..Len(text) : text[p].block = b /\ s \in text[p].from..text[p].to
Covered(chs, b, s) == \E c \in 1..Len(chs) : Has(chs[c].text, b, s)
CoverInv ==
  \A b \in 1..Len(doc) : \A s \in 1..Len(doc[b].sentences) :
    Passed(b, s) => Waits(b, s) \/ Covered(chunks, b, s)

IInv ==
  /\ TypeInv /\ HeadingsInv /\ BodyInv /\ SplitInv /\ Repeats(overlap, chunks)
  /\ Laid(chunks) /\ FrontInv /\ CoverInv

-----------------------------------------------------------------------------
(* A set of numbers up to n has a greatest one, which Max picks.           *)
LEMMA Greatest ==
  ASSUME NEW n \in Nat, NEW S, S \subseteq 0..n, S # {}
  PROVE  Max(S) \in S /\ \A y \in S : y <= Max(S)
<1> DEFINE Gap == {m \in Nat : n - m \in S}
<1>1. Gap \subseteq Nat /\ Gap # {}
  <2>1. PICK x \in S : TRUE
    OBVIOUS
  <2>2. x \in 0..n
    BY <2>1
  <2>3. n - x \in Nat /\ n - (n - x) = x
    BY <2>2
  <2> QED
    BY <2>1, <2>3
<1>2. PICK m \in Gap : \A k \in Gap : <<k, m>> \notin OpToRel(<, Nat)
  BY <1>1, NatLessThanWellFounded, WFMin
<1>3. \A k \in Gap : ~(k < m)
  BY <1>2 DEF OpToRel
<1>4. n - m \in S /\ m \in Nat
  OBVIOUS
<1>5. ASSUME NEW y \in S PROVE n - m >= y
  <2>1. y \in 0..n
    OBVIOUS
  <2>2. n - y \in Nat /\ n - (n - y) = y
    BY <2>1
  <2>3. n - y \in Gap
    BY <2>2
  <2>4. ~(n - y < m)
    BY <1>3, <2>3
  <2> QED
    BY <1>4, <2>1, <2>4
<1>6. \E x \in S : \A y \in S : x >= y
  BY <1>4, <1>5
<1>7. Max(S) \in S /\ \A y \in S : Max(S) >= y
  BY <1>6 DEF Max
<1> QED
  BY <1>7

(* What the blocks of a document are.                                      *)
LEMMA Blocks ==
  ASSUME NEW d \in Seq(Block), NEW b \in 1..Len(d)
  PROVE  /\ d[b].level \in Nat /\ Len(d[b].sentences) \in Nat
         /\ d[b].level # 0 => Len(d[b].sentences) = 0
<1>1. d[b] \in Block
  OBVIOUS
<1>2. d[b].level \in Nat /\ d[b].sentences \in Seq(Nat) /\ (d[b].level # 0 => d[b].sentences = <<>>)
  BY <1>1 DEF Block
<1> QED
  BY <1>2

(* A chunk is appended.                                                    *)
LEMMA OneMore ==
  ASSUME NEW chs \in Seq(Chunk), NEW ch \in Chunk
  PROVE  /\ Append(chs, ch) \in Seq(Chunk) /\ Len(Append(chs, ch)) = Len(chs) + 1
         /\ \A c \in 1..Len(chs) : Append(chs, ch)[c] = chs[c]
         /\ Append(chs, ch)[Len(chs) + 1] = ch
OBVIOUS

(* What a document's chunks are does not change while it does not.         *)
LEMMA DocumentStays ==
  ASSUME UNCHANGED doc, NEW chs, Laid(chs)
  PROVE  Laid(chs)'
BY DEF Laid, Sound, Contiguous, IsBody, Enclosing, Increasing, LastOf, Before

(* A chunk that is sound, after all others and with the right tail may     *)
(* come next.                                                              *)
LEMMA LaidOn ==
  ASSUME NEW chs \in Seq(Chunk), Laid(chs), NEW ch \in Chunk, Sound(ch),
         EndBefore(chs, ch.text[1].block, ch.text[1].from),
         ch.overlap # 0 => ch.overlap = Len(chs) /\ chs[Len(chs)].section = ch.section
  PROVE  Laid(Append(chs, ch))
<1> DEFINE more == Append(chs, ch)
<1>1. /\ more \in Seq(Chunk) /\ Len(more) = Len(chs) + 1 /\ more[Len(chs) + 1] = ch
      /\ \A c \in 1..Len(chs) : more[c] = chs[c]
  BY OneMore
<1>2. Len(chs) \in Nat
  OBVIOUS
<1> HIDE DEF more
<1>3. ASSUME NEW c \in 1..Len(more) PROVE c \in 1..Len(chs) \/ c = Len(chs) + 1
  BY <1>1, <1>2
<1>4. \A c \in 1..Len(more) : Sound(more[c])
  BY <1>1, <1>3 DEF Laid
<1>5. ASSUME NEW c \in 1..Len(more), NEW d \in 1..Len(more), c < d
      PROVE  Before(LastOf(more[c].text).block, LastOf(more[c].text).to,
                    more[d].text[1].block, more[d].text[1].from)
  <2>1. c \in 1..Len(chs)
    BY <1>1, <1>2, <1>5
  <2>2. CASE d \in 1..Len(chs)
    BY <1>1, <1>5, <2>1, <2>2 DEF Laid
  <2>3. CASE d = Len(chs) + 1
    BY <1>1, <2>1, <2>3 DEF EndBefore
  <2> QED
    BY <1>3, <2>2, <2>3
<1>6. ASSUME NEW c \in 1..Len(more), more[c].overlap # 0
      PROVE  more[c].overlap = c - 1 /\ more[c - 1].section = more[c].section
  <2>1. CASE c \in 1..Len(chs)
    <3>1. chs[c].overlap = c - 1 /\ chs[c - 1].section = chs[c].section
      BY <1>1, <1>6, <2>1 DEF Laid
    <3>2. chs[c] \in Chunk
      BY <2>1
    <3>3. chs[c].overlap \in Nat /\ chs[c].overlap # 0
      BY <1>1, <1>6, <2>1, <3>2 DEF Chunk
    <3>4. c - 1 \in 1..Len(chs)
      BY <1>2, <2>1, <3>1, <3>3
    <3> QED
      BY <1>1, <2>1, <3>1, <3>4
  <2>2. CASE c = Len(chs) + 1
    <3>1. ch.overlap # 0 /\ ch.overlap \in Nat
      BY <1>1, <1>6, <2>2 DEF Chunk
    <3>2. c - 1 = Len(chs) /\ Len(chs) \in 1..Len(chs)
      BY <1>2, <2>2, <3>1
    <3> QED
      BY <1>1, <2>2, <3>1, <3>2
  <2> QED
    BY <1>3, <2>1, <2>2
<1>7. Laid(more)
  BY <1>4, <1>5, <1>6 DEF Laid
<1> QED
  BY <1>7 DEF more

(* Under a body block the same headings are open as after it.              *)
LEMMA EnclosingBody ==
  ASSUME TypeInv, next <= Len(doc), IsBody(next)
  PROVE  Enclosing(next + 1) = Enclosing(next)
<1>1. next \in Nat /\ Len(doc) \in Nat /\ next + 1 - 1 = next
  BY DEF TypeInv
<1>2. \A h : h \in 1..next /\ ~IsBody(h) <=> h \in 1..(next - 1) /\ ~IsBody(h)
  BY <1>1
<1>3. ASSUME NEW h \in 1..(next - 1)
      PROVE  (\A k \in (h + 1)..next : ~IsBody(k) => doc[k].level > doc[h].level)
               <=> (\A k \in (h + 1)..(next - 1) : ~IsBody(k) => doc[k].level > doc[h].level)
  BY <1>1
<1> QED
  BY <1>1, <1>2, <1>3 DEF Enclosing

(* A heading closes those that are not above it.                           *)
LEMMA EnclosingHeading ==
  ASSUME TypeInv, next <= Len(doc), ~IsBody(next)
  PROVE  Enclosing(next + 1) = {h \in Enclosing(next) : doc[h].level < doc[next].level} \cup {next}
<1>1. next \in Nat /\ next >= 1 /\ Len(doc) \in Nat /\ next + 1 - 1 = next /\ doc \in Seq(Block)
  BY DEF TypeInv
<1>2. \A k \in 1..next : doc[k].level \in Nat
  BY <1>1, Blocks
<1>3. ASSUME NEW h PROVE h \in Enclosing(next + 1) <=>
                          h \in {g \in Enclosing(next) : doc[g].level < doc[next].level} \cup {next}
  <2>1. CASE h = next
    BY <1>1, <2>1 DEF Enclosing
  <2>2. CASE h \in 1..(next - 1)
    <3>1. (\A k \in (h + 1)..next : ~IsBody(k) => doc[k].level > doc[h].level)
            <=> /\ \A k \in (h + 1)..(next - 1) : ~IsBody(k) => doc[k].level > doc[h].level
                /\ doc[next].level > doc[h].level
      BY <1>1, <2>2
    <3>2. doc[next].level > doc[h].level <=> doc[h].level < doc[next].level
      BY <1>1, <1>2, <2>2
    <3> QED
      BY <1>1, <2>2, <3>1, <3>2 DEF Enclosing
  <2>3. CASE h \notin 1..next
    BY <1>1, <2>3 DEF Enclosing
  <2> QED
    BY <1>1, <2>1, <2>2, <2>3
<1> QED
  BY <1>3

(* updateHeadings leaves exactly the headings that enclose what follows.   *)
LEMMA Popped ==
  ASSUME TypeInv, HeadingsInv, next <= Len(doc), ~IsBody(next),
         NEW stack, stack = Append(SubSeq(headings, 1, Kept(doc[next].level)), next)
  PROVE  stack \in Seq(Nat) /\ Increasing(stack) /\ ToSet(stack) = Enclosing(next + 1)
<1> DEFINE level == doc[next].level
           levels == {n \in 0..Len(headings) : n = 0 \/ doc[headings[n]].level < level}
<1>1. /\ next \in Nat /\ next >= 1 /\ Len(doc) \in Nat /\ doc \in Seq(Block)
      /\ headings \in Seq(Nat) /\ Len(headings) \in Nat
  BY DEF TypeInv
<1>2. /\ \A i \in 1..Len(headings) : headings[i] \in Enclosing(next)
      /\ \A h \in Enclosing(next) : \E i \in 1..Len(headings) : headings[i] = h
  BY <1>1 DEF HeadingsInv, ToSet
<1>3. \A i \in 1..Len(headings) : headings[i] \in 1..(next - 1) /\ doc[headings[i]].level \in Nat
  <2>1. \A i \in 1..Len(headings) : headings[i] \in 1..(next - 1)
    BY <1>2 DEF Enclosing
  <2> QED
    BY <1>1, <2>1, Blocks
<1>4. level \in Nat
  <2>1. next \in 1..Len(doc)
    BY <1>1
  <2> QED
    BY <1>1, <2>1, Blocks
<1> HIDE DEF level
<1>5. ASSUME NEW i \in 1..Len(headings), NEW j \in 1..Len(headings), i < j
      PROVE  doc[headings[i]].level < doc[headings[j]].level
  <2>1. headings[i] < headings[j]
    BY <1>5 DEF HeadingsInv, Increasing
  <2>2. headings[j] \in (headings[i] + 1)..(next - 1)
    <3>1. headings[i] \in 1..(next - 1) /\ headings[j] \in 1..(next - 1)
      BY <1>3
    <3> QED
      BY <1>1, <2>1, <3>1
  <2>3. ~IsBody(headings[j]) /\ headings[i] \in Enclosing(next)
    BY <1>2 DEF Enclosing
  <2>4. doc[headings[j]].level > doc[headings[i]].level
    BY <2>2, <2>3 DEF Enclosing
  <2> QED
    BY <1>3, <2>4
<1>6. PICK k : k = Max(levels)
  OBVIOUS
<1>7. k \in levels /\ \A n \in levels : n <= k
  <2>1. levels \subseteq 0..Len(headings) /\ 0 \in levels
    BY <1>1
  <2> HIDE DEF levels
  <2> QED
    BY <1>1, <1>6, <2>1, Greatest
<1>8. k \in 0..Len(headings) /\ (k # 0 => doc[headings[k]].level < level)
  BY <1>7
<1>9. ASSUME NEW i \in 1..Len(headings) PROVE doc[headings[i]].level < level <=> i <= k
  <2>1. CASE i <= k
    <3>1. k \in 1..Len(headings)
      BY <1>1, <1>8, <2>1
    <3>2. i = k \/ doc[headings[i]].level < doc[headings[k]].level
      BY <1>5, <1>8, <2>1, <3>1
    <3>3. /\ doc[headings[i]].level \in Nat /\ doc[headings[k]].level \in Nat
          /\ doc[headings[k]].level < level
      BY <1>1, <1>3, <1>8, <3>1
    <3> QED
      BY <1>4, <2>1, <3>2, <3>3
  <2>2. CASE ~(i <= k)
    <3>1. i \notin levels
      BY <1>7, <2>2
    <3> QED
      BY <1>1, <2>2, <3>1
  <2> QED
    BY <2>1, <2>2
<1>10. stack = Append(SubSeq(headings, 1, k), next)
  BY <1>6 DEF Kept, level
<1> HIDE DEF levels
<1>11. PICK kept \in Seq(Nat) : /\ kept = SubSeq(headings, 1, k) /\ Len(kept) = k
                                /\ \A i \in 1..k : kept[i] = headings[i]
  <2>1. k \in Nat /\ k <= Len(headings)
    BY <1>1, <1>8
  <2>2. /\ SubSeq(headings, 1, k) \in Seq(Nat) /\ Len(SubSeq(headings, 1, k)) = k
        /\ \A i \in 1..k : SubSeq(headings, 1, k)[i] = headings[i]
    BY <1>1, <2>1
  <2> QED
    BY <2>2
<1>12. /\ stack \in Seq(Nat) /\ Len(stack) = k + 1 /\ stack[k + 1] = next
       /\ \A i \in 1..k : stack[i] = headings[i]
  <2>1. stack = Append(kept, next) /\ next \in Nat
    BY <1>1, <1>10, <1>11
  <2>2. \A i \in 1..Len(kept) : Append(kept, next)[i] = kept[i]
    BY <1>1
  <2>3. Append(kept, next) \in Seq(Nat) /\ Len(Append(kept, next)) = Len(kept) + 1
        /\ Append(kept, next)[Len(kept) + 1] = next
    BY <1>1
  <2> QED
    BY <1>11, <2>1, <2>2, <2>3
<1>13. Increasing(stack)
  <2> SUFFICES ASSUME NEW i \in 1..(k + 1), NEW j \in 1..(k + 1), i < j PROVE stack[i] < stack[j]
    BY <1>12 DEF Increasing
  <2>1. i \in 1..k /\ i \in 1..Len(headings) /\ stack[i] = headings[i]
    <3>1. i \in 1..k /\ i \in 1..Len(headings)
      BY <1>1, <1>8
    <3> QED
      BY <1>12, <3>1
  <2>2. CASE j = k + 1
    <3>1. stack[j] = next /\ headings[i] \in 1..(next - 1)
      BY <1>3, <1>12, <2>1, <2>2
    <3>2. headings[i] < next
      BY <1>1, <3>1
    <3> QED
      BY <2>1, <3>1, <3>2
  <2>3. CASE j # k + 1
    <3>1. j \in 1..Len(headings) /\ j \in 1..k
      BY <1>1, <1>8, <2>3
    <3>3. stack[j] = headings[j]
      BY <1>12, <3>1
    <3>2. headings[i] < headings[j]
      BY <2>1, <3>1 DEF HeadingsInv, Increasing
    <3> QED
      BY <2>1, <3>2, <3>3
  <2> QED
    BY <2>2, <2>3
<1>14. ASSUME NEW h PROVE (\E i \in 1..(k + 1) : stack[i] = h)
                          <=> h \in {g \in Enclosing(next) : doc[g].level < level} \cup {next}
  <2>1. ASSUME NEW i \in 1..(k + 1), stack[i] = h
        PROVE  h \in {g \in Enclosing(next) : doc[g].level < level} \cup {next}
    <3>1. CASE i = k + 1
      BY <1>12, <2>1, <3>1
    <3>2. CASE i # k + 1
      <4>1. i \in 1..k /\ i \in 1..Len(headings)
        BY <1>1, <1>8, <3>2
      <4>2. h = headings[i]
        BY <1>12, <2>1, <4>1
      <4> QED
        BY <1>2, <1>9, <4>1, <4>2
    <3> QED
      BY <3>1, <3>2
  <2>2. ASSUME h \in Enclosing(next), doc[h].level < level
        PROVE  \E i \in 1..(k + 1) : stack[i] = h
    <3>1. PICK i \in 1..Len(headings) : headings[i] = h
      BY <1>2, <2>2
    <3>2. i \in 1..k /\ i \in 1..(k + 1)
      BY <1>1, <1>8, <1>9, <2>2, <3>1
    <3> QED
      BY <1>12, <3>1, <3>2
  <2>3. ASSUME h = next PROVE \E i \in 1..(k + 1) : stack[i] = h
    BY <1>8, <1>12, <2>3
  <2> QED
    BY <2>1, <2>2, <2>3
<1>15. DOMAIN stack = 1..(k + 1)
  BY <1>12
<1>16. ToSet(stack) = {g \in Enclosing(next) : doc[g].level < level} \cup {next}
  BY <1>14, <1>15 DEF ToSet
<1>17. Enclosing(next + 1) = {g \in Enclosing(next) : doc[g].level < level} \cup {next}
  BY EnclosingHeading DEF level
<1> QED
  BY <1>12, <1>13, <1>16, <1>17

-----------------------------------------------------------------------------
(* What is flushed.                                                        *)

(* The end of a chunk is somewhere.                                        *)
LEMMA LastPiece ==
  ASSUME NEW chs \in Seq(Chunk), Laid(chs), NEW c \in 1..Len(chs)
  PROVE  LastOf(chs[c].text).block \in Nat /\ LastOf(chs[c].text).to \in Nat
<1>1. chs[c] \in Chunk /\ Sound(chs[c])
  BY DEF Laid
<1>2. PICK text \in Seq(Piece) : text = chs[c].text /\ text # <<>>
  BY <1>1 DEF Chunk, Sound, Contiguous
<1>3. text[Len(text)] \in Piece
  BY <1>2
<1> QED
  BY <1>2, <1>3 DEF LastOf, Piece

(* What ends before a place ends before a later one.                       *)
LEMMA EndsEarlier ==
  ASSUME NEW chs \in Seq(Chunk), Laid(chs), NEW b \in Nat, NEW s \in Nat, EndBefore(chs, b, s),
         NEW c \in Nat, NEW t \in Nat, b < c \/ (b = c /\ s <= t)
  PROVE  EndBefore(chs, c, t)
<1>1. ASSUME NEW x \in Nat, NEW y \in Nat, Before(x, y, b, s) PROVE Before(x, y, c, t)
  BY <1>1 DEF Before
<1> QED
  BY <1>1, LastPiece DEF EndBefore

(* The pieces accumulated are contiguous and end where the loop is.        *)
LEMMA BodyText ==
  ASSUME TypeInv, BodyInv, body # <<>>
  PROVE  /\ Contiguous(body) /\ next - Len(body) \in Nat
         /\ body[1].block = next - Len(body) /\ body[1].from = 1
         /\ LastOf(body).block = next - 1 /\ LastOf(body).block \in Nat
         /\ \A p \in 1..Len(body) : Enclosing(body[p].block) = ToSet(headings)
         /\ \A b \in (next - Len(body))..(next - 1) :
              \A s \in 1..Len(doc[b].sentences) : Has(body, b, s)
<1>1. /\ next \in Nat /\ Len(doc) \in Nat /\ next <= Len(doc) + 1 /\ body \in Seq(Piece)
      /\ Len(body) < next
  BY DEF TypeInv, BodyInv
<1>2. PICK n : n = Len(body)
  OBVIOUS
<1>3. n \in Nat /\ n # 0 /\ n < next /\ n \in 1..n /\ 1 \in 1..n
  BY <1>1, <1>2
<1>4. ASSUME NEW p \in 1..n
      PROVE  /\ body[p].block = next - n + p - 1 /\ body[p].from = 1
             /\ body[p].to = Len(doc[body[p].block].sentences)
             /\ IsBody(body[p].block) /\ Enclosing(body[p].block) = ToSet(headings)
  <2>1. PICK b : b = next - n + p - 1
    OBVIOUS
  <2>2. body[p] = Whole(b) /\ IsBody(b) /\ Enclosing(b) = ToSet(headings)
    BY <1>2, <2>1 DEF BodyInv
  <2>3. body[p].block = b /\ body[p].from = 1 /\ body[p].to = Len(doc[b].sentences)
    BY <2>2 DEF Whole
  <2> QED
    BY <2>1, <2>2, <2>3
<1>5. \A p \in 1..n : body[p].block \in 1..Len(doc)
  BY <1>1, <1>3, <1>4
<1>6. body[1].block = next - n /\ body[n].block = next - 1 /\ body[1].from = 1
  BY <1>1, <1>3, <1>4
<1>7. \A p \in 1..n : body[p].block = body[1].block + p - 1
  BY <1>1, <1>3, <1>4, <1>6
<1>8. Contiguous(body)
  BY <1>2, <1>4, <1>5, <1>7 DEF Contiguous
<1>9. ASSUME NEW b \in (next - n)..(next - 1), NEW s \in 1..Len(doc[b].sentences)
      PROVE  Has(body, b, s)
  <2>1. b - (next - n) + 1 \in 1..n
    BY <1>1, <1>3
  <2>2. PICK p \in 1..n : p = b - (next - n) + 1
    BY <2>1
  <2>3. body[p].block = b
    BY <1>1, <1>3, <1>4, <2>2
  <2> QED
    BY <1>2, <1>4, <2>3 DEF Has
<1>10. next - n \in Nat /\ next - 1 \in Nat
  BY <1>1, <1>3
<1> QED
  BY <1>2, <1>4, <1>6, <1>8, <1>9, <1>10 DEF LastOf

(* A chunk that is appended keeps what is covered and adds its own text.   *)
LEMMA CoverGrows ==
  ASSUME NEW chs \in Seq(Chunk), NEW ch \in Chunk, NEW b, NEW s,
         Covered(chs, b, s) \/ Has(ch.text, b, s)
  PROVE  Covered(Append(chs, ch), b, s)
<1> DEFINE more == Append(chs, ch)
<1>1. /\ Len(more) = Len(chs) + 1 /\ more[Len(chs) + 1] = ch
      /\ \A c \in 1..Len(chs) : more[c] = chs[c]
  BY OneMore
<1>2. Len(chs) \in Nat
  OBVIOUS
<1> HIDE DEF more
<1>3. CASE Covered(chs, b, s)
  <2>1. PICK c \in 1..Len(chs) : Has(chs[c].text, b, s)
    BY <1>3 DEF Covered
  <2>2. c \in 1..Len(more)
    BY <1>1, <1>2
  <2>3. Covered(more, b, s)
    BY <1>1, <2>1, <2>2 DEF Covered
  <2> QED
    BY <2>3 DEF more
<1>4. CASE Has(ch.text, b, s)
  <2>1. Len(chs) + 1 \in 1..Len(more)
    BY <1>1, <1>2
  <2>2. Covered(more, b, s)
    BY <1>1, <1>4, <2>1 DEF Covered
  <2> QED
    BY <2>2 DEF more
<1> QED
  BY <1>3, <1>4

(* flush() of what is accumulated.                                         *)
LEMMA FlushedBody ==
  ASSUME IInv, split = NoSplit, NEW chs, chs = Flushed(body, overlap)
  PROVE  /\ chs \in Seq(Chunk) /\ Laid(chs) /\ EndBefore(chs, next, 0)
         /\ FlushedOverlap \in Nat /\ Repeats(FlushedOverlap, chs)
         /\ \A b \in 1..Len(doc) : \A s \in 1..Len(doc[b].sentences) :
              b < next => Covered(chs, b, s)
<1>1. /\ TypeInv /\ HeadingsInv /\ BodyInv /\ Repeats(overlap, chunks) /\ Laid(chunks)
      /\ FrontInv /\ CoverInv
  BY DEF IInv
<1>2. /\ next \in Nat /\ Len(doc) \in Nat /\ body \in Seq(Piece) /\ headings \in Seq(Nat)
      /\ overlap \in Nat /\ chunks \in Seq(Chunk) /\ Len(chunks) \in Nat /\ Len(body) \in Nat
  BY <1>1 DEF TypeInv
<1>3. split.start = 0
  BY DEF NoSplit
<1>4. CASE body = <<>>
  <2>1. chs = chunks /\ FlushedOverlap = overlap /\ Len(body) = 0
    BY <1>4 DEF Flushed, FlushedOverlap
  <2>2. EndBefore(chs, next, 0)
    BY <1>1, <1>2, <1>3, <1>4, <2>1 DEF FrontInv, StartAt
  <2>3. ASSUME NEW b \in 1..Len(doc), NEW s \in 1..Len(doc[b].sentences), b < next
        PROVE  Covered(chs, b, s)
    <3>1. ~Waits(b, s)
      BY <1>2, <2>1, <2>3 DEF Waits
    <3> QED
      BY <1>1, <2>1, <2>3, <3>1 DEF CoverInv, Passed
  <2> QED
    BY <1>1, <1>2, <2>1, <2>2, <2>3
<1>5. CASE body # <<>>
  <2>1. PICK ch : ch = [text |-> body, section |-> headings, overlap |-> overlap]
    OBVIOUS
  <2>2. ch \in Chunk /\ ch.text = body /\ ch.section = headings /\ ch.overlap = overlap
    BY <1>2, <2>1 DEF Chunk
  <2>3. chs = Append(chunks, ch) /\ FlushedOverlap = Len(chunks) + 1
    BY <1>5, <2>1 DEF Flushed, FlushedOverlap
  <2>4. Sound(ch)
    BY <1>1, <1>5, <2>2, BodyText DEF Sound, HeadingsInv
  <2>5. EndBefore(chunks, ch.text[1].block, ch.text[1].from)
    BY <1>1, <1>5, <2>2, BodyText DEF FrontInv, StartAt
  <2>6. ch.overlap # 0 => ch.overlap = Len(chunks) /\ chunks[Len(chunks)].section = ch.section
    BY <1>1, <2>2 DEF Repeats
  <2>7. Laid(chs)
    BY <1>1, <1>2, <2>2, <2>3, <2>4, <2>5, <2>6, LaidOn
  <2>8. /\ chs \in Seq(Chunk) /\ Len(chs) = Len(chunks) + 1 /\ chs[Len(chunks) + 1] = ch
        /\ \A c \in 1..Len(chunks) : chs[c] = chunks[c]
    BY <1>2, <2>2, <2>3, OneMore
  <2>9. EndBefore(chunks, next, 0)
    <3>1. next - Len(body) \in Nat /\ next - Len(body) < next
      <4>1. Len(body) # 0 /\ Len(body) < next
        BY <1>1, <1>2, <1>5 DEF BodyInv
      <4> QED
        BY <1>2, <4>1
    <3>2. EndBefore(chunks, next - Len(body), 1)
      BY <1>1, <1>5 DEF FrontInv, StartAt
    <3> QED
      BY <1>1, <1>2, <3>1, <3>2, EndsEarlier
  <2>10. Before(LastOf(ch.text).block, LastOf(ch.text).to, next, 0)
    <3>1. LastOf(body).block = next - 1
      BY <1>1, <1>5, BodyText
    <3> QED
      BY <1>2, <2>2, <3>1 DEF Before
  <2>11. EndBefore(chs, next, 0)
    <3> SUFFICES ASSUME NEW c \in 1..Len(chs)
                 PROVE  Before(LastOf(chs[c].text).block, LastOf(chs[c].text).to, next, 0)
      BY DEF EndBefore
    <3>1. c \in 1..Len(chunks) \/ c = Len(chunks) + 1
      BY <1>2, <2>8
    <3> QED
      BY <2>8, <2>9, <2>10, <3>1 DEF EndBefore
  <2>12. FlushedOverlap \in Nat /\ Repeats(FlushedOverlap, chs)
    BY <1>2, <2>2, <2>3, <2>8 DEF Repeats
  <2>13. ASSUME NEW b \in 1..Len(doc), NEW s \in 1..Len(doc[b].sentences), b < next
         PROVE  Covered(chs, b, s)
    <3>1. CASE next - Len(body) <= b
      <4>1. next - Len(body) \in Nat
        BY <1>1, <1>5, BodyText
      <4>2. b \in (next - Len(body))..(next - 1)
        BY <1>2, <2>13, <3>1, <4>1
      <4>3. Has(ch.text, b, s)
        BY <1>1, <1>5, <2>2, <4>2, BodyText
      <4> QED
        BY <1>2, <2>2, <2>3, <4>3, CoverGrows
    <3>2. CASE ~(next - Len(body) <= b)
      <4>1. Covered(chunks, b, s)
        BY <1>1, <2>13, <3>2 DEF CoverInv, Passed, Waits
      <4> QED
        BY <1>2, <2>2, <2>3, <4>1, CoverGrows
    <3> QED
      BY <3>1, <3>2
  <2> QED
    BY <2>7, <2>8, <2>11, <2>12, <2>13
<1> QED
  BY <1>4, <1>5

(* push() of a part of a block that is split.                              *)
LEMMA FlushedPart ==
  ASSUME IInv, split # NoSplit, NEW chs, chs = Flushed(Part(split.at), overlap)
  PROVE  /\ chs \in Seq(Chunk) /\ Laid(chs)
         /\ EndBefore(chs, next, split.at) /\ EndBefore(chs, next + 1, 0)
         /\ Len(chunks) + 1 \in Nat /\ Repeats(Len(chunks) + 1, chs)
         /\ \A b \in 1..Len(doc) : \A s \in 1..Len(doc[b].sentences) :
              b < next \/ (b = next /\ s < split.at) => Covered(chs, b, s)
<1>1. /\ TypeInv /\ HeadingsInv /\ Repeats(overlap, chunks) /\ Laid(chunks) /\ FrontInv /\ CoverInv
      /\ body = <<>> /\ next <= Len(doc) /\ IsBody(next)
      /\ split.at # 0 /\ split.start < split.at
  BY DEF IInv, SplitInv
<1>2. /\ next \in Nat /\ next >= 1 /\ Len(doc) \in Nat /\ headings \in Seq(Nat)
      /\ overlap \in Nat /\ chunks \in Seq(Chunk) /\ Len(chunks) \in Nat /\ Len(body) = 0
      /\ split.at \in Nat /\ split.start \in Nat /\ split.at - 1 \in Nat
  <2>1. split.at \in Nat /\ split.at # 0
    BY <1>1 DEF TypeInv
  <2>2. split.at - 1 \in Nat
    BY <2>1
  <2> QED
    BY <1>1, <2>2 DEF TypeInv
<1>3. next \in 1..Len(doc) /\ Enclosing(next) = ToSet(headings)
  BY <1>1, <1>2 DEF HeadingsInv
<1>4. PICK piece : piece = [block |-> next, from |-> split.start, to |-> split.at - 1]
  OBVIOUS
<1>5. /\ piece \in Piece /\ piece.block = next /\ piece.from = split.start
      /\ piece.to = split.at - 1
  BY <1>2, <1>4 DEF Piece
<1>6. PICK text \in Seq(Piece) : text = <<piece>> /\ Len(text) = 1 /\ text[1] = piece
  <2>1. <<piece>> \in Seq(Piece) /\ Len(<<piece>>) = 1 /\ <<piece>>[1] = piece
    BY <1>5
  <2> QED
    BY <2>1
<1>7. PICK ch : ch = [text |-> text, section |-> headings, overlap |-> overlap]
  OBVIOUS
<1>8. ch \in Chunk /\ ch.text = text /\ ch.section = headings /\ ch.overlap = overlap
  BY <1>2, <1>7 DEF Chunk
<1>9. chs = Append(chunks, ch)
  BY <1>4, <1>6, <1>7 DEF Flushed, Part
<1>10. /\ chs \in Seq(Chunk) /\ Len(chs) = Len(chunks) + 1 /\ chs[Len(chunks) + 1] = ch
       /\ \A c \in 1..Len(chunks) : chs[c] = chunks[c]
  BY <1>2, <1>8, <1>9, OneMore
<1>11. Contiguous(text)
  BY <1>1, <1>2, <1>3, <1>5, <1>6 DEF Contiguous
<1>12. Sound(ch)
  BY <1>1, <1>3, <1>5, <1>6, <1>8, <1>11 DEF Sound, HeadingsInv
<1>13. EndBefore(chunks, next, split.start)
  BY <1>1, <1>2 DEF FrontInv, StartAt
<1>14. Laid(chs)
  <2>1. EndBefore(chunks, ch.text[1].block, ch.text[1].from)
    BY <1>5, <1>6, <1>8, <1>13
  <2>2. ch.overlap # 0 => ch.overlap = Len(chunks) /\ chunks[Len(chunks)].section = ch.section
    BY <1>1, <1>8 DEF Repeats
  <2> QED
    BY <1>1, <1>2, <1>8, <1>9, <1>12, <2>1, <2>2, LaidOn
<1>15. EndBefore(chs, next, split.at)
  <2>1. EndBefore(chunks, next, split.at)
    BY <1>1, <1>2, <1>13, EndsEarlier
  <2>2. LastOf(ch.text) = piece
    BY <1>6, <1>8 DEF LastOf
  <2>3. Before(piece.block, piece.to, next, split.at)
    BY <1>2, <1>5 DEF Before
  <2> SUFFICES ASSUME NEW c \in 1..Len(chs)
               PROVE  Before(LastOf(chs[c].text).block, LastOf(chs[c].text).to, next, split.at)
    BY DEF EndBefore
  <2>4. c \in 1..Len(chunks) \/ c = Len(chunks) + 1
    BY <1>2, <1>10
  <2> QED
    BY <1>10, <2>1, <2>2, <2>3, <2>4 DEF EndBefore
<1>16. EndBefore(chs, next + 1, 0)
  <2>1. /\ next \in Nat /\ split.at \in Nat /\ next + 1 \in Nat /\ 0 \in Nat
        /\ next < next + 1
    BY <1>2
  <2>2. chs \in Seq(Chunk)
    BY <1>10
  <2> QED
    BY <1>14, <1>15, <2>1, <2>2, EndsEarlier
<1>17. Len(chunks) + 1 \in Nat /\ Repeats(Len(chunks) + 1, chs)
  BY <1>2, <1>8, <1>10 DEF Repeats
<1>18. ASSUME NEW b \in 1..Len(doc), NEW s \in 1..Len(doc[b].sentences),
              b < next \/ (b = next /\ s < split.at)
       PROVE  Covered(chs, b, s)
  <2>1. CASE b = next /\ split.start # 0 /\ split.start <= s
    <3>1. s \in Nat
      BY <1>1, Blocks DEF TypeInv
    <3>2. s \in split.start..(split.at - 1)
      BY <1>2, <1>18, <2>1, <3>1
    <3>3. Has(text, b, s)
      BY <1>5, <1>6, <2>1, <3>2 DEF Has
    <3> QED
      BY <1>2, <1>8, <1>9, <3>3, CoverGrows
  <2>2. CASE ~(b = next /\ split.start # 0 /\ split.start <= s)
    <3>1. ~Waits(b, s)
      BY <1>2, <1>18, <2>2 DEF Waits
    <3>2. Covered(chunks, b, s)
      BY <1>1, <1>18, <3>1 DEF CoverInv, Passed
    <3> QED
      BY <1>2, <1>8, <1>9, <3>2, CoverGrows
  <2> QED
    BY <2>1, <2>2
<1> QED
  BY <1>10, <1>14, <1>15, <1>16, <1>17, <1>18

-----------------------------------------------------------------------------
(* Every turn of the loops keeps the invariant.                            *)

(* What a turn of the loops has to show: the parts of the invariant about  *)
(* the loops, and that the chunks it leaves are laid and hold what is      *)
(* passed.                                                                 *)
LEMMA Onward ==
  ASSUME UNCHANGED doc, TypeInv', HeadingsInv', BodyInv', SplitInv',
         NEW chs, chs = chunks', Laid(chs), EndBefore(chs, next' - Len(body'), StartAt'),
         overlap' # 0 => overlap' = Len(chs) /\ chs[overlap'].section = headings',
         \A b \in 1..Len(doc) : \A s \in 1..Len(doc[b].sentences) :
           Passed(b, s)' => Waits(b, s)' \/ Covered(chs, b, s)
  PROVE  IInv'
<1>1. Laid(chunks)'
  <2>1. Laid(chs)'
    BY DocumentStays
  <2> QED
    BY <2>1 DEF Laid, Sound, Contiguous, IsBody, Enclosing, Increasing, LastOf, Before
<1>2. FrontInv' /\ Repeats(overlap, chunks)'
  BY DEF FrontInv, Repeats
<1>3. CoverInv'
  BY DEF CoverInv
<1> QED
  BY <1>1, <1>2, <1>3 DEF IInv

(* What every turn may use.                                                *)
LEMMA Known ==
  ASSUME IInv
  PROVE  /\ TypeInv /\ HeadingsInv /\ BodyInv /\ SplitInv /\ Repeats(overlap, chunks)
         /\ Laid(chunks) /\ FrontInv /\ CoverInv
         /\ next \in Nat /\ next >= 1 /\ next + 1 \in Nat /\ Len(doc) \in Nat /\ doc \in Seq(Block)
         /\ headings \in Seq(Nat) /\ body \in Seq(Piece) /\ Len(body) \in Nat
         /\ overlap \in Nat /\ chunks \in Seq(Chunk) /\ Len(chunks) \in Nat
         /\ split.at \in Nat /\ split.start \in Nat
BY DEF IInv, TypeInv

(* A heading closes the chunk, and opens a section.                        *)
LEMMA HeadingTurn ==
  ASSUME IInv, TakeHeading
  PROVE  IInv'
<1>1. PICK chs : chs = Flushed(body, overlap)
  OBVIOUS
<1>2. PICK stack : stack = Append(SubSeq(headings, 1, Kept(doc[next].level)), next)
  OBVIOUS
<1>3. /\ split = NoSplit /\ next <= Len(doc) /\ ~IsBody(next)
      /\ chunks' = chs /\ body' = <<>> /\ overlap' = 0 /\ headings' = stack /\ next' = next + 1
      /\ doc' = doc /\ split' = NoSplit
  BY <1>1, <1>2 DEF TakeHeading, Reading
<1>4. next \in 1..Len(doc) /\ next + 1 \in 1..(Len(doc) + 2) /\ next + 1 <= Len(doc) + 1
  BY <1>3, Known
<1>5. stack \in Seq(Nat) /\ Increasing(stack) /\ ToSet(stack) = Enclosing(next + 1)
  BY <1>2, <1>3, Known, Popped
<1>6. split'.at = 0 /\ split'.start = 0 /\ Len(body') = 0 /\ body' \in Seq(Piece)
  BY <1>3 DEF NoSplit
<1>7. chs \in Seq(Chunk) /\ Laid(chs) /\ EndBefore(chs, next, 0)
  BY <1>1, <1>3, FlushedBody
<1>8. TypeInv'
  BY <1>3, <1>4, <1>5, <1>6, <1>7, Known DEF TypeInv
<1>9. HeadingsInv'
  BY <1>3, <1>5 DEF HeadingsInv, Enclosing, IsBody
<1>10. BodyInv' /\ SplitInv'
  BY <1>3, <1>4, <1>6, Known DEF BodyInv, SplitInv
<1>11. EndBefore(chs, next' - Len(body'), StartAt')
  <2>1. EndBefore(chs, next + 1, 0)
    BY <1>4, <1>7, Known, EndsEarlier
  <2>2. next' - Len(body') = next + 1 /\ StartAt' = 0
    BY <1>3, <1>6, Known DEF StartAt
  <2> QED
    BY <2>1, <2>2
<1>12. ASSUME NEW b \in 1..Len(doc), NEW s \in 1..Len(doc[b].sentences), Passed(b, s)'
       PROVE  Covered(chs, b, s)
  <2>1. b # next
    <3>1. doc[next].level # 0
      BY <1>3 DEF IsBody
    <3>2. Len(doc[next].sentences) = 0
      BY <1>4, <3>1, Known, Blocks
    <3> QED
      BY <3>2
  <2>2. b < next
    BY <1>3, <1>12, <2>1, Known DEF Passed
  <2> QED
    BY <1>1, <1>3, <2>2, FlushedBody
<1> QED
  BY <1>3, <1>7, <1>8, <1>9, <1>10, <1>11, <1>12, Onward

(* A paragraph goes into the chunk, or closes it and begins the next.      *)
LEMMA ParagraphTurn ==
  ASSUME IInv, TakeParagraph
  PROVE  IInv'
<1>1. PICK chs : chs = Flushed(body, overlap)
  OBVIOUS
<1>2. PICK piece : piece = Whole(next)
  OBVIOUS
<1>3. /\ split = NoSplit /\ next <= Len(doc) /\ IsBody(next)
      /\ \/ chunks' = chs /\ overlap' = FlushedOverlap /\ body' = <<piece>>
         \/ body' = Append(body, piece) /\ UNCHANGED <<chunks, overlap>>
      /\ next' = next + 1 /\ UNCHANGED <<doc, headings, split>>
  BY <1>1, <1>2 DEF TakeParagraph, Reading
<1>4. next \in 1..Len(doc) /\ next + 1 \in 1..(Len(doc) + 2) /\ next + 1 <= Len(doc) + 1
  BY <1>3, Known
<1>5. Enclosing(next + 1) = Enclosing(next) /\ Enclosing(next) = ToSet(headings)
  BY <1>3, <1>4, Known, EnclosingBody DEF HeadingsInv
<1>6. HeadingsInv'
  BY <1>3, <1>5, Known DEF HeadingsInv, Enclosing, IsBody
<1>7. SplitInv' /\ split'.at = 0 /\ split'.start = 0
  BY <1>3 DEF SplitInv, NoSplit
<1>8. piece \in Piece
  BY <1>2, <1>4, Known, Blocks DEF Piece, Whole
<1>9. CASE chunks' = chs /\ overlap' = FlushedOverlap /\ body' = <<piece>>
  <2>1. /\ chs \in Seq(Chunk) /\ Laid(chs) /\ EndBefore(chs, next, 0) /\ FlushedOverlap \in Nat
        /\ Repeats(FlushedOverlap, chs)
    BY <1>1, <1>3, FlushedBody
  <2>2. body' \in Seq(Piece) /\ Len(body') = 1 /\ body'[1] = piece /\ body' # <<>>
    BY <1>8, <1>9
  <2>3. TypeInv'
    BY <1>3, <1>4, <1>7, <1>9, <2>1, <2>2, Known DEF TypeInv
  <2>4. BodyInv'
    <3>1. PICK b : b = next
      OBVIOUS
    <3>2. next' - Len(body') + 1 - 1 = b
      BY <1>3, <2>2, <3>1, Known
    <3>3. body'[1] = Whole(b)' /\ IsBody(b)' /\ Enclosing(b)' = ToSet(headings')
      BY <1>2, <1>3, <1>5, <2>2, <3>1 DEF Whole, IsBody, Enclosing
    <3>4. Len(body') < next' /\ next' <= Len(doc') + 1
      BY <1>3, <1>4, <2>2, Known
    <3>5. \A p \in 1..Len(body') : p = 1
      BY <2>2
    <3> QED
      BY <3>2, <3>3, <3>4, <3>5 DEF BodyInv
  <2>5. EndBefore(chs, next' - Len(body'), StartAt')
    <3>1. EndBefore(chs, next, 1)
      BY <2>1, Known, EndsEarlier
    <3>2. next' - Len(body') = next /\ StartAt' = 1
      BY <1>3, <2>2, Known DEF StartAt
    <3> QED
      BY <3>1, <3>2
  <2>6. ASSUME NEW b \in 1..Len(doc), NEW s \in 1..Len(doc[b].sentences), Passed(b, s)'
        PROVE  Waits(b, s)' \/ Covered(chs, b, s)
    <3>1. b < next \/ b = next
      BY <1>3, <1>7, <2>6, Known DEF Passed
    <3>2. CASE b < next
      BY <1>1, <1>3, <3>2, FlushedBody
    <3>3. CASE b = next
      BY <1>3, <2>2, <3>3, Known DEF Waits
    <3> QED
      BY <3>1, <3>2, <3>3
  <2> QED
    BY <1>3, <1>6, <1>7, <1>9, <2>1, <2>3, <2>4, <2>5, <2>6, Onward DEF Repeats
<1>10. CASE body' = Append(body, piece) /\ UNCHANGED <<chunks, overlap>>
  <2>1. PICK n \in Nat : n = Len(body)
    BY Known
  <2>2. /\ body' \in Seq(Piece) /\ Len(body') = n + 1 /\ body'[n + 1] = piece /\ body' # <<>>
        /\ \A p \in 1..n : body'[p] = body[p]
    <3>1. Append(body, piece) \in Seq(Piece) /\ Len(Append(body, piece)) = Len(body) + 1
      BY <1>8, Known
    <3>2. Append(body, piece)[Len(body) + 1] = piece
      BY <1>8, Known
    <3>3. \A p \in 1..Len(body) : Append(body, piece)[p] = body[p]
      BY <1>8, Known
    <3>4. body' # <<>>
      BY <1>10, <2>1, <3>1
    <3> QED
      BY <1>10, <2>1, <3>1, <3>2, <3>3, <3>4
  <2>3. TypeInv'
    BY <1>3, <1>4, <1>7, <1>10, <2>2, Known DEF TypeInv
  <2>4. n < next /\ next' - Len(body') = next - n
    BY <1>3, <2>1, <2>2, Known DEF BodyInv
  <2>5. BodyInv'
    <3>1. Len(body') < next' /\ next' <= Len(doc') + 1
      BY <1>3, <1>4, <2>2, <2>4, Known
    <3>2. ASSUME NEW p \in 1..(n + 1), NEW b, b = next - n + p - 1
          PROVE  body'[p] = Whole(b)' /\ IsBody(b)' /\ Enclosing(b)' = ToSet(headings')
      <4>1. CASE p = n + 1
        <5>1. b = next /\ body'[p] = piece
          BY <2>2, <3>2, <4>1, Known
        <5> QED
          BY <1>2, <1>3, <1>5, <5>1 DEF Whole, IsBody, Enclosing
      <4>2. CASE p # n + 1
        <5>1. p \in 1..n
          BY <4>2
        <5>2. body[p] = Whole(b) /\ IsBody(b) /\ Enclosing(b) = ToSet(headings)
          BY <2>1, <3>2, <5>1, Known DEF BodyInv
        <5> QED
          BY <1>3, <2>2, <5>1, <5>2 DEF Whole, IsBody, Enclosing
      <4> QED
        BY <4>1, <4>2
    <3> QED
      BY <2>2, <2>4, <3>1, <3>2 DEF BodyInv
  <2>6. EndBefore(chunks, next' - Len(body'), StartAt')
    <3>1. EndBefore(chunks, next - n, StartAt) /\ StartAt' = 1
      BY <2>1, <2>2, Known DEF FrontInv, StartAt
    <3>2. StartAt \in Nat /\ StartAt <= 1 /\ next - n \in Nat
      BY <1>3, <2>4, Known DEF StartAt, NoSplit
    <3>3. EndBefore(chunks, next - n, 1)
      BY <3>1, <3>2, Known, EndsEarlier
    <3> QED
      BY <2>4, <3>1, <3>3
  <2>7. ASSUME NEW b \in 1..Len(doc), NEW s \in 1..Len(doc[b].sentences), Passed(b, s)'
        PROVE  Waits(b, s)' \/ Covered(chunks, b, s)
    <3>1. b < next \/ b = next
      BY <1>3, <1>7, <2>7, Known DEF Passed
    <3>2. CASE next - n <= b
      <4>1. b # next'
        BY <1>3, <3>1, Known
      <4> QED
        BY <2>4, <3>2, <4>1 DEF Waits
    <3>3. CASE ~(next - n <= b)
      <4>1. b < next
        BY <2>1, <3>1, <3>3, Known
      <4> QED
        BY <2>1, <3>3, <4>1, Known DEF CoverInv, Passed, Waits
    <3> QED
      BY <3>2, <3>3
  <2> QED
    BY <1>3, <1>6, <1>7, <1>10, <2>3, <2>5, <2>6, <2>7, Known, Onward DEF Repeats
<1> QED
  BY <1>3, <1>9, <1>10

(* A paragraph that is too long closes the chunk, and is cut itself.       *)
LEMMA SplitTurn ==
  ASSUME IInv, StartSplit
  PROVE  IInv'
<1>1. PICK chs : chs = Flushed(body, overlap)
  OBVIOUS
<1>2. /\ split = NoSplit /\ next <= Len(doc) /\ IsBody(next)
      /\ chunks' = chs /\ body' = <<>> /\ overlap' = 0
      /\ split' = [at |-> 1, start |-> 0, tokens |-> 0]
      /\ UNCHANGED <<doc, next, headings>>
  BY <1>1 DEF StartSplit, Reading
<1>3. split'.at = 1 /\ split'.start = 0 /\ Len(body') = 0 /\ body' \in Seq(Piece)
  BY <1>2
<1>4. chs \in Seq(Chunk) /\ Laid(chs) /\ EndBefore(chs, next, 0)
  BY <1>1, <1>2, FlushedBody
<1>5. TypeInv'
  BY <1>2, <1>3, <1>4, Known DEF TypeInv
<1>6. HeadingsInv'
  BY <1>2, Known DEF HeadingsInv, Enclosing, IsBody
<1>7. BodyInv'
  BY <1>2, <1>3, Known DEF BodyInv
<1>8. SplitInv'
  BY <1>2, <1>3 DEF SplitInv, IsBody
<1>9. EndBefore(chs, next' - Len(body'), StartAt')
  <2>1. next' - Len(body') = next /\ StartAt' = 0
    BY <1>2, <1>3, Known DEF StartAt
  <2> QED
    BY <1>4, <2>1
<1>10. ASSUME NEW b \in 1..Len(doc), NEW s \in 1..Len(doc[b].sentences), Passed(b, s)'
       PROVE  Covered(chs, b, s)
  <2>1. b < next
    <3>1. s \in 1..Len(doc[b].sentences) /\ Len(doc[b].sentences) \in Nat
      BY Known, Blocks
    <3>2. ~(s < 1)
      BY <3>1
    <3> QED
      BY <1>2, <1>3, <1>10, <3>2 DEF Passed
  <2> QED
    BY <1>1, <1>2, <2>1, FlushedBody
<1> QED
  BY <1>2, <1>4, <1>5, <1>6, <1>7, <1>8, <1>9, <1>10, Onward

(* A sentence goes into the part, or closes it and begins the next.        *)
LEMMA SentenceTurn ==
  ASSUME IInv, TakeSentence
  PROVE  IInv'
<1>1. PICK chs : chs = Flushed(Part(split.at), overlap)
  OBVIOUS
<1>2. PICK at, start : at = split.at /\ start = split.start
  OBVIOUS
<1>3. /\ split # NoSplit /\ UNCHANGED <<doc, next, headings, body>>
      /\ split'.at = at + 1
      /\ \/ /\ chunks' = chs /\ overlap' = Len(chunks) + 1 /\ split'.start = at
         \/ /\ split'.start = IF start = 0 THEN at ELSE start
            /\ UNCHANGED <<chunks, overlap>>
  BY <1>1, <1>2 DEF TakeSentence
<1>4. /\ body = <<>> /\ Len(body) = 0 /\ next <= Len(doc) /\ IsBody(next)
      /\ at \in Nat /\ start \in Nat /\ at # 0 /\ start < at /\ (start = 0 => at = 1)
  BY <1>2, <1>3, Known DEF SplitInv
<1>5. split' # NoSplit
  <2>1. at + 1 # 0
    BY <1>4
  <2> QED
    BY <1>3, <2>1 DEF NoSplit
<1>6. HeadingsInv'
  BY <1>3, Known DEF HeadingsInv, Enclosing, IsBody
<1>7. BodyInv'
  BY <1>3, <1>4, Known DEF BodyInv
<1>8. next' - Len(body') = next /\ StartAt' = split'.start
  BY <1>3, <1>4, Known DEF StartAt
<1>9. ASSUME NEW b \in 1..Len(doc), NEW s \in 1..Len(doc[b].sentences)
      PROVE  /\ s \in Nat
             /\ Passed(b, s)' <=> b < next \/ (b = next /\ s < at + 1)
             /\ Waits(b, s)' <=> next <= b /\ (b = next => split'.start # 0 /\ split'.start <= s)
  <2>1. s \in Nat
    BY Known, Blocks
  <2> QED
    BY <1>3, <1>5, <1>8, <2>1 DEF Passed, Waits
<1>10. CASE chunks' = chs /\ overlap' = Len(chunks) + 1 /\ split'.start = at
  <2>1. /\ chs \in Seq(Chunk) /\ Laid(chs) /\ EndBefore(chs, next, at)
        /\ Len(chunks) + 1 \in Nat /\ Repeats(Len(chunks) + 1, chs)
    BY <1>1, <1>2, <1>3, FlushedPart
  <2>2. TypeInv'
    BY <1>3, <1>4, <1>10, <2>1, Known DEF TypeInv
  <2>3. SplitInv'
    BY <1>3, <1>4, <1>10 DEF SplitInv, IsBody
  <2>4. EndBefore(chs, next' - Len(body'), StartAt')
    BY <1>8, <1>10, <2>1
  <2>5. ASSUME NEW b \in 1..Len(doc), NEW s \in 1..Len(doc[b].sentences), Passed(b, s)'
        PROVE  Waits(b, s)' \/ Covered(chs, b, s)
    <3>1. CASE b < next \/ (b = next /\ s < at)
      BY <1>1, <1>2, <1>3, <3>1, FlushedPart
    <3>2. CASE b = next /\ ~(s < at)
      BY <1>4, <1>9, <1>10, <3>2, Known
    <3> QED
      BY <1>9, <2>5, <3>1, <3>2
  <2> QED
    BY <1>3, <1>6, <1>7, <1>10, <2>1, <2>2, <2>3, <2>4, <2>5, Onward DEF Repeats
<1>11. CASE /\ split'.start = IF start = 0 THEN at ELSE start
            /\ UNCHANGED <<chunks, overlap>>
  <2>1. /\ split'.start \in Nat /\ split'.start # 0 /\ split'.start < at + 1
        /\ start <= split'.start /\ split'.start <= at /\ (start # 0 => split'.start = start)
    BY <1>4, <1>11
  <2>2. TypeInv'
    BY <1>3, <1>4, <1>11, <2>1, Known DEF TypeInv
  <2>3. SplitInv'
    BY <1>3, <1>4, <2>1 DEF SplitInv, IsBody
  <2>4. EndBefore(chunks, next' - Len(body'), StartAt')
    <3>1. EndBefore(chunks, next, start)
      BY <1>2, <1>4, Known DEF FrontInv, StartAt
    <3>2. EndBefore(chunks, next, split'.start)
      BY <1>4, <2>1, <3>1, Known, EndsEarlier
    <3> QED
      BY <1>8, <3>2
  <2>5. ASSUME NEW b \in 1..Len(doc), NEW s \in 1..Len(doc[b].sentences), Passed(b, s)'
        PROVE  Waits(b, s)' \/ Covered(chunks, b, s)
    <3>1. CASE b < next
      <4>1. ~Waits(b, s)
        BY <1>4, <3>1, Known DEF Waits
      <4> QED
        BY <3>1, <4>1, Known DEF CoverInv, Passed
    <3>2. CASE b = next /\ s < at
      <4>1. Waits(b, s) \/ Covered(chunks, b, s)
        BY <1>2, <1>3, <3>2, Known DEF CoverInv, Passed
      <4>2. Waits(b, s) => start # 0 /\ start <= s
        BY <1>2, <3>2 DEF Waits
      <4>3. start # 0 /\ start <= s => Waits(b, s)'
        BY <1>9, <2>1, <3>2, Known
      <4> QED
        BY <4>1, <4>2, <4>3
    <3>3. CASE b = next /\ ~(s < at)
      <4>1. s \in Nat
        BY <1>9
      <4>2. split'.start <= s
        BY <1>4, <2>1, <3>3, <4>1
      <4> QED
        BY <1>9, <2>1, <3>3, <4>2, Known
    <3> QED
      BY <1>9, <2>5, <3>1, <3>2, <3>3
  <2> QED
    BY <1>3, <1>6, <1>7, <1>11, <2>2, <2>3, <2>4, <2>5, Known, Onward DEF Repeats
<1> QED
  BY <1>3, <1>10, <1>11

(* The last part of a paragraph that was cut.                              *)
LEMMA PartsTurn ==
  ASSUME IInv, EndSplit
  PROVE  IInv'
<1>1. PICK chs : chs = Flushed(Part(split.at), overlap)
  OBVIOUS
<1>2. /\ split # NoSplit /\ split.at > Len(doc[next].sentences)
      /\ chunks' = chs /\ overlap' = Len(chunks) + 1 /\ split' = NoSplit /\ next' = next + 1
      /\ UNCHANGED <<doc, headings, body>>
  BY <1>1 DEF EndSplit
<1>3. body = <<>> /\ Len(body) = 0 /\ next <= Len(doc) /\ IsBody(next)
  BY <1>2, Known DEF SplitInv
<1>4. next + 1 \in 1..(Len(doc) + 2) /\ split'.at = 0 /\ split'.start = 0
  BY <1>2, <1>3, Known DEF NoSplit
<1>5. /\ chs \in Seq(Chunk) /\ Laid(chs) /\ EndBefore(chs, next + 1, 0)
      /\ Len(chunks) + 1 \in Nat /\ Repeats(Len(chunks) + 1, chs)
  BY <1>1, <1>2, FlushedPart
<1>6. TypeInv'
  BY <1>2, <1>4, <1>5, Known DEF TypeInv
<1>7. HeadingsInv'
  <2>1. Enclosing(next + 1) = ToSet(headings)
    BY <1>3, Known, EnclosingBody DEF HeadingsInv
  <2> QED
    BY <1>2, <2>1, Known DEF HeadingsInv, Enclosing, IsBody
<1>8. BodyInv' /\ SplitInv'
  BY <1>2, <1>3, Known DEF BodyInv, SplitInv
<1>9. EndBefore(chs, next' - Len(body'), StartAt')
  <2>1. next' - Len(body') = next + 1 /\ StartAt' = 0
    BY <1>2, <1>3, <1>4, Known DEF StartAt
  <2> QED
    BY <1>5, <2>1
<1>10. ASSUME NEW b \in 1..Len(doc), NEW s \in 1..Len(doc[b].sentences), Passed(b, s)'
       PROVE  Covered(chs, b, s)
  <2>1. b < next \/ b = next
    BY <1>2, <1>10, Known DEF Passed
  <2>2. b = next => s < split.at
    <3>1. Len(doc[b].sentences) \in Nat
      BY Known, Blocks
    <3> QED
      BY <1>2, <3>1, Known
  <2> QED
    BY <1>1, <1>2, <2>1, <2>2, FlushedPart
<1> QED
  BY <1>2, <1>5, <1>6, <1>7, <1>8, <1>9, <1>10, Onward DEF Repeats

(* What is left when the document ends.                                    *)
LEMMA LastTurn ==
  ASSUME IInv, Finish
  PROVE  IInv'
<1>1. PICK chs : chs = Flushed(body, overlap)
  OBVIOUS
<1>2. /\ split = NoSplit /\ next = Len(doc) + 1
      /\ chunks' = chs /\ overlap' = FlushedOverlap /\ body' = <<>> /\ next' = next + 1
      /\ UNCHANGED <<doc, headings, split>>
  BY <1>1 DEF Finish
<1>3. /\ next + 1 \in 1..(Len(doc) + 2) /\ split'.at = 0 /\ split'.start = 0
      /\ Len(body') = 0 /\ body' \in Seq(Piece)
  BY <1>2, Known DEF NoSplit
<1>4. /\ chs \in Seq(Chunk) /\ Laid(chs) /\ EndBefore(chs, next, 0)
      /\ FlushedOverlap \in Nat /\ Repeats(FlushedOverlap, chs)
  BY <1>1, <1>2, FlushedBody
<1>5. TypeInv'
  BY <1>2, <1>3, <1>4, Known DEF TypeInv
<1>6. HeadingsInv'
  BY <1>2, Known DEF HeadingsInv
<1>7. BodyInv' /\ SplitInv'
  BY <1>2, <1>3, Known DEF BodyInv, SplitInv
<1>8. EndBefore(chs, next' - Len(body'), StartAt')
  <2>1. EndBefore(chs, next + 1, 0)
    BY <1>4, Known, EndsEarlier
  <2>2. next' - Len(body') = next + 1 /\ StartAt' = 0
    BY <1>2, <1>3, Known DEF StartAt
  <2> QED
    BY <2>1, <2>2
<1>9. ASSUME NEW b \in 1..Len(doc), NEW s \in 1..Len(doc[b].sentences)
      PROVE  Covered(chs, b, s)
  <2>1. b < next
    BY <1>2, Known
  <2> QED
    BY <1>1, <1>2, <2>1, FlushedBody
<1> QED
  BY <1>2, <1>4, <1>5, <1>6, <1>7, <1>8, <1>9, Onward DEF Repeats

-----------------------------------------------------------------------------
(* The invariant holds.                                                    *)

(* Before the first block there is nothing to be wrong.                    *)
LEMMA Start ==
  ASSUME NEW parsed \in Seq(Block), ChunkFrom(parsed)
  PROVE  IInv
<1>1. /\ doc \in Seq(Block) /\ next = 1 /\ headings = <<>> /\ body = <<>> /\ overlap = 0
      /\ chunks = <<>> /\ split = NoSplit
  BY DEF ChunkFrom
<1>2. split.at = 0 /\ split.start = 0
  BY <1>1 DEF NoSplit
<1>3. /\ Len(doc) \in Nat /\ Len(headings) = 0 /\ Len(body) = 0 /\ Len(chunks) = 0
      /\ headings \in Seq(Nat) /\ body \in Seq(Piece) /\ chunks \in Seq(Chunk)
  BY <1>1
<1>4. TypeInv
  BY <1>1, <1>2, <1>3 DEF TypeInv
<1>5. HeadingsInv
  <2>1. ToSet(headings) = {} /\ Enclosing(1) = {}
    BY <1>1 DEF ToSet, Enclosing
  <2>2. Increasing(headings)
    BY <1>3 DEF Increasing
  <2> QED
    BY <1>1, <2>1, <2>2 DEF HeadingsInv
<1>6. BodyInv /\ SplitInv /\ Repeats(overlap, chunks)
  BY <1>1, <1>3 DEF BodyInv, SplitInv, Repeats
<1>7. Laid(chunks) /\ FrontInv
  BY <1>3 DEF Laid, FrontInv, EndBefore
<1>8. CoverInv
  BY <1>1 DEF CoverInv, Passed
<1> QED
  BY <1>4, <1>5, <1>6, <1>7, <1>8 DEF IInv

(* Every turn keeps the invariant, and so does none.                       *)
LEMMA ChunkTurn ==
  ASSUME IInv, [ChunkNext]_chunkVars
  PROVE  IInv'
<1>1. CASE UNCHANGED chunkVars
  <2>1. UNCHANGED <<doc, next, headings, body, overlap, chunks, split>>
    BY <1>1 DEF chunkVars
  <2>2. TypeInv' /\ HeadingsInv' /\ BodyInv' /\ SplitInv'
    BY <2>1, Known DEF TypeInv, HeadingsInv, BodyInv, SplitInv, Enclosing, IsBody, Whole
  <2>3. /\ Laid(chunks) /\ EndBefore(chunks, next' - Len(body'), StartAt')
        /\ overlap' # 0 => overlap' = Len(chunks) /\ chunks[overlap'].section = headings'
    BY <2>1, Known DEF FrontInv, StartAt, Repeats
  <2>4. ASSUME NEW b \in 1..Len(doc), NEW s \in 1..Len(doc[b].sentences), Passed(b, s)'
        PROVE  Waits(b, s)' \/ Covered(chunks, b, s)
    BY <2>1, <2>4, Known DEF CoverInv, Passed, Waits
  <2> QED
    BY <2>1, <2>2, <2>3, <2>4, Onward
<1> QED
  BY <1>1, HeadingTurn, ParagraphTurn, SplitTurn, SentenceTurn, PartsTurn, LastTurn DEF ChunkNext

(* So it holds throughout.                                                 *)
LEMMA Inductive == ChunkSpec => []IInv
<1>1. (\E parsed \in Seq(Block) : ChunkFrom(parsed)) => IInv
  BY Start
<1>2. IInv /\ [ChunkNext]_chunkVars => IInv'
  BY ChunkTurn
<1> QED
  BY <1>1, <1>2, PTL DEF ChunkSpec

-----------------------------------------------------------------------------
(* What the text of a chunk spans is what it has.                          *)
LEMMA ExactText ==
  ASSUME NEW text \in Seq(Piece), Contiguous(text), doc \in Seq(Block),
         NEW b \in 1..Len(doc), NEW s \in 1..Len(doc[b].sentences)
  PROVE  /\ Has(text, b, s) <=> /\ ~Before(b, s, text[1].block, text[1].from)
                                /\ ~Before(LastOf(text).block, LastOf(text).to, b, s)
         /\ text[1].block < b /\ b < LastOf(text).block => IsBody(b)
<1>1. PICK n, first, from, last, to :
        /\ n \in Nat /\ n = Len(text) /\ first = text[1].block /\ from = text[1].from
        /\ last = LastOf(text).block /\ to = LastOf(text).to
  OBVIOUS
<1>2. n # 0 /\ n \in 1..n /\ 1 \in 1..n
  BY <1>1 DEF Contiguous
<1>3. \A p \in 1..n : text[p].block \in Nat /\ text[p].from \in Nat /\ text[p].to \in Nat
  <2>1. \A p \in 1..n : text[p] \in Piece
    BY <1>1
  <2> QED
    BY <2>1 DEF Piece
<1>4. /\ first \in Nat /\ from \in Nat /\ last \in Nat /\ to \in Nat
      /\ n \in Nat /\ b \in Nat /\ s \in Nat /\ s >= 1
      /\ Len(doc[b].sentences) \in Nat /\ s <= Len(doc[b].sentences)
  <2>1. /\ first \in Nat /\ from \in Nat /\ last \in Nat /\ to \in Nat
    BY <1>1, <1>2, <1>3 DEF LastOf
  <2>2. Len(doc[b].sentences) \in Nat
    BY Blocks
  <2> QED
    BY <1>1, <2>1, <2>2
<1>5. ASSUME NEW p \in 1..n
      PROVE  /\ text[p].block = first + p - 1 /\ IsBody(text[p].block)
             /\ text[p].from = IF p = 1 THEN from ELSE 1
             /\ text[p].to = IF p = n THEN to ELSE Len(doc[text[p].block].sentences)
  BY <1>1 DEF Contiguous, LastOf
<1>6. last = first + n - 1
  BY <1>1, <1>2, <1>5 DEF LastOf
<1>7. ASSUME first <= b, b <= last PROVE \E p \in 1..n : p = b - first + 1 /\ text[p].block = b
  <2>1. b - first + 1 \in 1..n
    BY <1>2, <1>4, <1>6, <1>7
  <2>2. first + (b - first + 1) - 1 = b
    BY <1>4
  <2> QED
    BY <1>5, <2>1, <2>2
<1>8. ASSUME Has(text, b, s) PROVE ~Before(b, s, first, from) /\ ~Before(last, to, b, s)
  <2>1. PICK p \in 1..n : text[p].block = b /\ s \in text[p].from..text[p].to
    BY <1>1, <1>8 DEF Has
  <2>2. b = first + p - 1 /\ p \in Nat /\ p >= 1 /\ p <= n
    BY <1>5, <2>1
  <2>3. text[p].from <= s /\ s <= text[p].to
    BY <1>3, <1>4, <2>1
  <2>4. ~(b < first) /\ (b = first => from <= s)
    BY <1>4, <1>5, <2>2, <2>3
  <2>5. ~(last < b) /\ (last = b => p = n)
    BY <1>4, <1>6, <2>2
  <2>6. p = n => text[p].to = to
    BY <1>5
  <2> QED
    BY <1>4, <2>3, <2>4, <2>5, <2>6 DEF Before
<1>9. ASSUME ~Before(b, s, first, from), ~Before(last, to, b, s) PROVE Has(text, b, s)
  <2>1. /\ ~(b < first) /\ ~(b = first /\ s < from)
        /\ ~(last < b) /\ ~(last = b /\ to < s)
    BY <1>9 DEF Before
  <2>2. first <= b /\ b <= last
    BY <1>4, <2>1
  <2>3. PICK p \in 1..n : p = b - first + 1 /\ text[p].block = b
    BY <1>7, <2>2
  <2>4. text[p].from <= s
    BY <1>4, <1>5, <2>1, <2>3
  <2>5. s <= text[p].to
    BY <1>4, <1>5, <1>6, <2>1, <2>3
  <2>6. s \in text[p].from..text[p].to
    BY <1>3, <1>4, <2>4, <2>5
  <2> QED
    BY <1>1, <2>3, <2>6 DEF Has
<1>10. ASSUME first < b, b < last PROVE IsBody(b)
  <2>1. first <= b /\ b <= last
    BY <1>4, <1>10
  <2> QED
    BY <1>5, <1>7, <2>1
<1> QED
  BY <1>1, <1>8, <1>9, <1>10

(* Which sentences there are.                                              *)
LEMMA SentencesAre ==
  \A x \in Sentences : x[1] \in 1..Len(doc) /\ x[2] \in 1..Len(doc[x[1]].sentences)
BY DEF Sentences

(* The text of a chunk is contiguous.                                      *)
LEMMA ChunkText ==
  ASSUME IInv, NEW c \in 1..Len(chunks)
  PROVE  chunks[c].text \in Seq(Piece) /\ Contiguous(chunks[c].text)
<1>1. chunks[c] \in Chunk
  BY Known
<1> QED
  BY <1>1, Known DEF Chunk, Laid, Sound

(* The invariant is enough for the anchors to be exact: what lies between  *)
(* the first piece of a contiguous text and the end of its last is in it.  *)
LEMMA Exact ==
  ASSUME IInv
  PROVE  AnchorsAreExact
<1>1. \A c : \A b, s : Covers(c, b, s) <=> Has(chunks[c].text, b, s)
  BY DEF Covers, Has
<1>2. \A c : \A b, s : Spans(c, b, s) <=>
        /\ ~Before(b, s, chunks[c].text[1].block, chunks[c].text[1].from)
        /\ ~Before(LastOf(chunks[c].text).block, LastOf(chunks[c].text).to, b, s)
  BY DEF Spans, LastOf
<1>3. ASSUME NEW c \in 1..Len(chunks), NEW x \in Sentences
      PROVE  Covers(c, x[1], x[2]) <=> Spans(c, x[1], x[2])
  BY <1>1, <1>2, SentencesAre, ChunkText, ExactText, Known
<1>4. ASSUME NEW c \in 1..Len(chunks), NEW b \in 1..Len(doc), ~IsBody(b)
      PROVE  ~(/\ chunks[c].text[1].block < b
               /\ b < chunks[c].text[Len(chunks[c].text)].block)
  <2>1. PICK text \in Seq(Piece) : text = chunks[c].text /\ Contiguous(text)
    BY ChunkText
  <2>2. PICK n \in Nat : n = Len(text) /\ n # 0
    BY <2>1 DEF Contiguous
  <2>3. \A p \in 1..n : text[p].block = text[1].block + p - 1 /\ IsBody(text[p].block)
    BY <2>1, <2>2 DEF Contiguous
  <2>4. text[1].block \in Nat /\ text[n].block = text[1].block + n - 1
    <3>1. text[1] \in Piece
      BY <2>1, <2>2
    <3> QED
      BY <2>2, <2>3, <3>1 DEF Piece
  <2>5. ASSUME text[1].block < b, b < text[n].block PROVE FALSE
    <3>1. b - text[1].block + 1 \in 1..n /\ text[1].block + (b - text[1].block + 1) - 1 = b
      BY <2>2, <2>4, <2>5
    <3> QED
      BY <1>4, <2>3, <3>1
  <2> QED
    BY <2>1, <2>2, <2>5
<1>5. ASSUME NEW c \in 1..Len(chunks), NEW d \in 1..Len(chunks), c < d,
             NEW x \in Sentences, NEW y \in Sentences,
             Covers(c, x[1], x[2]), Covers(d, y[1], y[2])
      PROVE  Before(x[1], x[2], y[1], y[2])
  <2>1. PICK lb, lt, fb, ft :
          /\ lb = LastOf(chunks[c].text).block /\ lt = LastOf(chunks[c].text).to
          /\ fb = chunks[d].text[1].block /\ ft = chunks[d].text[1].from
    OBVIOUS
  <2>2. ~Before(lb, lt, x[1], x[2]) /\ ~Before(y[1], y[2], fb, ft)
    BY <1>2, <1>3, <1>5, <2>1
  <2>3. Before(lb, lt, fb, ft)
    BY <1>5, <2>1, Known DEF Laid
  <2>4. lb \in Nat /\ lt \in Nat /\ fb \in Nat /\ ft \in Nat
    <3>1. PICK text \in Seq(Piece) : text = chunks[d].text /\ text # <<>>
      BY ChunkText DEF Contiguous
    <3>2. text[1] \in Piece
      BY <3>1
    <3>3. fb \in Nat /\ ft \in Nat
      BY <2>1, <3>1, <3>2 DEF Piece
    <3> QED
      BY <2>1, <3>3, LastPiece, Known
  <2>5. x[1] \in Nat /\ x[2] \in Nat /\ y[1] \in Nat /\ y[2] \in Nat
    <3>1. ASSUME NEW z \in Sentences PROVE z[1] \in Nat /\ z[2] \in Nat
      <4>1. z[1] \in 1..Len(doc) /\ z[2] \in 1..Len(doc[z[1]].sentences)
        BY SentencesAre
      <4>2. Len(doc) \in Nat /\ Len(doc[z[1]].sentences) \in Nat
        BY <4>1, Known, Blocks
      <4> QED
        BY ONLY <4>1, <4>2
    <3> QED
      BY <3>1
  <2> QED
    BY <2>2, <2>3, <2>4, <2>5 DEF Before
<1>6. ASSUME Chunked, NEW x \in Sentences PROVE \E c \in 1..Len(chunks) : Covers(c, x[1], x[2])
  <2>1. x[1] \in 1..Len(doc) /\ x[2] \in 1..Len(doc[x[1]].sentences)
    BY SentencesAre
  <2>2. body = <<>> /\ Len(body) = 0 /\ x[1] < next
    BY <1>6, <2>1, Known DEF Chunked, BodyInv
  <2>3. Passed(x[1], x[2]) /\ ~Waits(x[1], x[2])
    BY <2>1, <2>2, Known DEF Passed, Waits
  <2>4. Covered(chunks, x[1], x[2])
    BY <2>1, <2>3, Known DEF CoverInv
  <2> QED
    BY <1>1, <2>4 DEF Covered
<1> QED
  BY <1>3, <1>4, <1>5, <1>6 DEF AnchorsAreExact

(* Whatever is parsed and whatever the limit, a chunk's anchors slice its  *)
(* own text from the document, and the chunks cut it up without a gap or   *)
(* an overlap.                                                             *)
THEOREM ExactAnchors == ChunkSpec => []AnchorsAreExact
BY Exact, Inductive, PTL

(* And for no section to bleed into another.                               *)
LEMMA NoneBleeds ==
  ASSUME IInv
  PROVE  SectionsDoNotBleed
BY Known DEF SectionsDoNotBleed, Laid, Sound, Increasing

(* A chunk names exactly the headings its text is under, and repeats the   *)
(* tail of nothing but the chunk before it in its own section.             *)
THEOREM NoBleeding == ChunkSpec => []SectionsDoNotBleed
BY NoneBleeds, Inductive, PTL

-----------------------------------------------------------------------------
(* A text below the limit, or of one sentence.                             *)
Fits(text) ==
  \/ TextTokens(text) <= MaxTokens
  \/ Len(text) = 1 /\ text[1].from = text[1].to

(* The part s of a block's sentences that is open.                         *)
PartFits(s, sentences) ==
  /\ s.at <= Len(sentences) + 1
  /\ s.start = 0 => s.tokens = 0
  /\ s.start # 0 => s.tokens = SumFunctionOnSet(sentences, s.start..(s.at - 1))
  /\ s.start # 0 => s.tokens <= MaxTokens \/ s.start = s.at - 1

(* The part is cut from a block that is over the limit.                    *)
SplitFits ==
  split # NoSplit => doc[next].tokens > MaxTokens /\ PartFits(split, doc[next].sentences)

(* What the counters of both loops stand for, and that both stop in time.  *)
FitInv ==
  /\ bodyTokens = TextTokens(body) /\ bodyTokens <= MaxTokens
  /\ \A p \in 1..Len(body) : doc[body[p].block].tokens <= MaxTokens
  /\ SplitFits /\ ChunksFit

(* ChunksFit says it of every chunk.                                       *)
LEMMA FitsAre == ChunksFit <=> \A c \in 1..Len(chunks) : Fits(chunks[c].text)
BY DEF ChunksFit, Fits

(* The token counts of a block are numbers.                                *)
LEMMA BlockTokens ==
  ASSUME NEW d \in Seq(Block), NEW b \in 1..Len(d)
  PROVE  d[b].tokens \in Nat /\ d[b].sentences \in Seq(Nat)
<1>1. d[b] \in Block
  OBVIOUS
<1> QED
  BY <1>1 DEF Block

(* The tokens of a text do not change while its document does not.         *)
LEMMA TokensStay ==
  ASSUME UNCHANGED doc, NEW text
  PROVE  TextTokens(text)' = TextTokens(text)
BY DEF TextTokens, TokensOf, Whole

(* They are a number.                                                      *)
LEMMA TextType ==
  ASSUME NEW text \in Seq(Piece), \A p \in 1..Len(text) : TokensOf(text[p]) \in Nat
  PROVE  TextTokens(text) \in Nat
<1> DEFINE f == [p \in 1..Len(text) |-> TokensOf(text[p])]
<1>1. \A p \in 1..Len(text) : f[p] \in Nat
  OBVIOUS
<1>2. TextTokens(text) = SumFunctionOnSet(f, 1..Len(text))
  BY DEF TextTokens
<1> HIDE DEF f
<1>3. IsFiniteSet(1..Len(text))
  <2>1. 1 \in Int /\ Len(text) \in Int
    OBVIOUS
  <2> QED
    BY <2>1, FS_Interval
<1> QED
  BY <1>1, <1>2, <1>3, SumType

(* They add up.                                                            *)
LEMMA TextMore ==
  ASSUME NEW text \in Seq(Piece), NEW piece \in Piece, TokensOf(piece) \in Nat,
         \A p \in 1..Len(text) : TokensOf(text[p]) \in Nat
  PROVE  /\ TextTokens(text) \in Nat
         /\ TextTokens(Append(text, piece)) = TextTokens(text) + TokensOf(piece)
<1> DEFINE more == Append(text, piece)
           f == [p \in 1..Len(text) |-> TokensOf(text[p])]
           g == [p \in 1..Len(more) |-> TokensOf(more[p])]
<1>1. PICK n \in Nat : n = Len(text) /\ Len(more) = n + 1 /\ more[n + 1] = piece
  OBVIOUS
<1>2. \A p \in 1..n : more[p] = text[p]
  BY <1>1
<1> HIDE DEF more
<1>3. \A p \in 1..n : f[p] = TokensOf(text[p]) /\ f[p] \in Nat /\ g[p] = f[p]
  BY <1>1, <1>2
<1>5. g[n + 1] = TokensOf(piece)
  BY <1>1
<1>4. \A p \in 1..(n + 1) : g[p] \in Nat
  <2>1. \A p \in 1..(n + 1) : p \in 1..n \/ p = n + 1
    OBVIOUS
  <2> HIDE DEF f, g
  <2> QED
    BY <1>3, <1>5, <2>1
<1>6. TextTokens(text) = SumFunctionOnSet(f, 1..n) /\ TextTokens(more) = SumFunctionOnSet(g, 1..(n + 1))
  BY <1>1 DEF TextTokens
<1> HIDE DEF f, g
<1>7. IsFiniteSet(1..n)
  BY FS_Interval
<1>8. SumFunctionOnSet(g, 1..(n + 1)) = SumFunctionOnSet(g, 1..n) + g[n + 1]
  <2>1. 1 \in Nat /\ 1 <= n + 1
    OBVIOUS
  <2> QED
    BY <1>4, <2>1, SumNext
<1>9. SumFunctionOnSet(f, 1..n) = SumFunctionOnSet(g, 1..n) /\ SumFunctionOnSet(f, 1..n) \in Nat
  BY <1>3, <1>7, SumSame, SumType
<1> QED
  BY <1>5, <1>6, <1>8, <1>9 DEF more

(* Without pieces there are none.                                          *)
LEMMA NoTokens == TextTokens(<<>>) = 0
<1> DEFINE f == [p \in 1..Len(<<>>) |-> TokensOf(<<>>[p])]
<1>1. TextTokens(<<>>) = SumFunctionOnSet(f, 1..0) /\ 1..0 = {}
  BY DEF TextTokens
<1> HIDE DEF f
<1>2. IsFiniteSet({})
  BY FS_EmptySet
<1> QED
  BY <1>1, <1>2, SumOf

(* Those of one piece.                                                     *)
LEMMA OnePiece ==
  ASSUME NEW piece \in Piece, TokensOf(piece) \in Nat
  PROVE  TextTokens(<<piece>>) = TokensOf(piece)
<1>1. <<>> \in Seq(Piece) /\ Len(<<>>) = 0 /\ Append(<<>>, piece) = <<piece>>
  OBVIOUS
<1>2. PICK text \in Seq(Piece) : text = <<>> /\ \A p \in 1..Len(text) : TokensOf(text[p]) \in Nat
  <2>1. 1..0 = {}
    OBVIOUS
  <2>2. PICK text \in Seq(Piece) : text = <<>> /\ Len(text) = 0
    BY <1>1
  <2>3. \A p \in 1..Len(text) : TokensOf(text[p]) \in Nat
    BY ONLY <2>1, <2>2
  <2> QED
    BY <2>2, <2>3
<1>3. TextTokens(Append(text, piece)) = TextTokens(text) + TokensOf(piece)
  BY <1>2, TextMore
<1> QED
  BY <1>1, <1>2, <1>3, NoTokens

(* Flushing a text that fits leaves chunks that fit.                       *)
LEMMA FlushFits ==
  ASSUME IInv, ChunksFit, NEW text, text = <<>> \/ Fits(text), NEW tail,
         Flushed(text, tail) \in Seq(Chunk)
  PROVE  \A c \in 1..Len(Flushed(text, tail)) : Fits(Flushed(text, tail)[c].text)
<1>1. CASE text = <<>>
  BY <1>1, FitsAre DEF Flushed
<1>2. CASE text # <<>>
  <2>1. PICK ch : ch = [text |-> text, section |-> headings, overlap |-> tail]
    OBVIOUS
  <2>2. Flushed(text, tail) = Append(chunks, ch) /\ ch.text = text
    BY <1>2, <2>1 DEF Flushed
  <2>3. chunks \in Seq(Chunk) /\ Len(chunks) \in Nat
    BY Known
  <2>4. /\ Len(Append(chunks, ch)) = Len(chunks) + 1 /\ Append(chunks, ch)[Len(chunks) + 1] = ch
        /\ \A c \in 1..Len(chunks) : Append(chunks, ch)[c] = chunks[c]
    BY <2>3
  <2>5. \A c \in 1..(Len(chunks) + 1) : c \in 1..Len(chunks) \/ c = Len(chunks) + 1
    BY <2>3
  <2> QED
    BY <1>2, <2>2, <2>4, <2>5, FitsAre
<1> QED
  BY <1>1, <1>2

(* What the counter of the block loop is known to be.                      *)
LEMMA KnownFit ==
  ASSUME IInv, FitInv
  PROVE  /\ bodyTokens = TextTokens(body) /\ bodyTokens \in Nat /\ bodyTokens <= MaxTokens
         /\ MaxTokens \in Nat
         /\ body # <<>> => Fits(body)
         /\ SplitFits /\ ChunksFit
         /\ \A p \in 1..Len(body) : TokensOf(body[p]) \in Nat
<1>1. \A p \in 1..Len(body) : TokensOf(body[p]) \in Nat
  <2> SUFFICES ASSUME NEW p \in 1..Len(body) PROVE TokensOf(body[p]) \in Nat
    OBVIOUS
  <2>1. PICK b : b = next - Len(body) + p - 1
    OBVIOUS
  <2>2. body[p] = Whole(b) /\ body[p].block = b
    <3>1. body[p] = Whole(b)
      BY <2>1, Known DEF BodyInv
    <3>2. Whole(b).block = b
      BY DEF Whole
    <3> QED
      BY <3>1, <3>2
  <2>3. b \in 1..Len(doc)
    <3>1. BodyInv /\ next \in Nat /\ Len(body) \in Nat /\ Len(doc) \in Nat
      BY Known
    <3> QED
      BY ONLY <2>1, <3>1 DEF BodyInv
  <2>4. doc[b].tokens \in Nat /\ doc[b].tokens <= MaxTokens
    <3>1. doc[b].tokens \in Nat
      BY <2>3, Known, BlockTokens
    <3> QED
      BY <2>2, <3>1 DEF FitInv
  <2> QED
    BY <2>2, <2>4 DEF TokensOf
<1>2. MaxTokens \in Nat
  BY ChunkingAssumption
<1>3. bodyTokens \in Nat
  BY <1>1, TextType, Known DEF FitInv
<1> QED
  BY <1>1, <1>2, <1>3 DEF FitInv, Fits

(* And that of the sentence loop: the part that is open fits.              *)
LEMMA SplitPart ==
  ASSUME IInv, FitInv, split # NoSplit
  PROVE  /\ Fits(Part(split.at))
         /\ split.at \in Nat /\ split.start \in Nat /\ split.tokens \in Nat /\ next \in 1..Len(doc)
         /\ split.at \in 1..(Len(doc[next].sentences) + 1) /\ split.start < split.at
         /\ doc[next].sentences \in Seq(Nat) /\ doc[next].tokens \in Nat
<1>1. /\ split.at \in Nat /\ split.start \in Nat /\ next \in 1..Len(doc) /\ split.at # 0
      /\ split.start < split.at /\ (split.start = 0 => split.at = 1)
  BY Known DEF SplitInv, TypeInv
<1>2. doc[next].sentences \in Seq(Nat) /\ doc[next].tokens \in Nat
  BY <1>1, Known, BlockTokens
<1>3. PICK sentences \in Seq(Nat), n \in Nat : sentences = doc[next].sentences /\ n = Len(sentences)
  BY <1>2
<1>4. /\ doc[next].tokens > MaxTokens /\ split.at <= n + 1
      /\ split.start = 0 => split.tokens = 0
      /\ split.start # 0 =>
            /\ split.tokens = SumFunctionOnSet(sentences, split.start..(split.at - 1))
            /\ split.tokens <= MaxTokens \/ split.start = split.at - 1
  BY <1>3 DEF FitInv, SplitFits, PartFits
<1>5. PICK piece : piece = [block |-> next, from |-> split.start, to |-> split.at - 1]
  OBVIOUS
<1>6. piece.block = next /\ piece.from = split.start /\ piece.to = split.at - 1 /\ Part(split.at) = <<piece>>
  BY <1>5 DEF Part
<1>7. piece \in Piece
  BY <1>1, <1>5, Known DEF Piece
<1>8. CASE split.start = 0
  <2>1. piece.from = piece.to /\ split.tokens = 0
    BY <1>1, <1>4, <1>6, <1>8
  <2>2. Fits(<<piece>>)
    BY <2>1 DEF Fits
  <2> QED
    BY <1>1, <1>2, <1>3, <1>4, <1>6, <2>1, <2>2
<1>9. CASE split.start # 0
  <2>1. TokensOf(piece) = SumFunctionOnSet(sentences, split.start..(split.at - 1))
    <3>1. ~(doc[next].tokens <= MaxTokens)
      BY <1>2, <1>4, ChunkingAssumption
    <3> QED
      BY <1>3, <1>6, <3>1 DEF TokensOf
  <2>2. SumFunctionOnSet(sentences, split.start..(split.at - 1)) \in Nat
    <3>1. IsFiniteSet(split.start..(split.at - 1))
      <4>1. split.start \in Int /\ split.at - 1 \in Int
        BY <1>1
      <4> QED
        BY ONLY <4>1, FS_Interval
    <3>2. ASSUME NEW i \in split.start..(split.at - 1) PROVE sentences[i] \in Nat
      <4>1. i \in 1..n
        BY <1>1, <1>3, <1>4, <1>9
      <4> QED
        BY ONLY <1>3, <4>1
    <3> QED
      BY <3>1, <3>2, SumType
  <2>3. TextTokens(<<piece>>) = split.tokens
    BY <1>4, <1>7, <1>9, <2>1, <2>2, OnePiece
  <2>4. Fits(<<piece>>)
    BY <1>4, <1>6, <1>9, <2>3 DEF Fits
  <2> QED
    BY <1>1, <1>2, <1>3, <1>4, <1>6, <1>9, <2>2, <2>4
<1> QED
  BY <1>8, <1>9

(* So what either loop flushes leaves chunks that fit.                     *)
LEMMA FlushBodyFits ==
  ASSUME IInv, FitInv, split = NoSplit
  PROVE  \A c \in 1..Len(Flushed(body, overlap)) : Fits(Flushed(body, overlap)[c].text)
<1>1. Flushed(body, overlap) \in Seq(Chunk)
  BY FlushedBody
<1>2. body = <<>> \/ Fits(body)
  BY KnownFit
<1> QED
  BY <1>1, <1>2, FlushFits, KnownFit

(* The body's tokens, and then the limit, as blocks are taken in.          *)
LEMMA FitOnward ==
  ASSUME UNCHANGED doc, bodyTokens' = TextTokens(body)', bodyTokens' <= MaxTokens,
         \A p \in 1..Len(body') : doc[body'[p].block].tokens <= MaxTokens,
         SplitFits', NEW chs, chs = chunks', \A c \in 1..Len(chs) : Fits(chs[c].text)
  PROVE  FitInv'
<1>1. ASSUME NEW c \in 1..Len(chs) PROVE Fits(chs[c].text)'
  <2>1. PICK text : text = chs[c].text
    OBVIOUS
  <2>2. TextTokens(text)' = TextTokens(text)
    BY TokensStay
  <2>3. Fits(text)
    BY <2>1
  <2>4. Fits(text)'
    BY <2>2, <2>3 DEF Fits
  <2> QED
    BY <2>1, <2>4 DEF Fits
<1>2. ChunksFit'
  BY <1>1 DEF ChunksFit, Fits
<1> QED
  BY <1>2 DEF FitInv

(* After a flush nothing is accumulated.                                   *)
LEMMA NoBody ==
  ASSUME UNCHANGED doc, body' = <<>>, bodyTokens' = 0
  PROVE  /\ bodyTokens' = TextTokens(body)' /\ bodyTokens' <= MaxTokens
         /\ \A p \in 1..Len(body') : doc[body'[p].block].tokens <= MaxTokens
<1>1. TextTokens(<<>>)' = 0
  BY TokensStay, NoTokens
<1>2. TextTokens(body)' = TextTokens(<<>>)'
  BY DEF TextTokens
<1>3. 1..Len(body') = {}
  OBVIOUS
<1> QED
  BY <1>1, <1>2, <1>3, ChunkingAssumption

(* A heading flushes what fits.                                            *)
LEMMA HeadingFits ==
  ASSUME IInv, FitInv, TakeHeading
  PROVE  FitInv'
<1>1. /\ split = NoSplit /\ split' = split /\ UNCHANGED doc /\ chunks' = Flushed(body, overlap)
      /\ body' = <<>> /\ bodyTokens' = 0
  BY DEF TakeHeading, Reading
<1>2. SplitFits'
  BY <1>1 DEF SplitFits, NoSplit
<1>3. \A c \in 1..Len(chunks') : Fits(chunks'[c].text)
  BY <1>1, FlushBodyFits
<1> QED
  BY <1>1, <1>2, <1>3, NoBody, FitOnward

(* So does a paragraph that is too long.                                   *)
LEMMA SplitStartFits ==
  ASSUME IInv, FitInv, StartSplit
  PROVE  FitInv'
<1>1. /\ split = NoSplit /\ UNCHANGED <<doc, next>> /\ chunks' = Flushed(body, overlap)
      /\ body' = <<>> /\ bodyTokens' = 0 /\ next \in 1..Len(doc) /\ doc[next].tokens > MaxTokens
      /\ split' = [at |-> 1, start |-> 0, tokens |-> 0]
  BY Known DEF StartSplit, Reading
<1>2. SplitFits'
  <2>1. Len(doc[next].sentences) \in Nat
    BY <1>1, Known, Blocks
  <2> QED
    BY <1>1, <2>1 DEF SplitFits, PartFits
<1>3. \A c \in 1..Len(chunks') : Fits(chunks'[c].text)
  BY <1>1, FlushBodyFits
<1> QED
  BY <1>1, <1>2, <1>3, NoBody, FitOnward

(* And the end of the document.                                            *)
LEMMA LastFits ==
  ASSUME IInv, FitInv, Finish
  PROVE  FitInv'
<1>1. /\ split = NoSplit /\ split' = split /\ UNCHANGED doc /\ chunks' = Flushed(body, overlap)
      /\ body' = <<>> /\ bodyTokens' = 0
  BY DEF Finish
<1>2. SplitFits'
  BY <1>1 DEF SplitFits, NoSplit
<1>3. \A c \in 1..Len(chunks') : Fits(chunks'[c].text)
  BY <1>1, FlushBodyFits
<1> QED
  BY <1>1, <1>2, <1>3, NoBody, FitOnward

(* The last part of a paragraph fits.                                      *)
LEMMA PartsFit ==
  ASSUME IInv, FitInv, EndSplit
  PROVE  FitInv'
<1>1. /\ split # NoSplit /\ split' = NoSplit /\ UNCHANGED <<doc, body, bodyTokens>>
      /\ chunks' = Flushed(Part(split.at), overlap)
  BY DEF EndSplit
<1>2. SplitFits'
  BY <1>1 DEF SplitFits, NoSplit
<1>3. \A c \in 1..Len(chunks') : Fits(chunks'[c].text)
  BY <1>1, FlushedPart, FlushFits, KnownFit, SplitPart
<1>4. body = <<>>
  BY <1>1, Known DEF SplitInv
<1>5. bodyTokens = 0
  BY <1>4, KnownFit, NoTokens
<1> QED
  BY <1>1, <1>2, <1>3, <1>4, <1>5, NoBody, FitOnward

(* A paragraph is added only while the sum stays below the limit.          *)
LEMMA ParagraphFits ==
  ASSUME IInv, FitInv, TakeParagraph
  PROVE  FitInv'
<1>1. /\ split = NoSplit /\ split' = split /\ UNCHANGED doc /\ next \in 1..Len(doc)
      /\ IsBody(next) /\ doc[next].tokens <= MaxTokens
  BY Known DEF TakeParagraph, Reading
<1>2. SplitFits'
  BY <1>1 DEF SplitFits, NoSplit
<1>8. PICK piece : piece = Whole(next)
  OBVIOUS
<1>3. PICK t \in Nat : piece = Whole(next) /\ t = doc[next].tokens /\ t <= MaxTokens
  BY <1>1, <1>8, Known, BlockTokens
<1>4. piece \in Piece /\ piece.block = next
  <2>1. Len(doc[next].sentences) \in Nat
    BY <1>1, Known, Blocks
  <2> QED
    BY <1>3, <2>1, Known DEF Whole, Piece
<1>5. TokensOf(piece) = t
  BY <1>3, <1>4 DEF TokensOf
<1>6. CASE bodyTokens + doc[next].tokens > MaxTokens
  <2>1. body' = <<piece>> /\ bodyTokens' = t /\ chunks' = Flushed(body, overlap)
    BY <1>3, <1>6 DEF TakeParagraph
  <2>2. bodyTokens' = TextTokens(body)'
    <3>1. TextTokens(<<piece>>) = t
      BY <1>4, <1>5, OnePiece
    <3>2. TextTokens(<<piece>>)' = t
      BY <1>1, <3>1, TokensStay
    <3>3. TextTokens(body)' = TextTokens(<<piece>>)'
      BY <2>1 DEF TextTokens
    <3> QED
      BY <2>1, <3>2, <3>3
  <2>3. \A p \in 1..Len(body') : doc[body'[p].block].tokens <= MaxTokens
    BY <1>3, <1>4, <2>1
  <2>4. \A c \in 1..Len(chunks') : Fits(chunks'[c].text)
    BY <1>1, <2>1, FlushBodyFits
  <2> QED
    BY <1>1, <1>2, <1>3, <2>1, <2>2, <2>3, <2>4, FitOnward
<1>7. CASE ~(bodyTokens + doc[next].tokens > MaxTokens)
  <2>1. body' = Append(body, piece) /\ bodyTokens' = bodyTokens + t /\ chunks' = chunks
    BY <1>3, <1>7 DEF TakeParagraph
  <2>2. PICK more : more = Append(body, piece)
    OBVIOUS
  <2>3. bodyTokens' = TextTokens(body)'
    <3>1. TextTokens(more) = bodyTokens + t
      BY <1>4, <1>5, <2>2, TextMore, Known, KnownFit
    <3>2. TextTokens(more)' = bodyTokens + t
      BY <1>1, <3>1, TokensStay
    <3>3. TextTokens(body)' = TextTokens(more)'
      BY <2>1, <2>2 DEF TextTokens
    <3> QED
      BY <2>1, <3>2, <3>3
  <2>4. \A p \in 1..Len(body') : doc[body'[p].block].tokens <= MaxTokens
    <3>1. PICK n \in Nat : n = Len(body) /\ Len(more) = n + 1 /\ more[n + 1] = piece
                           /\ \A p \in 1..n : more[p] = body[p]
      <4>1. body \in Seq(Piece)
        BY Known
      <4> QED
        BY ONLY <2>2, <4>1, <1>4
    <3>2. \A p \in 1..(n + 1) : p \in 1..n \/ p = n + 1
      OBVIOUS
    <3>3. \A p \in 1..(n + 1) : doc[more[p].block].tokens <= MaxTokens
      BY <1>3, <1>4, <3>1, <3>2 DEF FitInv
    <3> QED
      BY <2>1, <2>2, <3>1, <3>3
  <2>5. \A c \in 1..Len(chunks') : Fits(chunks'[c].text)
    BY <2>1, KnownFit, FitsAre
  <2>6. bodyTokens' <= MaxTokens
    BY <1>3, <1>7, <2>1, KnownFit
  <2> QED
    BY <1>1, <1>2, <2>3, <2>4, <2>5, <2>6, FitOnward
<1> QED
  BY <1>6, <1>7

(* So is a sentence, unless it is alone.                                   *)
LEMMA SentenceFits ==
  ASSUME IInv, FitInv, TakeSentence
  PROVE  FitInv'
<1>1. /\ split # NoSplit /\ split.at <= Len(doc[next].sentences)
      /\ UNCHANGED <<doc, next, body, bodyTokens>>
  BY DEF TakeSentence
<1>2. PICK sentences \in Seq(Nat), n \in Nat, at \in Nat, start \in Nat, tokens \in Nat :
        /\ sentences = doc[next].sentences /\ n = Len(sentences)
        /\ at = split.at /\ start = split.start /\ tokens = split.tokens
  BY <1>1, SplitPart
<1>3. at \in 1..n /\ start < at
  BY <1>1, <1>2, SplitPart
<1>10. \A i \in 1..n : sentences[i] \in Nat
  BY <1>2
<1>4. PICK t \in Nat : t = sentences[at]
  BY <1>3, <1>10
<1>5. /\ doc[next].tokens > MaxTokens
      /\ start = 0 => tokens = 0
      /\ start = 0 => at = 1
      /\ start # 0 => tokens = SumFunctionOnSet(sentences, start..(at - 1))
      /\ start # 0 => tokens <= MaxTokens \/ start = at - 1
  BY <1>1, <1>2, Known DEF FitInv, SplitFits, PartFits, SplitInv
<1>6. body = <<>> /\ bodyTokens = 0
  <2>1. body = <<>>
    BY <1>1, Known DEF SplitInv
  <2> QED
    BY <2>1, KnownFit, NoTokens
<1>7. SumFunctionOnSet(sentences, at..at) = t
  BY <1>4, SumOne
<1>8. CASE start # 0 /\ tokens + t > MaxTokens
  <2>1. /\ chunks' = Flushed(Part(split.at), overlap)
        /\ split' = [at |-> at + 1, start |-> at, tokens |-> t]
    BY <1>2, <1>4, <1>8 DEF TakeSentence
  <2>2. \A c \in 1..Len(chunks') : Fits(chunks'[c].text)
    BY <1>1, <2>1, FlushedPart, FlushFits, KnownFit, SplitPart
  <2>3. SplitFits'
    <3>1. at + 1 - 1 = at /\ at + 1 <= n + 1 /\ at # 0
      BY <1>3
    <3>2. PICK s : s = split' /\ s.at = at + 1 /\ s.start = at /\ s.tokens = t
      BY <2>1
    <3>3. s.at <= Len(sentences) + 1 /\ s.start # 0 /\ s.at - 1 = at
      BY <1>2, <3>1, <3>2
    <3>4. PartFits(s, sentences)
      BY ONLY <1>7, <3>2, <3>3 DEF PartFits
    <3> QED
      BY <1>1, <1>2, <1>5, <3>2, <3>4 DEF SplitFits
  <2> QED
    BY <1>1, <1>6, <2>2, <2>3, NoBody, FitOnward
<1>9. CASE ~(start # 0 /\ tokens + t > MaxTokens)
  <2>1. PICK first \in Nat : first = (IF start = 0 THEN at ELSE start) /\ first # 0 /\ first <= at
    BY <1>3
  <2>2. /\ chunks' = chunks /\ split' = [at |-> at + 1, start |-> first, tokens |-> tokens + t]
    BY <1>2, <1>4, <1>9, <2>1 DEF TakeSentence
  <2>3. SumFunctionOnSet(sentences, first..at) = tokens + t
    <3>1. CASE start = 0
      BY <1>5, <1>7, <2>1, <3>1
    <3>2. CASE start # 0
      <4>1. PICK k \in Nat : k = at - 1 /\ k + 1 = at
        BY <1>3
      <4>2. \A i \in start..(k + 1) : sentences[i] \in Nat
        <5>1. \A i \in start..(k + 1) : i \in 1..n
          BY <1>3, <3>2, <4>1
        <5> QED
          BY <1>10, <5>1
      <4>3. start <= k + 1
        BY <1>3, <4>1
      <4>4. SumFunctionOnSet(sentences, start..(k + 1)) = SumFunctionOnSet(sentences, start..k) + sentences[k + 1]
        BY ONLY <4>2, <4>3, SumNext, start \in Nat, k \in Nat
      <4> QED
        BY <1>4, <1>5, <2>1, <3>2, <4>1, <4>4
    <3> QED
      BY <3>1, <3>2
  <2>4. tokens + t <= MaxTokens \/ first = at
    BY <1>5, <1>9, <2>1, ChunkingAssumption
  <2>5. SplitFits'
    <3>1. at + 1 - 1 = at /\ at + 1 <= n + 1
      BY <1>3
    <3>2. PICK s : s = split' /\ s.at = at + 1 /\ s.start = first /\ s.tokens = tokens + t
      BY <2>2
    <3>3. s.at <= Len(sentences) + 1 /\ s.start # 0 /\ s.at - 1 = at
      BY <1>2, <2>1, <3>1, <3>2
    <3>4. PartFits(s, sentences)
      BY ONLY <2>3, <2>4, <3>2, <3>3 DEF PartFits
    <3> QED
      BY <1>1, <1>2, <1>5, <3>2, <3>4 DEF SplitFits
  <2>6. \A c \in 1..Len(chunks') : Fits(chunks'[c].text)
    BY <2>2, KnownFit, FitsAre
  <2> QED
    BY <1>1, <1>6, <2>5, <2>6, NoBody, FitOnward
<1> QED
  BY <1>8, <1>9

(* At first nothing is accumulated.                                        *)
LEMMA StartFits ==
  ASSUME NEW parsed, ChunkFrom(parsed)
  PROVE  FitInv
<1>1. body = <<>> /\ bodyTokens = 0 /\ chunks = <<>> /\ split = NoSplit
  BY DEF ChunkFrom
<1>2. 1..Len(chunks) = {} /\ 1..Len(body) = {}
  BY <1>1
<1> QED
  BY <1>1, <1>2, NoTokens, ChunkingAssumption DEF FitInv, SplitFits, ChunksFit

(* What changes nothing breaks nothing.                                    *)
LEMMA FitStays ==
  ASSUME FitInv, UNCHANGED chunkVars
  PROVE  FitInv'
BY DEF FitInv, SplitFits, PartFits, ChunksFit, TextTokens, TokensOf, Whole, NoSplit, chunkVars

(* Every turn of the loops keeps to the limit.                             *)
LEMMA FitTurn ==
  ASSUME IInv, FitInv, [ChunkNext]_chunkVars
  PROVE  FitInv'
BY FitStays, HeadingFits, ParagraphFits, SplitStartFits, SentenceFits, PartsFit, LastFits DEF ChunkNext

(* So they do throughout.                                                  *)
LEMMA FitInductive == ChunkSpec => [](IInv /\ FitInv)
<1>1. (\E parsed \in Seq(Block) : ChunkFrom(parsed)) => FitInv
  BY StartFits
<1>2. IInv /\ FitInv /\ [ChunkNext]_chunkVars => FitInv'
  BY FitTurn
<1> QED
  BY <1>1, <1>2, Inductive, PTL DEF ChunkSpec

(* For every document and every limit, no chunk's body is over the limit   *)
(* but one that is a single sentence, which cannot be cut.                 *)
THEOREM FittingChunks == ChunkSpec => []ChunksFit
<1>1. FitInv => ChunksFit
  BY DEF FitInv
<1> QED
  BY <1>1, FitInductive, PTL
=============================================================================
