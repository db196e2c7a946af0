-------------------------- MODULE AnsweringProofs --------------------------
(***************************************************************************)
(* From a file to a cited answer, proved for every set of files, batch     *)
(* sizes, numbers of attempts, budgets and similarities: the parser's      *)
(* blocks, the chunks cut from them, their vectors, the threshold gate,    *)
(* the sources and the citations.                                          *)
(***************************************************************************)
EXTENDS Answering, ChunkingProofs

(* The smaller of two numbers.                                             *)
LEMMA MinOf ==
  ASSUME NEW a \in Int, NEW b \in Int
  PROVE  Min({a, b}) = IF a <= b THEN a ELSE b
<1>1. PICK m : m = (IF a <= b THEN a ELSE b)
  OBVIOUS
<1>2. m \in {a, b} /\ \A y \in {a, b} : m <= y
  BY <1>1
<1>3. \A x \in {a, b} : (\A y \in {a, b} : x <= y) => x = m
  BY <1>1
<1>4. Min({a, b}) \in {a, b} /\ \A y \in {a, b} : Min({a, b}) <= y
  BY <1>2 DEF Min
<1> QED
  BY <1>1, <1>3, <1>4

(* And the larger.                                                         *)
LEMMA MaxOf ==
  ASSUME NEW a \in Int, NEW b \in Int
  PROVE  Max({a, b}) = IF a >= b THEN a ELSE b
<1>1. PICK m : m = (IF a >= b THEN a ELSE b)
  OBVIOUS
<1>2. m \in {a, b} /\ \A y \in {a, b} : m >= y
  BY <1>1
<1>3. \A x \in {a, b} : (\A y \in {a, b} : x >= y) => x = m
  BY <1>1
<1>4. Max({a, b}) \in {a, b} /\ \A y \in {a, b} : Max({a, b}) >= y
  BY <1>2 DEF Max
<1> QED
  BY <1>1, <1>3, <1>4

(* An interval is finite.                                                  *)
LEMMA Interval == ASSUME NEW a \in Nat, NEW b \in Nat PROVE IsFiniteSet(a..b)
<1>1. a \in Int /\ b \in Int
  OBVIOUS
<1> QED
  BY ONLY <1>1, FS_Interval

(* Two sequences, one after the other.                                     *)
LEMMA Joined ==
  ASSUME NEW S, NEW s \in Seq(S), NEW t \in Seq(S)
  PROVE  /\ s \o t \in Seq(S) /\ Len(s \o t) = Len(s) + Len(t)
         /\ \A i \in 1..Len(s) : (s \o t)[i] = s[i]
         /\ \A i \in 1..Len(t) : (s \o t)[Len(s) + i] = t[i]
OBVIOUS

(* What a sequence holds.                                                  *)
LEMMA Element ==
  ASSUME NEW S, NEW s \in Seq(S), NEW i \in 1..Len(s)
  PROVE  s[i] \in S
OBVIOUS

(* A function of the first n numbers is a sequence.                        *)
LEMMA FunctionSeq ==
  ASSUME NEW n \in Nat, NEW S, NEW s \in [1..n -> S]
  PROVE  s \in Seq(S) /\ Len(s) = n
OBVIOUS

(* A finite set in an order: a sequence of its elements, each before those *)
(* it precedes.                                                            *)
LEMMA SortedSeq ==
  ASSUME NEW S, IsFiniteSet(S), NEW R, Orders(R, S)
  PROVE  \E s \in SetToSeqs(S) : \A i, j \in 1..Len(s) : i < j => <<s[i], s[j]>> \in R
<1>1. PICK s \in [1..Cardinality(S) -> S] :
        /\ \A i, j \in 1..Cardinality(S) : i < j => <<s[i], s[j]>> \in R
        /\ \A i, j \in 1..Cardinality(S) : i # j => s[i] # s[j]
  BY Sortable
<1>2. PICK n : n = Cardinality(S) /\ n \in Nat
  BY FS_CardinalityType
<1>3. s \in Seq(S) /\ Len(s) = n
  <2>1. s \in [1..n -> S]
    BY <1>2
  <2> QED
    BY ONLY <1>2, <2>1, FunctionSeq
<1>4. s \in SetToSeqs(S)
  BY <1>1 DEF SetToSeqs
<1> QED
  BY <1>1, <1>2, <1>3, <1>4

(* What is in such a sequence.                                             *)
LEMMA SeqOfSet ==
  ASSUME NEW S, IsFiniteSet(S), NEW s \in SetToSeqs(S)
  PROVE  /\ s \in Seq(S) /\ Len(s) = Cardinality(S) /\ Cardinality(S) \in Nat
         /\ \A i \in 1..Len(s) : s[i] \in S
         /\ \A i, j \in 1..Len(s) : i # j => s[i] # s[j]
<1>1. PICK n : n = Cardinality(S) /\ n \in Nat
  BY FS_CardinalityType
<1>2. s \in [1..n -> S] /\ \A i, j \in 1..n : i # j => s[i] # s[j]
  BY <1>1 DEF SetToSeqs
<1>3. s \in Seq(S) /\ Len(s) = n
  BY ONLY <1>1, <1>2, FunctionSeq
<1>4. \A i \in 1..n : s[i] \in S
  BY <1>2
<1> QED
  BY <1>1, <1>2, <1>3, <1>4

(* An increasing map of 1..n to itself moves nothing.                      *)
LEMMA Ascending ==
  ASSUME NEW n \in Nat, NEW f, \A i \in 1..n : f[i] \in 1..n,
         \A i, j \in 1..n : i < j => f[i] < f[j]
  PROVE  \A i \in 1..n : f[i] = i
<1>1. \A i \in 1..n : f[i] >= i
  <2> DEFINE Low == {i \in 1..n : f[i] < i}
  <2> SUFFICES ASSUME Low # {} PROVE FALSE
    OBVIOUS
  <2>1. PICK i \in Low : \A j \in Low : i <= j
    <3>1. Low \subseteq Nat /\ Low # {}
      OBVIOUS
    <3> HIDE DEF Low
    <3> QED
      BY <3>1, Least
  <2>2. i \in 1..n /\ f[i] < i /\ f[i] \in 1..n
    OBVIOUS
  <2>3. i - 1 \in 1..n /\ i - 1 \notin Low
    <3>1. i - 1 \in 1..n /\ ~(i <= i - 1)
      BY <2>2
    <3> HIDE DEF Low
    <3> QED
      BY <2>1, <3>1
  <2>4. f[i - 1] \in 1..n /\ f[i - 1] >= i - 1 /\ f[i - 1] < f[i]
    <3>1. ~(f[i - 1] < i - 1) /\ i - 1 < i
      BY <2>2, <2>3
    <3> QED
      BY <2>2, <2>3, <3>1
  <2> QED
    BY <2>2, <2>4
<1>2. \A i \in 1..n : f[i] <= i
  <2> DEFINE High == {g \in Nat : \E i \in 1..n : g = n - i /\ f[i] > i}
  <2> SUFFICES ASSUME NEW i \in 1..n, f[i] > i PROVE FALSE
    OBVIOUS
  <2>1. PICK g \in High : \A h \in High : g <= h
    <3>1. n - i \in Nat
      OBVIOUS
    <3>2. High \subseteq Nat /\ High # {}
      BY <3>1
    <3> HIDE DEF High
    <3> QED
      BY <3>2, Least
  <2>2. PICK j \in 1..n : g = n - j /\ f[j] > j
    OBVIOUS
  <2>3. j + 1 \in 1..n /\ n - (j + 1) \in Nat /\ ~(g <= n - (j + 1))
    BY <2>2
  <2>4. ~(f[j + 1] > j + 1)
    <3>1. n - (j + 1) \notin High
      <4> HIDE DEF High
      <4> QED
        BY <2>1, <2>3
    <3> QED
      BY <2>3, <3>1
  <2>5. f[j] < f[j + 1] /\ f[j] \in 1..n /\ f[j + 1] \in 1..n
    BY <2>2, <2>3
  <2> QED
    BY <2>2, <2>4, <2>5
<1>3. \A i \in 1..n : f[i] \in 1..n
  OBVIOUS
<1> QED
  BY <1>1, <1>2, <1>3

(* getUnembeddedChunks: when the first k have a vector, the ones after.    *)
LEMMA Remaining ==
  ASSUME NEW n \in Nat, NEW k \in 0..n, DOMAIN vec = 1..k
  PROVE  /\ Unembedded(n) \in Seq(Nat) /\ Len(Unembedded(n)) = n - k
         /\ \A i \in 1..(n - k) : Unembedded(n)[i] = k + i
<1> DEFINE S == (1..n) \ DOMAIN vec
           R == {e \in Int \X Int : e[1] < e[2]}
           Rising(s) == \A i, j \in 1..Len(s) : i < j => s[i] < s[j]
<1>1. S = (k + 1)..n /\ IsFiniteSet(S) /\ Cardinality(S) = n - k /\ n - k \in Nat
  <2>1. S = (k + 1)..n /\ n - k \in Nat
    OBVIOUS
  <2>2. IsFiniteSet((k + 1)..n) /\ Cardinality((k + 1)..n) = n - k
    <3>1. PICK a \in Int : a = k + 1
      OBVIOUS
    <3>2. IsFiniteSet(a..n) /\ Cardinality(a..n) = IF a > n THEN 0 ELSE n - a + 1
      <4>1. n \in Int
        OBVIOUS
      <4> QED
        BY ONLY <3>1, <4>1, FS_Interval
    <3>3. (IF a > n THEN 0 ELSE n - a + 1) = n - k
      BY <3>1
    <3> QED
      BY <3>1, <3>2, <3>3
  <2> QED
    BY <2>1, <2>2
<1>2. Orders(R, S)
  BY <1>1 DEF Orders
<1>3. \A x, y : <<x, y>> \in R => x < y
  OBVIOUS
<1>4. Unembedded(n) = CHOOSE s \in SetToSeqs(S) : Rising(s)
  BY DEF Unembedded, Sorted
<1> HIDE DEF S, R
<1>5. \E s \in SetToSeqs(S) : Rising(s)
  <2>1. PICK s \in SetToSeqs(S) : \A i, j \in 1..Len(s) : i < j => <<s[i], s[j]>> \in R
    BY <1>1, <1>2, SortedSeq
  <2> QED
    BY <1>3, <2>1
<1>6. PICK s \in SetToSeqs(S) : s = Unembedded(n) /\ Rising(s)
  <2> HIDE DEF Rising
  <2> QED
    BY <1>4, <1>5
<1>7. Len(s) = n - k /\ s \in Seq(S) /\ \A i \in 1..(n - k) : s[i] \in S
  BY <1>1, SeqOfSet
<1> DEFINE f == [i \in 1..(n - k) |-> s[i] - k]
<1>8. \A i \in 1..(n - k) : s[i] \in (k + 1)..n /\ f[i] = s[i] - k /\ f[i] \in 1..(n - k)
  BY <1>1, <1>7
<1>9. \A i, j \in 1..(n - k) : i < j => f[i] < f[j]
  BY <1>6, <1>7, <1>8
<1> HIDE DEF f
<1>10. \A i \in 1..(n - k) : f[i] = i
  BY <1>1, <1>8, <1>9, Ascending
<1>11. ASSUME NEW i \in 1..(n - k) PROVE s[i] = k + i
  <2>1. PICK m \in (k + 1)..n : m = s[i] /\ f[i] = m - k
    BY <1>8
  <2>2. m - k = i
    BY <1>10, <2>1
  <2> QED
    BY ONLY <1>1, <2>1, <2>2
<1>12. s \in Seq(Nat)
  <2>1. s \in [1..(n - k) -> Nat]
    <3>1. s \in [1..(n - k) -> S] /\ S \subseteq Nat
      BY <1>1 DEF SetToSeqs
    <3> QED
      BY <3>1
  <2> QED
    BY <1>1, <2>1, FunctionSeq
<1> QED
  BY <1>6, <1>7, <1>11, <1>12

-----------------------------------------------------------------------------
(* Vectors with the index of their text, some or all of a request's, each  *)
(* once: sorted by the index there are no more than were asked for, and if *)
(* there are as many they are the request's texts in its order.            *)
LEMMA InOrderOf ==
  ASSUME NEW q \in Nat, NEW texts, NEW T, \A i \in 1..q : texts[i] \in T, NEW Indexed,
         \A x \in Indexed : x.index \in 1..q /\ x = [index |-> x.index, text |-> texts[x.index]],
         NEW data \in SetToAllKPermutations(Indexed)
  PROVE  \E m \in 0..q :
           /\ InOrder(data) \in Seq(T)
           /\ Len(InOrder(data)) = m
           /\ m = q => \A i \in 1..q : InOrder(data)[i] = texts[i]
<1> DEFINE All == {[index |-> i, text |-> texts[i]] : i \in 1..q}
           R == {e \in All \X All : e[1].index < e[2].index}
           D == ToSet(data)
           Rising(s) == \A i, j \in 1..Len(s) : i < j => s[i].index < s[j].index
<1>1. IsFiniteSet(All) /\ Cardinality(All) <= q /\ Cardinality(All) \in Nat
  <2> DEFINE f == [i \in 1..q |-> [index |-> i, text |-> texts[i]]]
  <2>1. f \in Surjection(1..q, All)
    BY DEF Surjection
  <2>2. IsFiniteSet(1..q) /\ Cardinality(1..q) = q
    <3>1. 1 \in Int /\ q \in Int /\ (IF 1 > q THEN 0 ELSE q - 1 + 1) = q
      OBVIOUS
    <3>2. IsFiniteSet(1..q) /\ Cardinality(1..q) = IF 1 > q THEN 0 ELSE q - 1 + 1
      BY ONLY <3>1, FS_Interval
    <3> QED
      BY <3>1, <3>2
  <2> HIDE DEF f, All
  <2> QED
    BY <2>1, <2>2, FS_Surjection, FS_CardinalityType
<1>2. D \subseteq All
  <2>1. PICK S \in SUBSET All : data \in SetToSeqs(S)
    <3>1. Indexed \subseteq All
      OBVIOUS
    <3> HIDE DEF All
    <3> QED
      BY <3>1 DEF SetToAllKPermutations
  <2>2. \A i \in DOMAIN data : data[i] \in S
    BY <2>1 DEF SetToSeqs
  <2> HIDE DEF All
  <2> QED
    BY <2>1, <2>2 DEF ToSet
<1>3. IsFiniteSet(D) /\ Cardinality(D) \in Nat /\ Cardinality(D) <= q
  <2> HIDE DEF All, D
  <2>1. IsFiniteSet(D) /\ Cardinality(D) <= Cardinality(All)
    BY <1>1, <1>2, FS_Subset
  <2>2. Cardinality(D) \in Nat
    BY <2>1, FS_CardinalityType
  <2> QED
    BY <1>1, <2>1, <2>2
<1>4. \A x \in All : x.index \in 1..q /\ x.text = texts[x.index] /\ x.text \in T
  OBVIOUS
<1>5. Orders(R, D)
  <2>1. \A x, y \in All : x # y => x.index # y.index
    OBVIOUS
  <2>2. \A x, y : <<x, y>> \in R <=> x \in All /\ y \in All /\ x.index < y.index
    OBVIOUS
  <2> HIDE DEF All, R, D
  <2> QED
    BY <1>2, <1>4, <2>1, <2>2 DEF Orders
<1>6. \A x, y : <<x, y>> \in R => x.index < y.index
  OBVIOUS
<1> DEFINE ordered == CHOOSE s \in SetToSeqs(D) : Rising(s)
<1>7. InOrder(data) = [i \in 1..Len(ordered) |-> ordered[i].text]
  BY DEF InOrder, Sorted
<1> HIDE DEF D, R, All
<1>8. \E s \in SetToSeqs(D) : Rising(s)
  <2>1. PICK s \in SetToSeqs(D) : \A i, j \in 1..Len(s) : i < j => <<s[i], s[j]>> \in R
    BY <1>3, <1>5, SortedSeq
  <2> QED
    BY <1>6, <2>1
<1>9. PICK s \in SetToSeqs(D) : s = ordered /\ Rising(s)
  <2> HIDE DEF Rising
  <2> QED
    BY <1>8
<1> HIDE DEF ordered
<1>10. PICK m \in 0..q : m = Len(s)
  BY <1>3, SeqOfSet
<1>11. \A i \in 1..m : s[i].index \in 1..q /\ s[i].text = texts[s[i].index]
                     /\ s[i].text \in T
  <2>1. \A i \in 1..m : s[i] \in D
    BY <1>3, <1>10, SeqOfSet
  <2> QED
    BY <1>2, <1>4, <2>1
<1>12. InOrder(data) = [i \in 1..m |-> s[i].text]
  BY <1>7, <1>9, <1>10
<1>13. InOrder(data) \in Seq(T) /\ Len(InOrder(data)) = m
  <2>1. m \in Nat /\ InOrder(data) \in [1..m -> T]
    BY <1>11, <1>12
  <2> QED
    BY ONLY <2>1, FunctionSeq
<1>14. ASSUME m = q PROVE \A i \in 1..q : InOrder(data)[i] = texts[i]
  <2> DEFINE f == [i \in 1..q |-> s[i].index]
  <2>1. \A i \in 1..q : f[i] = s[i].index /\ f[i] \in 1..q
    BY <1>11, <1>14
  <2>2. \A i, j \in 1..q : i < j => f[i] < f[j]
    BY <1>9, <1>10, <1>14, <2>1
  <2> HIDE DEF f
  <2>3. \A i \in 1..q : f[i] = i
    BY <2>1, <2>2, Ascending
  <2> QED
    BY <1>11, <1>12, <1>14, <2>1, <2>3
<1> QED
  BY <1>10, <1>13, <1>14

-----------------------------------------------------------------------------
(* A block was made of lines of the file, a paragraph of one with text.    *)
Made(block) ==
  /\ block.lines \in Seq(1..Len(file.lines)) /\ block.level \in Nat
  /\ block.level = 0 => \E i \in 1..Len(block.lines) : HasText(block.lines[i])

(* The parser names lines of the file only.                                *)
ParsedBlock == [lines : Seq(Nat), level : Nat, page : Nat]
MadeInv ==
  /\ file \in File /\ at \in Nat \ {0}
  /\ buffer \in Seq(1..Len(file.lines))
  /\ blocks \in Seq(ParsedBlock) /\ \A b \in 1..Len(blocks) : Made(blocks[b])

(* A paragraph has tokens and sentences, and each of them tokens.          *)
Inked(b) ==
  b.level = 0 => b.tokens # 0 /\ b.sentences \in Seq(Nat \ {0}) /\ b.sentences # <<>>

(* So every piece that is cut from a document has tokens.                  *)
Weighs(text) == \A p \in 1..Len(text) : TokensOf(text[p]) \in Nat \ {0}
InkInv ==
  /\ \A b \in 1..Len(doc) : Inked(doc[b])
  /\ \A c \in 1..Len(chunks) : Weighs(chunks[c].text)

CutInv ==
  /\ IInv /\ FitInv /\ InkInv
  /\ phase = "parse" => MadeInv /\ ChunkFrom(<<>>)

(* The first chunks have their own vectors; a run embeds the others.       *)
Embedded(k) ==
  /\ DOMAIN vec = 1..k /\ \A c \in 1..k : vec[c] = c
  /\ task = "corpus" =>
       /\ pending \in Seq(Nat) /\ Len(pending) = Len(chunks) - k
       /\ \A i \in 1..(Len(chunks) - k) : pending[i] = k + i

(* As many vectors as were asked for are the ones that were.               *)
AskedInv ==
  /\ asked \in 0..Len(Batch) /\ got \in Seq(Int) /\ Len(got) <= asked
  /\ Len(got) = asked => \A i \in 1..asked : got[i] = Batch[i]

VectorsInv ==
  /\ \E k \in 0..Len(chunks) : Embedded(k)
  /\ phase \in {"parse", "index"} => vec = <<>> /\ task = "none"
  /\ task \in {"none", "corpus", "question"} /\ query \in {Question, NoVector}
  /\ phase \in {"parse", "index", "embed"} \/ task = "question" => query = NoVector
  /\ task = "corpus" => phase = "embed"
  /\ task = "question" => phase = "question" /\ pending = <<Question>>
  /\ task # "none" => AskedInv

Retrieved ==
  /\ score \in [Corpus -> Scores] /\ threshold \in Scores
  /\ hits \in Seq(Corpus) /\ Len(hits) <= K /\ RankedRows(score, hits)

(* The sources are the first of the hits in the order of their scores.     *)
Numbered ==
  /\ sources \in Seq([chunk : Corpus, content : Nat \ {0}])
  /\ Len(sources) <= MaxSources /\ Len(sources) <= Len(hits)
  /\ \A i \in 1..Len(sources) : sources[i].chunk = Ordered[i]
  /\ used \in Nat /\ (sources = <<>> => used = 0)
  /\ used <= Budget \/ (Len(sources) = 1 /\ sources[1].content = 1)

(* What has been asked, and how far its answer is.                         *)
AnswerInv ==
  \/ /\ phase \in {"parse", "index", "embed", "question", "failed"}
     /\ score = <<>> /\ threshold = 0 /\ hits = <<>>
     /\ sources = <<>> /\ used = 0 /\ reply = NoReply
  \/ /\ phase \in {"retrieved", "assembling", "generating", "answered", "failed"}
     /\ Retrieved /\ Numbered
     /\ phase = "retrieved" => sources = <<>>
     /\ phase \in {"assembling", "generating"} \/ sources # <<>> => ~Refuses
     /\ phase \in {"generating", "failed"} => sources # <<>>
     /\ phase = "answered" /\ sources = <<>> => Refuses
     /\ phase # "answered" => reply = NoReply
     /\ reply.citations \subseteq 1..Len(sources)
     /\ reply.citations \subseteq reply.cited
     /\ reply.grounded => reply.citations # {} /\ ~reply.refused

AnsweringInv == CutInv /\ VectorsInv /\ AnswerInv

-----------------------------------------------------------------------------
(* What a text with tokens is: it has some in all.                         *)
LEMMA TextWeight ==
  ASSUME NEW text \in Seq(Piece), Weighs(text), text # <<>>
  PROVE  TextTokens(text) \in Nat \ {0}
<1> DEFINE f == [p \in 1..Len(text) |-> TokensOf(text[p])]
<1>1. TextTokens(text) = SumFunctionOnSet(f, 1..Len(text))
  BY DEF TextTokens
<1>2. \A p \in 1..Len(text) : f[p] \in Nat \ {0}
  BY DEF Weighs
<1> HIDE DEF f
<1>3. PICK n \in Nat : n = Len(text) /\ n # 0 /\ 1 \in 1..n
  OBVIOUS
<1>4. IsFiniteSet(1..n)
  BY <1>3, Interval
<1> QED
  BY <1>1, <1>2, <1>3, <1>4, SumPositive

(* The pieces of the next chunk have tokens.                               *)
LEMMA BodyWeight ==
  ASSUME IInv, FitInv, InkInv
  PROVE  Weighs(body)
<1> SUFFICES ASSUME NEW p \in 1..Len(body) PROVE TokensOf(body[p]) \in Nat \ {0}
  BY DEF Weighs
<1>1. PICK b : b = next - Len(body) + p - 1
  OBVIOUS
<1>2. body[p] = Whole(b) /\ IsBody(b)
  <2>1. BodyInv
    BY Known
  <2> QED
    BY ONLY <1>1, <2>1 DEF BodyInv
<1>3. Whole(b).block = b
  BY DEF Whole
<1>4. b \in 1..Len(doc)
  <2>1. BodyInv /\ next \in Nat /\ Len(body) \in Nat /\ Len(doc) \in Nat
    BY Known
  <2> QED
    BY ONLY <1>1, <2>1 DEF BodyInv
<1>5. doc[b].tokens \in Nat \ {0}
  BY <1>2, <1>4, Known, BlockTokens DEF InkInv, Inked, IsBody
<1>6. doc[b].tokens <= MaxTokens
  BY <1>2, <1>3 DEF FitInv
<1> QED
  BY <1>2, <1>3, <1>5, <1>6 DEF TokensOf

(* So does the part of a paragraph that is cut.                            *)
LEMMA PartWeight ==
  ASSUME IInv, FitInv, InkInv, split # NoSplit, split.start # 0
  PROVE  Weighs(Part(split.at))
<1>1. PICK piece : piece = [block |-> next, from |-> split.start, to |-> split.at - 1]
  OBVIOUS
<1>2. piece.block = next /\ piece.from = split.start /\ piece.to = split.at - 1 /\ Part(split.at) = <<piece>>
  BY <1>1 DEF Part
<1>3. /\ split.at \in Nat /\ split.start \in Nat \ {0} /\ next \in 1..Len(doc)
      /\ split.at \in 1..(Len(doc[next].sentences) + 1) /\ split.start < split.at
      /\ doc[next].sentences \in Seq(Nat) /\ doc[next].tokens \in Nat /\ IsBody(next)
  BY SplitPart, Known DEF SplitInv
<1>4. ~(doc[next].tokens <= MaxTokens)
  BY <1>3, ChunkingAssumption DEF FitInv, SplitFits
<1>5. TokensOf(piece) = SumFunctionOnSet(doc[next].sentences, split.start..(split.at - 1))
  BY <1>2, <1>4 DEF TokensOf
<1>6. PICK sentences \in Seq(Nat \ {0}) : sentences = doc[next].sentences
  BY <1>3 DEF InkInv, Inked, IsBody
<1>7. PICK a \in Nat, b \in Nat : a = split.start /\ b = split.at - 1 /\ a <= b /\ a # 0 /\ b <= Len(sentences)
  <2>1. Len(sentences) \in Nat /\ split.at \in 1..(Len(sentences) + 1)
    BY <1>3, <1>6
  <2>2. split.start \in Nat /\ split.at - 1 \in Nat
    BY <1>3
  <2>3. split.start <= split.at - 1 /\ split.start # 0 /\ split.at - 1 <= Len(sentences)
    BY <1>3, <2>1
  <2> QED
    BY ONLY <2>2, <2>3
<1>8. (\A x \in a..b : sentences[x] \in Nat \ {0}) /\ a \in a..b
  BY <1>7
<1>9. IsFiniteSet(a..b)
  BY <1>7, Interval
<1>10. SumFunctionOnSet(sentences, a..b) \in Nat \ {0}
  BY <1>8, <1>9, SumPositive
<1>11. TokensOf(piece) \in Nat \ {0}
  BY <1>5, <1>6, <1>7, <1>10
<1>12. Len(<<piece>>) = 1 /\ <<piece>>[1] = piece
  OBVIOUS
<1> QED
  BY <1>2, <1>11, <1>12 DEF Weighs

(* What is flushed with tokens leaves chunks with tokens.                  *)
LEMMA FlushWeight ==
  ASSUME IInv, InkInv, NEW text, text = <<>> \/ Weighs(text), NEW tail
  PROVE  \A c \in 1..Len(Flushed(text, tail)) : Weighs(Flushed(text, tail)[c].text)
<1>1. CASE text = <<>>
  BY <1>1 DEF Flushed, InkInv
<1>2. CASE text # <<>>
  <2>1. PICK ch : ch = [text |-> text, section |-> headings, overlap |-> tail]
    OBVIOUS
  <2>2. Flushed(text, tail) = Append(chunks, ch) /\ ch.text = text
    BY <1>2, <2>1 DEF Flushed
  <2>3. chunks \in Seq(Chunk) /\ Len(chunks) \in Nat
    BY Known
  <2>4. /\ Len(Append(chunks, ch)) = Len(chunks) + 1 /\ Append(chunks, ch)[Len(chunks) + 1] = ch
        /\ \A c \in 1..Len(chunks) : Append(chunks, ch)[c] = chunks[c]
    BY <2>3
  <2>5. \A c \in 1..(Len(chunks) + 1) : c \in 1..Len(chunks) \/ c = Len(chunks) + 1
    BY <2>3
  <2> QED
    BY <1>2, <2>2, <2>4, <2>5 DEF InkInv
<1> QED
  BY <1>1, <1>2

(* Chunking cuts no text without tokens from blocks that have them.        *)
LEMMA InkTurn ==
  ASSUME IInv, FitInv, InkInv, [ChunkNext]_chunkVars
  PROVE  InkInv'
<1>1. UNCHANGED doc
  BY DEF ChunkNext, chunkVars, TakeHeading, TakeParagraph, StartSplit, TakeSentence, EndSplit, Finish
<1>2. \/ chunks' = chunks \/ chunks' = Flushed(body, overlap)
      \/ split # NoSplit /\ split.start # 0 /\ chunks' = Flushed(Part(split.at), overlap)
  <2>1. CASE TakeHeading \/ TakeParagraph \/ StartSplit \/ Finish \/ UNCHANGED chunkVars
    BY <2>1 DEF chunkVars, TakeHeading, TakeParagraph, StartSplit, Finish
  <2>2. CASE TakeSentence
    BY <2>2 DEF TakeSentence
  <2>3. CASE EndSplit
    <3>1. split # NoSplit /\ split.at > Len(doc[next].sentences) /\ chunks' = Flushed(Part(split.at), overlap)
      BY <2>3 DEF EndSplit
    <3>2. next \in 1..Len(doc) /\ doc[next].sentences \in Seq(Nat) /\ IsBody(next)
          /\ (split.start = 0 => split.at = 1)
      BY <3>1, SplitPart, Known DEF SplitInv
    <3>3. doc[next].sentences # <<>>
      BY <3>2 DEF InkInv, Inked, IsBody
    <3>4. split.start # 0
      BY <3>1, <3>2, <3>3
    <3> QED
      BY <3>1, <3>4
  <2> QED
    BY <2>1, <2>2, <2>3 DEF ChunkNext
<1>3. \A c \in 1..Len(chunks') : Weighs(chunks'[c].text)
  BY <1>2, FlushWeight, BodyWeight, PartWeight DEF InkInv
<1>4. \A text : Weighs(text)' <=> Weighs(text)
  BY <1>1 DEF Weighs, TokensOf, Whole
<1> QED
  BY <1>1, <1>3, <1>4 DEF InkInv, Inked

-----------------------------------------------------------------------------
(* What the lines of a file are.                                           *)
LEMMA LinesOf ==
  ASSUME file \in File
  PROVE  /\ file.lines \in Seq(Line) /\ Len(file.lines) \in Nat
         /\ \A i \in 1..Len(file.lines) :
              LET line == file.lines[i]
              IN /\ line.tokens \in Nat /\ line.sentences \in Seq(Nat \ {0}) /\ line.level \in Nat
                 /\ line.level # 0 <=> line.kind = "heading"
                 /\ HasText(i) => line.tokens # 0
                 /\ line.kind \in Kinds(file.type)
                 /\ line.kind \in {"blank", "spaces"} => ~HasText(i)
<1>1. file.lines \in Seq(Line) /\ \A i \in 1..Len(file.lines) : file.lines[i].kind \in Kinds(file.type)
  BY DEF File
<1>2. Len(file.lines) \in Nat /\ \A i \in 1..Len(file.lines) : file.lines[i] \in Line
  BY <1>1
<1>3. \A line \in Line :
        /\ line.tokens \in Nat /\ line.sentences \in Seq(Nat \ {0}) /\ line.level \in Nat
        /\ line.level # 0 <=> line.kind = "heading"
        /\ line.sentences # <<>> => line.tokens # 0
        /\ line.kind \in {"blank", "spaces"} => line.sentences = <<>>
  BY DEF Line
<1> QED
  BY <1>1, <1>2, <1>3 DEF HasText

(* One block more.                                                         *)
LEMMA MadeMore ==
  ASSUME NEW bs \in Seq(ParsedBlock), \A b \in 1..Len(bs) : Made(bs[b]),
         NEW block \in ParsedBlock, Made(block)
  PROVE  /\ Append(bs, block) \in Seq(ParsedBlock)
         /\ \A b \in 1..Len(Append(bs, block)) : Made(Append(bs, block)[b])
<1>1. /\ Append(bs, block) \in Seq(ParsedBlock) /\ Len(bs) \in Nat
      /\ Len(Append(bs, block)) = Len(bs) + 1 /\ Append(bs, block)[Len(bs) + 1] = block
      /\ \A b \in 1..Len(bs) : Append(bs, block)[b] = bs[b]
  OBVIOUS
<1>2. \A b \in 1..(Len(bs) + 1) : b \in 1..Len(bs) \/ b = Len(bs) + 1
  BY <1>1
<1> QED
  BY <1>1, <1>2

(* The paragraph that is flushed.                                          *)
LEMMA ClosedMade ==
  ASSUME MadeInv
  PROVE  Closed \in Seq(ParsedBlock) /\ \A b \in 1..Len(Closed) : Made(Closed[b])
<1>1. CASE \E i \in ToSet(buffer) : HasText(i)
  <2>1. PICK block : block = BlockOf(buffer, 0, 1) /\ Closed = Append(blocks, block)
    BY <1>1 DEF Closed
  <2>2. block.lines = buffer /\ block.level = 0
    BY <2>1 DEF BlockOf
  <2>3. buffer \in Seq(1..Len(file.lines)) /\ buffer \in Seq(Nat)
    <3>1. 1..Len(file.lines) \subseteq Nat
      OBVIOUS
    <3> QED
      BY <3>1 DEF MadeInv
  <2>4. block \in ParsedBlock
    BY <2>1, <2>3 DEF BlockOf, ParsedBlock
  <2>5. \E p \in 1..Len(buffer) : HasText(buffer[p])
    BY <1>1, <2>3 DEF ToSet
  <2>6. Made(block)
    BY <2>2, <2>3, <2>5 DEF Made
  <2> QED
    BY <2>1, <2>4, <2>6, MadeMore DEF MadeInv
<1>2. CASE ~ \E i \in ToSet(buffer) : HasText(i)
  BY <1>2 DEF Closed, MadeInv
<1> QED
  BY <1>1, <1>2

(* A block of one line, a heading or one with text.                        *)
LEMMA LineMade ==
  ASSUME MadeInv, NEW i \in 1..Len(file.lines), NEW level \in Nat, level = 0 => HasText(i), NEW page \in Nat
  PROVE  BlockOf(<<i>>, level, page) \in ParsedBlock /\ Made(BlockOf(<<i>>, level, page))
<1>1. PICK block : block = BlockOf(<<i>>, level, page)
  OBVIOUS
<1>2. PICK lines \in Seq(1..Len(file.lines)) : lines = <<i>> /\ Len(lines) = 1 /\ lines[1] = i
  <2>1. PICK S : S = 1..Len(file.lines) /\ i \in S
    OBVIOUS
  <2>2. <<i>> \in Seq(S) /\ Len(<<i>>) = 1 /\ <<i>>[1] = i
    BY <2>1
  <2> QED
    BY <2>1, <2>2
<1>3. block.lines = lines /\ block.level = level /\ block \in ParsedBlock
  BY <1>1, <1>2 DEF BlockOf, ParsedBlock
<1>4. Made(block)
  BY <1>2, <1>3 DEF Made
<1> QED
  BY <1>1, <1>3, <1>4

(* A turn of a parser's loop keeps to the lines of the file.               *)
LEMMA MadeTurn ==
  ASSUME MadeInv, ParseNext
  PROVE  MadeInv'
<1>1. UNCHANGED file
  BY DEF ParseNext, Open, TxtLine, MarkdownFence, MarkdownLine, DocxElement, PdfPage, EndOfFile, Turn
<1>2. Len(file.lines) \in Nat
  BY LinesOf DEF MadeInv
<1>3. ASSUME NEW type, NEW last, Turn(type, last), last <= Len(file.lines), last \in Nat
      PROVE  at \in 1..Len(file.lines) /\ at' \in Nat \ {0}
  BY <1>2, <1>3 DEF Turn, MadeInv
<1>4. <<>> \in Seq(1..Len(file.lines))
  OBVIOUS
<1>5. ASSUME at \in 1..Len(file.lines)
      PROVE  Append(buffer, at) \in Seq(1..Len(file.lines))
  BY <1>5 DEF MadeInv
<1>6. ASSUME blocks' \in Seq(ParsedBlock), \A b \in 1..Len(blocks') : Made(blocks'[b]),
             at' \in Nat \ {0}, buffer' \in Seq(1..Len(file.lines))
      PROVE  MadeInv'
  BY <1>1, <1>6 DEF MadeInv, Made, HasText
<1>7. CASE Open
  BY <1>6, <1>7 DEF Open, MadeInv
<1>8. CASE TxtLine
  <2>1. at \in 1..Len(file.lines) /\ at' \in Nat \ {0}
    BY <1>2, <1>3, <1>8 DEF TxtLine
  <2>2. CASE Flush
    BY <1>4, <1>6, <2>1, <2>2, ClosedMade DEF Flush
  <2>3. CASE Keep
    BY <1>5, <1>6, <2>1, <2>3 DEF Keep, MadeInv
  <2> QED
    BY <1>8, <2>2, <2>3 DEF TxtLine
<1>9. CASE MarkdownFence
  BY <1>2, <1>3, <1>5, <1>6, <1>9 DEF MarkdownFence, Keep, MadeInv
<1>10. CASE MarkdownLine
  <2>1. at \in 1..Len(file.lines) /\ at' \in Nat \ {0}
    BY <1>2, <1>3, <1>10 DEF MarkdownLine
  <2>2. CASE ~fenced /\ Kind = "heading"
    <3>1. file.lines[at].level \in Nat \ {0}
      BY <2>1, <2>2, LinesOf DEF Kind, MadeInv
    <3>2. PICK block : block = BlockOf(<<at>>, file.lines[at].level, 1) /\ block \in ParsedBlock /\ Made(block)
      BY <2>1, <3>1, LineMade
    <3>3. blocks' = Append(Closed, block) /\ buffer' = <<>>
      BY <1>10, <2>2, <3>2 DEF MarkdownLine
    <3> QED
      BY <1>4, <1>6, <2>1, <3>2, <3>3, ClosedMade, MadeMore
  <2>3. CASE ~(~fenced /\ Kind = "heading")
    <3>1. Flush \/ Keep
      BY <1>10, <2>3 DEF MarkdownLine
    <3> QED
      BY <1>4, <1>5, <1>6, <2>1, <3>1, ClosedMade DEF Flush, Keep, MadeInv
  <2> QED
    BY <2>2, <2>3
<1>11. CASE DocxElement
  <2>1. at \in 1..Len(file.lines) /\ at' \in Nat \ {0} /\ buffer' = buffer
    BY <1>2, <1>3, <1>11 DEF DocxElement
  <2>2. CASE Kind \in {"heading", "text"} /\ HasText(at)
    <3>1. file.lines[at].level \in Nat
      BY <2>1, LinesOf DEF MadeInv
    <3>2. PICK block : block = BlockOf(<<at>>, file.lines[at].level, 1) /\ block \in ParsedBlock /\ Made(block)
      BY <2>1, <2>2, <3>1, LineMade
    <3>3. blocks' = Append(blocks, block)
      BY <1>11, <2>2, <3>2 DEF DocxElement
    <3> QED
      BY <1>6, <2>1, <3>2, <3>3, MadeMore DEF MadeInv
  <2>3. CASE ~(Kind \in {"heading", "text"} /\ HasText(at))
    BY <1>6, <1>11, <2>1, <2>3 DEF DocxElement, MadeInv
  <2> QED
    BY <2>2, <2>3
<1>12. CASE PdfPage
  <2>1. PagesToScan \in Nat /\ PagesToScan <= Len(file.lines)
    <3>1. MaxPages \in Int /\ Len(file.lines) \in Int
      BY <1>2, FilesAssumption
    <3>2. PagesToScan = IF Len(file.lines) <= MaxPages THEN Len(file.lines) ELSE MaxPages
      BY <3>1, MinOf DEF PagesToScan
    <3> QED
      BY <1>2, <3>2, FilesAssumption
  <2>2. at \in 1..Len(file.lines) /\ at' \in Nat \ {0} /\ buffer' = buffer
    BY <1>3, <1>12, <2>1 DEF PdfPage
  <2>3. CASE HasText(at)
    <3>1. PICK block : block = BlockOf(<<at>>, 0, at) /\ block \in ParsedBlock /\ Made(block)
      BY <2>2, <2>3, LineMade
    <3>2. blocks' = Append(blocks, block)
      BY <1>12, <2>3, <3>1 DEF PdfPage
    <3> QED
      BY <1>6, <2>2, <3>1, <3>2, MadeMore DEF MadeInv
  <2>4. CASE ~HasText(at)
    BY <1>6, <1>12, <2>2, <2>4 DEF PdfPage, MadeInv
  <2> QED
    BY <2>3, <2>4
<1>13. CASE EndOfFile
  BY <1>4, <1>6, <1>13, ClosedMade DEF EndOfFile, Flush, MadeInv
<1> QED
  BY <1>7, <1>8, <1>9, <1>10, <1>11, <1>12, <1>13 DEF ParseNext

(* What the chunker is given of a block the parser made.                   *)
LEMMA ParsedInked ==
  ASSUME file \in File, NEW block \in ParsedBlock, Made(block)
  PROVE  Parsed(block) \in Block /\ Inked(Parsed(block))
<1> DEFINE lines == [i \in 1..Len(block.lines) |-> file.lines[block.lines[i]]]
           tokens == [i \in 1..Len(lines) |-> lines[i].tokens]
           sentences == [i \in 1..Len(lines) |-> lines[i].sentences]
           S == Nat \ {0}
<1>1. PICK n \in Nat : n = Len(block.lines) /\ Len(lines) = n
  BY DEF Made
<1>2. \A i \in 1..n : block.lines[i] \in 1..Len(file.lines) /\ lines[i] = file.lines[block.lines[i]]
  BY <1>1 DEF Made
<1> HIDE DEF lines
<1>3. \A i \in 1..n : tokens[i] = lines[i].tokens /\ tokens[i] \in Nat
  BY <1>1, <1>2, LinesOf
<1>4. \A i \in 1..n : sentences[i] = lines[i].sentences /\ sentences[i] \in Seq(S)
  BY <1>1, <1>2, LinesOf
<1>5. sentences \in [1..n -> Seq(S)]
  BY <1>1, <1>4
<1>6. Parsed(block) = [level |-> block.level, tokens |-> SumFunctionOnSet(tokens, 1..n),
                       sentences |-> IF block.level # 0 THEN <<>> ELSE FlattenSeq(sentences)]
  BY <1>1 DEF Parsed, lines
<1> HIDE DEF tokens, sentences
<1>7. sentences \in Seq(Seq(S)) /\ Len(sentences) = n
  <2> HIDE DEF S
  <2> QED
    BY <1>5, FunctionSeq
<1>8. /\ FlattenSeq(sentences) \in Seq(S)
      /\ \A i \in 1..n : sentences[i] # <<>> => FlattenSeq(sentences) # <<>>
  <2> HIDE DEF S
  <2> QED
    BY <1>7, FlattenOf
<1>9. IsFiniteSet(1..n)
  BY Interval
<1>10. SumFunctionOnSet(tokens, 1..n) \in Nat
  BY <1>3, <1>9, SumType
<1>11. FlattenSeq(sentences) \in Seq(Nat) /\ <<>> \in Seq(Nat)
  <2>1. \A s \in Seq(S) : s \in Seq(Nat)
    OBVIOUS
  <2> QED
    BY <1>8, <2>1
<1>12. PICK b : b = Parsed(block) /\ b.level = block.level /\ b.tokens = SumFunctionOnSet(tokens, 1..n)
                /\ b.sentences = IF block.level # 0 THEN <<>> ELSE FlattenSeq(sentences)
  BY <1>6
<1>13. b \in Block
  <2>1. b \in [level : Nat, tokens : Nat, sentences : Seq(Nat)]
    BY <1>6, <1>10, <1>11, <1>12 DEF ParsedBlock
  <2> QED
    BY <1>12, <2>1 DEF Block
<1>14. ASSUME b.level = 0 PROVE b.tokens # 0 /\ b.sentences \in Seq(S) /\ b.sentences # <<>>
  <2>1. PICK i \in 1..n : HasText(block.lines[i])
    BY <1>1, <1>12, <1>14 DEF Made
  <2>2. tokens[i] # 0 /\ sentences[i] # <<>>
    <3>1. PICK j \in 1..Len(file.lines) : j = block.lines[i] /\ lines[i] = file.lines[j]
      BY <1>2
    <3> QED
      BY <1>3, <1>4, <2>1, <3>1, LinesOf DEF HasText
  <2>3. SumFunctionOnSet(tokens, 1..n) # 0
    BY <1>3, <1>9, <2>2, SumPositive
  <2> QED
    BY <1>8, <1>12, <1>14, <2>2, <2>3
<1> QED
  BY <1>12, <1>13, <1>14 DEF Inked

(* The document that is chunked is what was parsed.                        *)
LEMMA ParsedDocument ==
  ASSUME MadeInv
  PROVE  LET parsed == [b \in 1..Len(blocks) |-> Parsed(blocks[b])]
         IN parsed \in Seq(Block) /\ \A b \in 1..Len(parsed) : Inked(parsed[b])
<1> DEFINE parsed == [b \in 1..Len(blocks) |-> Parsed(blocks[b])]
<1>1. PICK n \in Nat : n = Len(blocks)
  BY DEF MadeInv
<1>2. \A b \in 1..n : Parsed(blocks[b]) \in Block /\ Inked(Parsed(blocks[b]))
  <2>1. \A b \in 1..n : blocks[b] \in ParsedBlock /\ Made(blocks[b])
    BY <1>1 DEF MadeInv
  <2> QED
    BY <2>1, ParsedInked DEF MadeInv
<1>3. parsed \in [1..n -> Block] /\ \A b \in 1..n : parsed[b] = Parsed(blocks[b])
  BY <1>1, <1>2
<1> HIDE DEF parsed
<1>4. parsed \in Seq(Block) /\ Len(parsed) = n
  BY <1>3, FunctionSeq
<1> QED
  BY <1>2, <1>3, <1>4 DEF parsed

(* Whatever the parser hands on, the chunker starts well.                  *)
Starts == \A parsed \in Seq(Block) : ChunkFrom(parsed) => IInv /\ FitInv
(* As the chunker's own proofs say of its start.                           *)
LEMMA StartAll == Starts
BY Start, StartFits DEF Starts
(* So it does in the step in which it is handed on.                        *)
LEMMA StartNext == Starts'
BY StartAll, PTL

(* Before a file is read there is nothing to be wrong.                     *)
LEMMA CutStart == Init => CutInv
<1> SUFFICES ASSUME Init PROVE CutInv
  OBVIOUS
<1>1. MadeInv /\ ChunkFrom(<<>>)
  <2>1. <<>> \in Seq(1..Len(file.lines)) /\ <<>> \in Seq(ParsedBlock) /\ Len(<<>>) = 0
    OBVIOUS
  <2>2. file \in File /\ at = 1 /\ buffer = <<>> /\ blocks = <<>>
    BY FilesAssumption DEF Init, ParseInit
  <2> QED
    BY <2>1, <2>2 DEF MadeInv, Init, ChunkInit
<1>2. IInv /\ FitInv
  <2>1. <<>> \in Seq(Block)
    OBVIOUS
  <2> QED
    BY <1>1, <2>1, StartAll DEF Starts
<1>3. InkInv
  <2>1. doc = <<>> /\ chunks = <<>>
    BY <1>1 DEF ChunkFrom
  <2> QED
    BY <2>1 DEF InkInv
<1> QED
  BY <1>1, <1>2, <1>3 DEF CutInv

(* What is cut stays as it should, from the file to the end.               *)
LEMMA CutTurn ==
  ASSUME CutInv, [Next]_allVars
  PROVE  CutInv'
<1>1. CASE Parse
  <2>1. MadeInv' /\ UNCHANGED chunkVars /\ UNCHANGED phase
    BY <1>1, MadeTurn DEF Parse, CutInv
  <2>2. IInv' /\ FitInv' /\ InkInv'
    BY <2>1, ChunkTurn, FitTurn, InkTurn DEF CutInv
  <2>3. ChunkFrom(<<>>)'
    BY <1>1, <2>1 DEF Parse, CutInv, ChunkFrom, chunkVars, NoSplit
  <2> QED
    BY <2>1, <2>2, <2>3 DEF CutInv
<1>2. CASE StartChunking
  <2>1. PICK parsed : /\ parsed = [b \in 1..Len(blocks) |-> Parsed(blocks[b])]
                      /\ parsed \in Seq(Block) /\ \A b \in 1..Len(parsed) : Inked(parsed[b])
    BY <1>2, ParsedDocument DEF StartChunking, CutInv
  <2>2. doc' = parsed /\ phase' = "index" /\ UNCHANGED <<next, headings, body, bodyTokens, overlap, chunks, split>>
    BY <1>2, <2>1 DEF StartChunking
  <2>3. ChunkFrom(parsed)'
    BY <1>2, <2>2 DEF StartChunking, CutInv, ChunkFrom, NoSplit
  <2>4. IInv' /\ FitInv'
    BY <2>1, <2>3, StartNext DEF Starts
  <2>5. InkInv'
    <3>1. chunks' = <<>>
      BY <2>3 DEF ChunkFrom
    <3>2. \A c \in 1..Len(chunks') : FALSE
      BY <3>1
    <3> QED
      BY <2>1, <2>2, <3>2 DEF InkInv, Inked
  <2> QED
    BY <2>2, <2>4, <2>5 DEF CutInv
<1>3. CASE Index
  BY <1>3, ChunkTurn, FitTurn, InkTurn DEF Index, CutInv
<1>4. CASE UNCHANGED <<parseVars, chunkVars>> /\ (phase' = "parse" => phase = "parse")
  <2>1. IInv' /\ FitInv' /\ InkInv'
    BY <1>4, ChunkTurn, FitTurn, InkTurn DEF CutInv
  <2>2. ASSUME phase = "parse" PROVE ChunkFrom(<<>>)' /\ MadeInv'
    <3>1. UNCHANGED <<file, at, buffer, blocks>>
      BY <1>4 DEF parseVars
    <3>2. MadeInv'
      BY <2>2, <3>1 DEF CutInv, MadeInv, Made, HasText
    <3>3. ChunkFrom(<<>>)'
      BY <1>4, <2>2 DEF CutInv, ChunkFrom, chunkVars, NoSplit
    <3> QED
      BY <3>2, <3>3
  <2> QED
    BY <1>4, <2>1, <2>2 DEF CutInv
<1>5. CASE StartEmbedding \/ Embed \/ AskQuestion \/ EmbedQuestion \/ QuestionFails \/ Retrieve \/ Gate
  BY <1>4, <1>5 DEF StartEmbedding, Embed, AskQuestion, EmbedQuestion, QuestionFails, Retrieve, Gate
<1>6. CASE AddSource \/ AddTruncatedSource \/ Assembled \/ Generate \/ GenerationFails
  BY <1>4, <1>6 DEF AddSource, AddTruncatedSource, Assembled, Generate, GenerationFails
<1>7. CASE UNCHANGED allVars
  BY <1>4, <1>7 DEF allVars
<1> QED
  BY <1>1, <1>2, <1>3, <1>5, <1>6, <1>7 DEF Next

(* So what is cut is as the chunker promises throughout.                   *)
LEMMA CutAlways == Spec => []CutInv
<1>1. CutInv /\ [Next]_allVars => CutInv'
  BY CutTurn
<1> QED
  BY <1>1, CutStart, PTL DEF Spec

(* A chunk's anchors are exact, whichever file the document it was cut     *)
(* from was parsed from.                                                   *)
THEOREM AnchorsOfFiles == Spec => []AnchorsAreExact
<1>1. CutInv => AnchorsAreExact
  BY Exact DEF CutInv
<1> QED
  BY <1>1, CutAlways, PTL

(* No section bleeds into another, and each chunk names the headings that  *)
(* its text is under, whichever file the document was parsed from.         *)
THEOREM SectionsOfFiles == Spec => []SectionsDoNotBleed
<1>1. CutInv => SectionsDoNotBleed
  BY NoneBleeds DEF CutInv
<1> QED
  BY <1>1, CutAlways, PTL

(* No chunk of a file is over the limit but one that is a single sentence. *)
THEOREM ChunksOfFilesFit == Spec => []ChunksFit
<1>1. CutInv => ChunksFit
  BY DEF CutInv, FitInv
<1> QED
  BY <1>1, CutAlways, PTL

-----------------------------------------------------------------------------
(* The lines of a block, and the headings of a file.                       *)
Of(block) == ToSet(block.lines)
IsHeading(i) == file.lines[i].kind = "heading" /\ (file.type = "MD" => ~InCode(i))

(* A block is what its lines make it.                                      *)
Proper(block) ==
  /\ \A i, j \in Of(block) : i < j => \A k \in i..j : ~Breaks(k)
  /\ block.level # 0 <=> \E i \in Of(block) : IsHeading(i)
  /\ file.type = "PDF" => Of(block) = {block.page}
  /\ file.type # "PDF" => block.page = 1

(* The blocks bs, and then a paragraph that is open, hold what is readable *)
(* of the first n lines, in order.                                         *)
Follows(bs, open, n) ==
  /\ \A b, c \in 1..Len(bs) : b < c => \A i \in Of(bs[b]), j \in Of(bs[c]) : i < j
  /\ \A b \in 1..Len(bs) : \A i \in Of(bs[b]) : i <= n /\ \A j \in open : i < j
  /\ \A b \in 1..Len(bs) : Proper(bs[b])
  /\ \A j \in open : j <= n
  /\ \A i \in Readable : i <= n => i \in open \/ \E b \in 1..Len(bs) : i \in Of(bs[b])

Unbroken(open, n) == \A j \in open : \A k \in j..n : ~Breaks(k)

(* How far the parser of the file's type goes.                             *)
LastLine == IF file.type = "PDF" THEN PagesToScan ELSE Len(file.lines)

ParseInv ==
  /\ MadeInv
  /\ Follows(blocks, ToSet(buffer), at - 1) /\ Unbroken(ToSet(buffer), at - 1)
  /\ file.type = "MD" => (fenced <=> InCode(at))
  /\ file.type \in {"DOCX", "PDF"} => buffer = <<>>
  /\ file.type = "PDF" /\ at > 1 /\ blocks = <<>> => warnings # {}
  /\ outcome = "parsed" => at > LastLine /\ buffer = <<>> /\ (blocks = <<>> => warnings # {})

-----------------------------------------------------------------------------
(* One mark more is the other side of it.                                  *)
LEMMA Parity ==
  ASSUME NEW n \in Nat
  PROVE  (n + 1) % 2 = 1 <=> n % 2 # 1
OBVIOUS

(* Whether a line is in code is decided by the marks before it.            *)
LEMMA InCodeNext ==
  ASSUME file \in File, NEW n \in Nat
  PROVE  /\ n \in Marks => (InCode(n + 1) <=> ~InCode(n))
         /\ n \notin Marks => (InCode(n + 1) <=> InCode(n))
<1> DEFINE Past(i) == {m \in Marks : m < i}
<1>1. Marks \subseteq 1..Len(file.lines) /\ Marks \subseteq Nat
  BY LinesOf DEF Marks
<1>2. IsFiniteSet(Past(n))
  <2>1. PICK k \in Nat : k = Len(file.lines) /\ IsFiniteSet(1..k)
    BY LinesOf, Interval
  <2> QED
    BY <1>1, <2>1, FS_Subset
<1>3. PICK d \in Nat : d = Cardinality(Past(n))
  BY <1>2, FS_CardinalityType
<1>4. ASSUME n \in Marks PROVE InCode(n + 1) <=> ~InCode(n)
  <2>1. Past(n + 1) = Past(n) \cup {n} /\ n \notin Past(n)
    <3>1. (\A m \in Marks : m < n + 1 <=> m < n \/ m = n) /\ ~(n < n)
      BY <1>1
    <3>2. \A m : m \in Past(n + 1) <=> m \in Past(n) \cup {n}
      BY <1>4, <3>1
    <3> QED
      BY <3>1, <3>2
  <2>2. Cardinality(Past(n + 1)) = d + 1
    <3> HIDE DEF Past
    <3> QED
      BY <1>2, <1>3, <2>1, FS_AddElement
  <2> QED
    BY <1>3, <2>2, Parity DEF InCode
<1>5. ASSUME n \notin Marks PROVE InCode(n + 1) <=> InCode(n)
  <2>1. Past(n + 1) = Past(n)
    <3>1. \A m \in Marks : m < n + 1 <=> m < n
      BY <1>1, <1>5
    <3> QED
      BY <3>1
  <2> QED
    BY <2>1 DEF InCode
<1> QED
  BY <1>4, <1>5

(* A block for the lines that are open.                                    *)
LEMMA BlockMore ==
  ASSUME NEW bs \in Seq(ParsedBlock), NEW n, NEW block,
         Follows(bs, Of(block), n), Proper(block)
  PROVE  Follows(Append(bs, block), {}, n)
<1>1. PICK l \in Nat : l = Len(bs)
  OBVIOUS
<1>2. /\ Len(Append(bs, block)) = l + 1 /\ Append(bs, block)[l + 1] = block
      /\ \A b \in 1..l : Append(bs, block)[b] = bs[b]
  BY <1>1
<1>3. PICK cs : cs = Append(bs, block)
  OBVIOUS
<1>4. \A b \in 1..(l + 1) : b \in 1..l \/ b = l + 1
  BY <1>1
<1>5. \A b, c \in 1..(l + 1) : b < c => \A i \in Of(cs[b]), j \in Of(cs[c]) : i < j
  <2> SUFFICES ASSUME NEW b \in 1..(l + 1), NEW c \in 1..(l + 1), b < c,
                      NEW i \in Of(cs[b]), NEW j \in Of(cs[c])
               PROVE  i < j
    OBVIOUS
  <2>1. b \in 1..l
    BY <1>1
  <2>2. CASE c \in 1..l
    BY <1>1, <1>2, <1>3, <2>1, <2>2 DEF Follows
  <2>3. CASE c = l + 1
    BY <1>1, <1>2, <1>3, <2>1, <2>3 DEF Follows
  <2> QED
    BY <1>4, <2>2, <2>3
<1>6. \A b \in 1..(l + 1) : (\A i \in Of(cs[b]) : i <= n) /\ Proper(cs[b])
  BY <1>1, <1>2, <1>3, <1>4 DEF Follows
<1>7. \A i \in Readable : i <= n => \E b \in 1..(l + 1) : i \in Of(cs[b])
  <2> SUFFICES ASSUME NEW i \in Readable, i <= n PROVE \E b \in 1..(l + 1) : i \in Of(cs[b])
    OBVIOUS
  <2>1. CASE i \in Of(block)
    BY <1>1, <1>2, <1>3, <2>1
  <2>2. CASE \E b \in 1..l : i \in Of(bs[b])
    BY <1>1, <1>2, <1>3, <2>2
  <2> QED
    BY <1>1, <2>1, <2>2 DEF Follows
<1> QED
  BY <1>2, <1>3, <1>5, <1>6, <1>7 DEF Follows

(* One line more in the paragraph that is open.                            *)
LEMMA LineMore ==
  ASSUME NEW bs \in Seq(ParsedBlock), NEW open \in SUBSET Nat, NEW n \in Nat, Follows(bs, open, n)
  PROVE  Follows(bs, open \cup {n + 1}, n + 1)
<1>1. Readable \subseteq Nat
  BY DEF Readable
<1>2. \A b \in 1..Len(bs) : Of(bs[b]) \subseteq Nat
  <2>1. \A b \in 1..Len(bs) : bs[b] \in ParsedBlock
    BY Element
  <2>2. \A b \in 1..Len(bs) : bs[b].lines \in Seq(Nat)
    BY <2>1 DEF ParsedBlock
  <2> QED
    BY <2>2 DEF Of, ToSet
<1>3. \A i \in Nat : (i <= n => i <= n + 1 /\ i < n + 1) /\ (i <= n + 1 => i <= n \/ i = n + 1)
  OBVIOUS
<1>4. \A b \in 1..Len(bs) : \A i \in Of(bs[b]) : i <= n + 1 /\ \A j \in open \cup {n + 1} : i < j
  BY <1>2, <1>3 DEF Follows
<1>5. \A j \in open \cup {n + 1} : j <= n + 1
  BY <1>3 DEF Follows
<1>6. \A i \in Readable : i <= n + 1 =>
        i \in open \cup {n + 1} \/ \E b \in 1..Len(bs) : i \in Of(bs[b])
  BY <1>1, <1>3 DEF Follows
<1> QED
  BY <1>4, <1>5, <1>6 DEF Follows

(* One line more that there is nothing to read in.                         *)
LEMMA LinePassed ==
  ASSUME NEW bs \in Seq(ParsedBlock), NEW n \in Nat, Follows(bs, {}, n), n + 1 \notin Readable
  PROVE  Follows(bs, {}, n + 1)
<1>1. Readable \subseteq Nat
  BY DEF Readable
<1>2. \A b \in 1..Len(bs) : Of(bs[b]) \subseteq Nat
  <2>1. \A b \in 1..Len(bs) : bs[b] \in ParsedBlock
    BY Element
  <2>2. \A b \in 1..Len(bs) : bs[b].lines \in Seq(Nat)
    BY <2>1 DEF ParsedBlock
  <2> QED
    BY <2>2 DEF Of, ToSet
<1>3. \A i \in Nat : (i <= n => i <= n + 1) /\ (i <= n + 1 => i <= n \/ i = n + 1)
  OBVIOUS
<1> QED
  BY <1>1, <1>2, <1>3 DEF Follows

(* Flushing the paragraph that is open leaves nothing out.                 *)
LEMMA ParagraphClosed ==
  ASSUME MadeInv, NEW n \in Nat, Follows(blocks, ToSet(buffer), n), Unbroken(ToSet(buffer), n),
         file.type \in {"DOCX", "PDF"} => buffer = <<>>
  PROVE  Follows(Closed, {}, n) /\ Closed \in Seq(ParsedBlock)
<1>1. Closed \in Seq(ParsedBlock) /\ blocks \in Seq(ParsedBlock)
  BY ClosedMade DEF MadeInv
<1>2. ToSet(buffer) \subseteq 1..Len(file.lines) /\ (buffer = <<>> => ToSet(buffer) = {})
  BY DEF MadeInv, ToSet
<1>3. file.type \in {"TXT", "MD", "DOCX", "PDF"}
  BY DEF MadeInv, File
<1>4. CASE \E i \in ToSet(buffer) : HasText(i)
  <2>0. PICK block : block = BlockOf(buffer, 0, 1)
    OBVIOUS
  <2>1. /\ Closed = Append(blocks, block)
        /\ block.lines = buffer /\ block.level = 0 /\ block.page = 1
    BY <1>4, <2>0 DEF Closed, BlockOf
  <2>2. Of(block) = ToSet(buffer)
    BY <2>1 DEF Of
  <2>3. file.type \in {"TXT", "MD"}
    BY <1>2, <1>3, <1>4
  <2>4. \A j \in ToSet(buffer) : j \in Nat /\ j <= n /\ ~Breaks(j)
    <3>1. \A j \in ToSet(buffer) : j \in Nat /\ j <= n /\ j \in j..n
      BY <1>2 DEF Follows
    <3> QED
      BY <3>1 DEF Unbroken
  <2>5. \A j \in ToSet(buffer) : ~IsHeading(j)
    <3> SUFFICES ASSUME NEW j \in ToSet(buffer) PROVE ~IsHeading(j)
      OBVIOUS
    <3>1. CASE file.type = "MD"
      BY <2>4, <3>1 DEF Breaks, IsHeading
    <3>2. CASE file.type = "TXT"
      <4>1. file.lines[j].kind \in Kinds("TXT")
        BY <1>2, <3>2, LinesOf DEF MadeInv
      <4> QED
        BY <4>1 DEF Kinds, IsHeading
    <3> QED
      BY <2>3, <3>1, <3>2
  <2>6. \A i, j \in ToSet(buffer) : i < j => \A k \in i..j : ~Breaks(k)
    <3> SUFFICES ASSUME NEW i \in ToSet(buffer), NEW j \in ToSet(buffer), i < j, NEW k \in i..j
                 PROVE  ~Breaks(k)
      OBVIOUS
    <3>1. k \in i..n
      BY <2>4
    <3> QED
      BY <3>1 DEF Unbroken
  <2>7. Proper(block)
    BY <2>1, <2>2, <2>3, <2>5, <2>6 DEF Proper
  <2> QED
    BY <1>1, <2>1, <2>2, <2>7, BlockMore
<1>5. CASE ~ \E i \in ToSet(buffer) : HasText(i)
  <2>1. Closed = blocks
    BY <1>5 DEF Closed
  <2>2. \A i \in Readable : HasText(i)
    BY DEF Readable
  <2> QED
    BY <1>1, <1>5, <2>1, <2>2 DEF Follows
<1> QED
  BY <1>4, <1>5

(* What a turn of a parser's loop is at.                                   *)
LEMMA TurnAt ==
  ASSUME MadeInv, NEW type, NEW last \in Nat, Turn(type, last), last <= Len(file.lines)
  PROVE  /\ file' = file /\ outcome' = outcome /\ outcome = "read" /\ file.type = type
         /\ at \in 1..Len(file.lines) /\ at <= last /\ at - 1 \in Nat /\ at' = at + 1
<1>1. Len(file.lines) \in Nat /\ at \in Nat \ {0}
  BY LinesOf DEF MadeInv
<1> QED
  BY <1>1 DEF Turn

(* How many pages are read.                                                *)
LEMMA PagesOf ==
  ASSUME file \in File
  PROVE  /\ PagesToScan \in Nat /\ PagesToScan <= Len(file.lines)
         /\ file.lines # <<>> => PagesToScan # 0
         /\ \A i \in 1..Len(file.lines) : i <= MaxPages => i <= PagesToScan
<1>1. PICK n \in Nat : n = Len(file.lines) /\ (file.lines # <<>> => n # 0)
  BY LinesOf
<1>2. MaxPages \in Nat \ {0} /\ MaxPages \in Int /\ n \in Int
  BY FilesAssumption
<1>3. PagesToScan = IF n <= MaxPages THEN n ELSE MaxPages
  BY <1>1, <1>2, MinOf DEF PagesToScan
<1> QED
  BY <1>1, <1>2, <1>3

(* The file stays what it is.                                              *)
LEMMA Reread ==
  ASSUME file' = file, NEW bs, NEW open, NEW n, Follows(bs, open, n), Unbroken(open, n),
         blocks' = bs, ToSet(buffer') = open, at' - 1 = n
  PROVE  Follows(blocks, ToSet(buffer), at - 1)' /\ Unbroken(ToSet(buffer), at - 1)'
<1>1. \A i : InCode(i)' <=> InCode(i)
  BY DEF InCode, Marks
<1>2. \A i : Breaks(i)' <=> Breaks(i)
  BY <1>1 DEF Breaks
<1>3. \A i : IsHeading(i)' <=> IsHeading(i)
  BY <1>1 DEF IsHeading
<1>4. Readable' = Readable
  BY DEF Readable, HasText
<1>5. \A block : Proper(block)' <=> Proper(block)
  BY <1>2, <1>3 DEF Proper, Of
<1>6. ToSet(buffer)' = ToSet(buffer')
  BY DEF ToSet
<1>7. Unbroken(ToSet(buffer), at - 1)'
  BY <1>2, <1>6 DEF Unbroken
<1>8. Follows(blocks, ToSet(buffer), at - 1)'
  BY <1>4, <1>5, <1>6 DEF Follows, Of
<1> QED
  BY <1>7, <1>8

(* One element more.                                                       *)
LEMMA ToSetMore ==
  ASSUME NEW S, NEW s \in Seq(S), NEW x
  PROVE  ToSet(Append(s, x)) = ToSet(s) \cup {x} /\ ToSet(s) \subseteq S /\ ToSet(<<>>) = {}
<1>1. PICK n \in Nat : n = Len(s) /\ DOMAIN s = 1..n
  OBVIOUS
<1>2. PICK t : t = Append(s, x)
  OBVIOUS
<1>3. DOMAIN t = 1..(n + 1) /\ t[n + 1] = x /\ \A i \in 1..n : t[i] = s[i]
  BY <1>1, <1>2
<1>4. \A i \in 1..(n + 1) : i \in 1..n \/ i = n + 1
  BY <1>1
<1>5. n + 1 \in 1..(n + 1) /\ \A i \in 1..n : i \in 1..(n + 1)
  BY <1>1
<1>6. ToSet(t) = ToSet(s) \cup {x}
  BY <1>1, <1>3, <1>4, <1>5 DEF ToSet
<1>7. ToSet(s) \subseteq S
  BY <1>1 DEF ToSet
<1>8. ToSet(<<>>) = {}
  BY DEF ToSet
<1> QED
  BY <1>2, <1>6, <1>7, <1>8

(* A line is kept in the paragraph that is open.                           *)
LEMMA KeepTurn ==
  ASSUME ParseInv, Keep, file' = file, at' = at + 1, ~Breaks(at)
  PROVE  Follows(blocks, ToSet(buffer), at - 1)' /\ Unbroken(ToSet(buffer), at - 1)'
<1>1. PICK n \in Nat : n = at - 1 /\ at = n + 1 /\ at' - 1 = n + 1
  BY DEF ParseInv, MadeInv
<1>2. PICK open \in SUBSET Nat : open = ToSet(buffer) /\ ToSet(buffer') = open \cup {n + 1}
  <2>1. PICK S : S = 1..Len(file.lines) /\ S \subseteq Nat /\ buffer \in Seq(S)
    BY DEF ParseInv, MadeInv
  <2>2. buffer' = Append(buffer, n + 1)
    BY <1>1 DEF Keep
  <2> QED
    BY <2>1, <2>2, ToSetMore
<1>3. Follows(blocks, open, n) /\ Unbroken(open, n) /\ blocks \in Seq(ParsedBlock) /\ blocks' = blocks
  BY <1>1, <1>2 DEF ParseInv, MadeInv, Keep
<1>4. Follows(blocks, open \cup {n + 1}, n + 1)
  BY <1>3, LineMore
<1>5. Unbroken(open \cup {n + 1}, n + 1)
  <2> SUFFICES ASSUME NEW j \in open \cup {n + 1}, NEW k \in j..(n + 1) PROVE ~Breaks(k)
    BY DEF Unbroken
  <2>1. k = n + 1 \/ (j \in open /\ k \in j..n)
    BY <1>2
  <2> QED
    BY <1>1, <1>3, <2>1 DEF Unbroken
<1> QED
  BY <1>1, <1>2, <1>3, <1>4, <1>5, Reread

(* The paragraph that is open ends before a line without text.             *)
LEMMA FlushTurn ==
  ASSUME ParseInv, Flush, file' = file, at' = at + 1, at \notin Readable
  PROVE  Follows(blocks, ToSet(buffer), at - 1)' /\ Unbroken(ToSet(buffer), at - 1)'
<1>1. PICK n \in Nat : n = at - 1 /\ at = n + 1 /\ at' - 1 = n + 1
  BY DEF ParseInv, MadeInv
<1>2. Follows(Closed, {}, n) /\ Closed \in Seq(ParsedBlock)
  BY <1>1, ParagraphClosed DEF ParseInv
<1>3. Follows(Closed, {}, n + 1)
  BY <1>1, <1>2, LinePassed
<1>4. blocks' = Closed /\ ToSet(buffer') = {}
  BY DEF Flush, ToSet
<1>5. Unbroken({}, n + 1)
  BY DEF Unbroken
<1> QED
  BY <1>1, <1>3, <1>4, <1>5, Reread

(* A line becomes a block of its own.                                      *)
LEMMA BlockTurn ==
  ASSUME MadeInv, NEW bs \in Seq(ParsedBlock), Follows(bs, {}, at - 1), NEW block,
         Of(block) = {at}, Proper(block), file' = file, at' = at + 1,
         blocks' = Append(bs, block), buffer' = <<>>
  PROVE  Follows(blocks, ToSet(buffer), at - 1)' /\ Unbroken(ToSet(buffer), at - 1)'
<1>1. PICK n \in Nat : n = at - 1 /\ at = n + 1 /\ at' - 1 = n + 1
  BY DEF MadeInv
<1>2. Follows(bs, {} \cup {n + 1}, n + 1)
  <2>1. {} \in SUBSET Nat
    OBVIOUS
  <2> QED
    BY <1>1, <2>1, LineMore
<1>3. Of(block) = {} \cup {n + 1}
  BY <1>1
<1>4. Follows(bs, Of(block), n + 1)
  BY <1>2, <1>3
<1>5. Follows(Append(bs, block), {}, n + 1)
  BY <1>4, BlockMore
<1>6. Unbroken({}, n + 1) /\ ToSet(buffer') = {}
  BY DEF Unbroken, ToSet
<1> QED
  BY <1>1, <1>5, <1>6, Reread

(* A block of one line.                                                    *)
LEMMA OneLine ==
  ASSUME NEW i, NEW level, NEW page, NEW block, block = BlockOf(<<i>>, level, page)
  PROVE  Of(block) = {i} /\ block.level = level /\ block.page = page
<1>1. block.lines = <<i>> /\ block.level = level /\ block.page = page
  BY DEF BlockOf
<1>2. ToSet(<<i>>) = {i}
  BY DEF ToSet
<1> QED
  BY <1>1, <1>2 DEF Of

(* A mark opens or closes code, and nothing else does.                     *)
LEMMA CodeTurn ==
  ASSUME MadeInv, file' = file, at' = at + 1
  PROVE  /\ at \in Marks => (InCode(at)' <=> ~InCode(at))
         /\ at \notin Marks => (InCode(at)' <=> InCode(at))
<1>1. PICK n \in Nat : n = at
  BY DEF MadeInv
<1>2. InCode(at)' <=> InCode(n + 1)
  BY <1>1 DEF InCode, Marks
<1> QED
  BY <1>1, <1>2, InCodeNext DEF MadeInv

(* Every turn of every parser's loop keeps the blocks to the lines.        *)
LEMMA ParseTurn ==
  ASSUME ParseInv, ParseNext
  PROVE  ParseInv'
<1> DEFINE Placed == Follows(blocks, ToSet(buffer), at - 1) /\ Unbroken(ToSet(buffer), at - 1)
<1>1. MadeInv /\ MadeInv'
  BY MadeTurn DEF ParseInv
<1>2. /\ file \in File /\ Len(file.lines) \in Nat /\ at \in Nat \ {0}
      /\ blocks \in Seq(ParsedBlock) /\ file.type \in {"TXT", "MD", "DOCX", "PDF"}
  BY <1>1, LinesOf DEF MadeInv, File
<1>3. ASSUME file' = file, file.type = "TXT", outcome' = "read", Placed'
      PROVE  ParseInv'
  BY <1>1, <1>3 DEF ParseInv
<1>4. ASSUME file' = file, file.type = "MD", outcome' = "read", Placed', (fenced' <=> InCode(at)')
      PROVE  ParseInv'
  BY <1>1, <1>4 DEF ParseInv
<1>5. ASSUME at \in 1..Len(file.lines)
      PROVE  /\ Kind \in Kinds(file.type) /\ (Kind \in {"blank", "spaces"} => ~HasText(at))
             /\ file.lines[at].level # 0 <=> Kind = "heading"
             /\ at \in Readable => HasText(at)
  BY <1>2, <1>5, LinesOf DEF Kind, Readable
<1>6. CASE Open
  <2>1. /\ UNCHANGED <<file, at, buffer, fenced, blocks, warnings>> /\ outcome' \in {"rejected", "read"}
    BY <1>6 DEF Open
  <2>2. InCode(at)' <=> InCode(at)
    BY <2>1 DEF InCode, Marks
  <2>3. Placed'
    BY <2>1, Reread DEF ParseInv
  <2> QED
    BY <1>1, <2>1, <2>2, <2>3 DEF ParseInv
<1>7. CASE TxtLine
  <2>1. /\ file' = file /\ outcome' = "read" /\ file.type = "TXT"
        /\ at \in 1..Len(file.lines) /\ at' = at + 1
    BY <1>1, <1>2, <1>7, TurnAt DEF TxtLine
  <2>2. CASE Kind = "blank"
    <3>1. Flush /\ at \notin Readable
      BY <1>5, <1>7, <2>1, <2>2 DEF TxtLine
    <3> QED
      BY <1>3, <2>1, <3>1, FlushTurn
  <2>3. CASE Kind # "blank"
    <3>1. Keep /\ ~Breaks(at)
      BY <1>7, <2>1, <2>3 DEF TxtLine, Breaks, Kind
    <3> QED
      BY <1>3, <2>1, <3>1, KeepTurn
  <2> QED
    BY <2>2, <2>3
<1>8. CASE MarkdownFence
  <2>1. /\ file' = file /\ outcome' = "read" /\ file.type = "MD"
        /\ at \in 1..Len(file.lines) /\ at' = at + 1
    BY <1>1, <1>2, <1>8, TurnAt DEF MarkdownFence
  <2>2. Keep /\ ~Breaks(at) /\ at \in Marks
    BY <1>8, <2>1 DEF MarkdownFence, Breaks, Kind, Marks
  <2>3. InCode(at)' <=> ~InCode(at)
    BY <1>1, <2>1, <2>2, CodeTurn
  <2>4. fenced' = ~fenced /\ (fenced <=> InCode(at))
    BY <1>8, <2>1 DEF MarkdownFence, ParseInv
  <2>5. (fenced' <=> InCode(at)')
    BY <2>3, <2>4
  <2> QED
    BY <1>4, <2>1, <2>2, <2>5, KeepTurn
<1>9. CASE MarkdownLine
  <2>1. /\ file' = file /\ outcome' = "read" /\ file.type = "MD"
        /\ at \in 1..Len(file.lines) /\ at' = at + 1
    BY <1>1, <1>2, <1>9, TurnAt DEF MarkdownLine
  <2>2. at \notin Marks
    BY <1>9 DEF MarkdownLine, Marks, Kind
  <2>3. InCode(at)' <=> InCode(at)
    BY <1>1, <2>1, <2>2, CodeTurn
  <2>4. fenced' = fenced /\ (fenced <=> InCode(at))
    BY <1>9, <2>1 DEF MarkdownLine, ParseInv
  <2>5. (fenced' <=> InCode(at)')
    BY <2>3, <2>4
  <2>6. CASE ~fenced /\ Kind = "heading"
    <3>1. PICK block : block = BlockOf(<<at>>, file.lines[at].level, 1)
      OBVIOUS
    <3>2. blocks' = Append(Closed, block) /\ buffer' = <<>>
      BY <1>9, <2>6, <3>1 DEF MarkdownLine
    <3>3. Of(block) = {at} /\ block.level = file.lines[at].level /\ block.page = 1
      BY <3>1, OneLine
    <3>4. block.level # 0 /\ IsHeading(at)
      BY <1>5, <2>1, <2>4, <2>6, <3>3 DEF IsHeading, Kind
    <3>5. ~(at < at)
      BY <1>2
    <3>6. Proper(block)
      BY <2>1, <3>3, <3>4, <3>5 DEF Proper
    <3>7. Follows(Closed, {}, at - 1) /\ Closed \in Seq(ParsedBlock)
      <4>1. at - 1 \in Nat
        BY <1>2
      <4> QED
        BY <4>1, ParagraphClosed DEF ParseInv
    <3> QED
      BY <1>1, <1>4, <2>1, <2>5, <3>2, <3>3, <3>6, <3>7, BlockTurn
  <2>7. CASE ~fenced /\ Kind \in {"blank", "spaces"}
    <3>1. Flush /\ at \notin Readable
      BY <1>5, <1>9, <2>1, <2>7 DEF MarkdownLine
    <3> QED
      BY <1>4, <2>1, <2>5, <3>1, FlushTurn
  <2>8. CASE fenced \/ Kind \notin {"heading", "blank", "spaces"}
    <3>1. Keep
      BY <1>9, <2>8 DEF MarkdownLine
    <3>2. ~Breaks(at)
      BY <2>1, <2>4, <2>8 DEF Breaks, Kind
    <3> QED
      BY <1>4, <2>1, <2>5, <3>1, <3>2, KeepTurn
  <2> QED
    BY <2>6, <2>7, <2>8
<1>10. ASSUME at \in 1..Len(file.lines), file' = file, at' = at + 1, buffer' = buffer, outcome' = "read",
              file.type \in {"DOCX", "PDF"}, NEW level, NEW page,
              \/ /\ blocks' = Append(blocks, BlockOf(<<at>>, level, page))
                 /\ level # 0 <=> Kind = "heading"
                 /\ page = IF file.type = "PDF" THEN at ELSE 1
              \/ blocks' = blocks /\ at \notin Readable
       PROVE  Placed' /\ buffer' = <<>>
  <2>1. buffer = <<>> /\ buffer' = <<>> /\ ToSet(buffer) = {} /\ ToSet(buffer') = {}
    BY <1>10 DEF ParseInv, ToSet
  <2>2. Follows(blocks, {}, at - 1)
    BY <2>1 DEF ParseInv
  <2>3. CASE blocks' = blocks /\ at \notin Readable
    <3>1. PICK n \in Nat : n = at - 1 /\ at = n + 1 /\ at' - 1 = n + 1
      BY <1>2, <1>10
    <3>2. Follows(blocks, {}, n + 1) /\ Unbroken({}, n + 1)
      BY <1>2, <2>2, <2>3, <3>1, LinePassed DEF Unbroken
    <3> QED
      BY <1>10, <2>1, <2>3, <3>1, <3>2, Reread
  <2>4. CASE /\ blocks' = Append(blocks, BlockOf(<<at>>, level, page))
             /\ level # 0 <=> Kind = "heading"
             /\ page = IF file.type = "PDF" THEN at ELSE 1
    <3>1. PICK block : block = BlockOf(<<at>>, level, page)
      OBVIOUS
    <3>2. Of(block) = {at} /\ block.level = level /\ block.page = page
      BY <3>1, OneLine
    <3>3. level # 0 <=> IsHeading(at)
      BY <1>10, <2>4 DEF IsHeading, Kind
    <3>4. ~(at < at)
      BY <1>2
    <3>5. Proper(block)
      BY <1>10, <2>4, <3>2, <3>3, <3>4 DEF Proper
    <3> QED
      BY <1>1, <1>2, <1>10, <2>1, <2>2, <2>4, <3>1, <3>2, <3>5, BlockTurn
  <2> QED
    BY <1>10, <2>1, <2>3, <2>4
<1>11. CASE DocxElement
  <2>1. /\ file' = file /\ outcome' = "read" /\ file.type = "DOCX"
        /\ at \in 1..Len(file.lines) /\ at' = at + 1 /\ buffer' = buffer
    BY <1>1, <1>2, <1>11, TurnAt DEF DocxElement
  <2>2. CASE Kind \in {"heading", "text"} /\ HasText(at)
    <3>1. blocks' = Append(blocks, BlockOf(<<at>>, file.lines[at].level, 1))
      BY <1>11, <2>2 DEF DocxElement
    <3>2. Placed' /\ buffer' = <<>>
      BY <1>5, <1>10, <2>1, <3>1
    <3> QED
      BY <1>1, <2>1, <3>2 DEF ParseInv
  <2>3. CASE ~(Kind \in {"heading", "text"} /\ HasText(at))
    <3>1. blocks' = blocks
      BY <1>11, <2>3 DEF DocxElement
    <3>2. at \notin Readable
      BY <1>5, <2>1, <2>3 DEF Readable, Kinds, Kind
    <3>3. Placed' /\ buffer' = <<>>
      BY <1>10, <2>1, <3>1, <3>2
    <3> QED
      BY <1>1, <2>1, <3>3 DEF ParseInv
  <2> QED
    BY <2>2, <2>3
<1>12. CASE PdfPage
  <2>1. PagesToScan \in Nat /\ PagesToScan <= Len(file.lines)
    BY <1>2, PagesOf
  <2>2. /\ file' = file /\ outcome' = "read" /\ file.type = "PDF"
        /\ at \in 1..Len(file.lines) /\ at' = at + 1 /\ buffer' = buffer
    BY <1>1, <1>12, <2>1, TurnAt DEF PdfPage
  <2>3. CASE HasText(at)
    <3>1. blocks' = Append(blocks, BlockOf(<<at>>, 0, at))
      BY <1>12, <2>3 DEF PdfPage
    <3>2. Kind # "heading"
      BY <1>5, <2>2 DEF Kinds
    <3>3. Placed' /\ buffer' = <<>>
      BY <1>10, <2>2, <3>1, <3>2
    <3>4. blocks' # <<>>
      BY <1>2, <3>1
    <3> QED
      BY <1>1, <2>2, <3>3, <3>4 DEF ParseInv
  <2>4. CASE ~HasText(at)
    <3>1. blocks' = blocks /\ at \notin Readable
      BY <1>5, <1>12, <2>2, <2>4 DEF PdfPage
    <3>2. Placed' /\ buffer' = <<>>
      BY <1>10, <2>2, <3>1
    <3>3. Kind \in {"low", "blank"}
      <4>1. Kind # "text"
        BY <1>2, <2>2, <2>4 DEF File, HasText, Kind
      <4> QED
        BY <1>5, <2>2, <4>1 DEF Kinds
    <3>4. warnings' # {}
      BY <1>12, <3>3 DEF PdfPage
    <3> QED
      BY <1>1, <2>2, <3>2, <3>4 DEF ParseInv
  <2> QED
    BY <2>3, <2>4
<1>13. CASE EndOfFile
  <2>1. /\ file' = file /\ at' = at /\ fenced' = fenced /\ blocks' = Closed /\ buffer' = <<>>
        /\ at > LastLine /\ warnings \subseteq warnings'
        /\ file.type # "PDF" /\ Closed = <<>> => warnings' # {}
    BY <1>13 DEF EndOfFile, Flush, LastLine
  <2>2. InCode(at)' <=> InCode(at)
    BY <2>1 DEF InCode, Marks
  <2>3. LastLine' = LastLine
    BY <2>1 DEF LastLine, PagesToScan
  <2>4. Placed'
    <3>1. at - 1 \in Nat
      BY <1>2
    <3>2. Follows(Closed, {}, at - 1) /\ Unbroken({}, at - 1) /\ ToSet(buffer') = {}
      BY <2>1, <3>1, ParagraphClosed DEF ParseInv, Unbroken, ToSet
    <3> QED
      BY <2>1, <3>2, Reread
  <2>5. ASSUME file.type = "PDF", blocks' = <<>> PROVE warnings' # {}
    <3>1. buffer = <<>> /\ ToSet(buffer) = {}
      BY <2>5 DEF ParseInv, ToSet
    <3>2. Closed = blocks
      BY <3>1 DEF Closed
    <3>3. PagesToScan \in Nat \ {0} /\ at > PagesToScan
      <4>1. file.lines # <<>>
        BY <1>2, <2>5 DEF File
      <4> QED
        BY <1>2, <2>1, <2>5, <4>1, PagesOf DEF LastLine
    <3>4. at > 1
      BY <1>2, <3>3
    <3> QED
      BY <2>1, <2>5, <3>2, <3>4 DEF ParseInv
  <2> QED
    BY <1>1, <2>1, <2>2, <2>3, <2>4, <2>5 DEF ParseInv
<1> QED
  BY <1>6, <1>7, <1>8, <1>9, <1>11, <1>12, <1>13 DEF ParseNext

(* What the parser keeps to is what it promises of a parsed file.          *)
LEMMA BlocksFollow == ParseInv => BlocksFollowFile
<1> SUFFICES ASSUME ParseInv, outcome = "parsed" PROVE BlocksFollowFile
  BY DEF BlocksFollowFile
<1> DEFINE of(b) == ToSet(blocks[b].lines)
<1>1. /\ file \in File /\ Len(file.lines) \in Nat /\ at \in Nat \ {0}
      /\ blocks \in Seq(ParsedBlock) /\ ToSet(buffer) = {} /\ at > LastLine
  BY LinesOf DEF ParseInv, MadeInv, ToSet
<1>2. Follows(blocks, {}, at - 1) /\ (blocks = <<>> => warnings # {})
  BY <1>1 DEF ParseInv
<1>3. PICK l \in Nat : l = Len(blocks)
  BY <1>1
<1>4. \A b, c \in 1..l : b < c => \A i \in of(b), j \in of(c) : i < j
  BY <1>2, <1>3 DEF Follows, Of
<1>5. \A b \in 1..l : of(b) \subseteq Nat /\ blocks[b].page \in Nat
  <2>1. \A b \in 1..l : blocks[b] \in ParsedBlock
    BY <1>1, <1>3, Element
  <2>2. \A b \in 1..l : blocks[b].lines \in Seq(Nat) /\ blocks[b].page \in Nat
    BY <2>1 DEF ParsedBlock
  <2> QED
    BY <2>2 DEF ToSet
<1>6. ASSUME NEW i \in Readable
      PROVE  Cardinality({b \in 1..l : i \in of(b)}) = 1
  <2>1. i \in 1..Len(file.lines) /\ (file.type = "PDF" => i <= MaxPages)
    BY DEF Readable
  <2>2. i <= at - 1
    <3>1. CASE file.type = "PDF"
      <4>1. PagesToScan \in Nat /\ i <= PagesToScan /\ at > PagesToScan
        BY <1>1, <2>1, <3>1, PagesOf DEF LastLine
      <4> QED
        BY <1>1, <2>1, <4>1
    <3>2. CASE file.type # "PDF"
      BY <1>1, <2>1, <3>2 DEF LastLine
    <3> QED
      BY <3>1, <3>2
  <2>3. PICK b \in 1..l : i \in of(b)
    BY <1>2, <1>3, <2>2 DEF Follows, Of
  <2>4. ASSUME NEW c \in 1..l, i \in of(c) PROVE c = b
    <3>1. ~(i < i)
      BY <2>1
    <3>2. ~(b < c) /\ ~(c < b)
      BY <1>4, <2>3, <2>4, <3>1
    <3> QED
      BY <3>2
  <2>5. {c \in 1..l : i \in of(c)} = {b}
    BY <2>3, <2>4
  <2> QED
    BY <2>5, FS_Singleton
<1>7. ASSUME NEW b \in 1..l
      PROVE  /\ \A i, j \in of(b) : i < j => \A k \in i..j : ~Breaks(k)
             /\ blocks[b].level # 0 <=> \E i \in of(b) :
                  file.lines[i].kind = "heading" /\ (file.type = "MD" => ~InCode(i))
             /\ blocks[b].page = IF file.type = "PDF" THEN Min(of(b)) ELSE 1
  <2>1. Proper(blocks[b]) /\ of(b) = Of(blocks[b])
    BY <1>2, <1>3 DEF Follows, Of
  <2>2. ASSUME file.type = "PDF" PROVE Min(of(b)) = blocks[b].page
    <3>1. PICK page \in Int : page = blocks[b].page
      BY <1>5
    <3>2. of(b) = {page, page}
      BY <2>1, <2>2, <3>1 DEF Proper
    <3> QED
      BY <3>1, <3>2, MinOf
  <2> QED
    BY <2>1, <2>2 DEF Proper, IsHeading
<1> QED
  BY <1>2, <1>3, <1>4, <1>6, <1>7 DEF BlocksFollowFile

(* Parsing over, nothing is left of the file.                              *)
FileInv == IF phase = "parse" THEN ParseInv ELSE outcome = "chunking"

(* Before the first line.                                                  *)
LEMMA FileStart == Init => FileInv
<1> SUFFICES ASSUME Init PROVE ParseInv
  BY DEF Init, FileInv
<1>1. MadeInv
  BY CutStart DEF CutInv, Init
<1>2. file \in File /\ at = 1 /\ buffer = <<>> /\ fenced = FALSE /\ blocks = <<>> /\ outcome = "sniff"
  BY FilesAssumption DEF Init, ParseInit
<1>3. \A i \in Readable : i \in Nat \ {0}
  BY DEF Readable
<1>4. ToSet(buffer) = {} /\ Len(blocks) = 0
  BY <1>2 DEF ToSet
<1>5. Follows(blocks, ToSet(buffer), at - 1) /\ Unbroken(ToSet(buffer), at - 1)
  BY <1>2, <1>3, <1>4 DEF Follows, Unbroken
<1>6. ~InCode(at)
  <2>1. {m \in Marks : m < at} = {}
    BY <1>2 DEF Marks
  <2>2. Cardinality({m \in Marks : m < at}) = 0
    BY <2>1, FS_EmptySet
  <2> QED
    BY <2>2 DEF InCode
<1> QED
  BY <1>1, <1>2, <1>5, <1>6 DEF ParseInv

(* What comes after the parser leaves the file alone.                      *)
LEMMA FileTurn ==
  ASSUME FileInv, [Next]_allVars
  PROVE  FileInv'
<1>1. ASSUME UNCHANGED <<parseVars, phase>> PROVE FileInv'
  <2>1. UNCHANGED <<file, at, buffer, fenced, blocks, warnings, outcome, phase>>
    BY <1>1 DEF parseVars
  <2>2. (InCode(at)' <=> InCode(at)) /\ LastLine' = LastLine
    BY <2>1 DEF InCode, Marks, LastLine, PagesToScan
  <2>3. MadeInv' <=> MadeInv
    BY <2>1 DEF MadeInv, Made, HasText
  <2>4. ASSUME ParseInv PROVE ParseInv'
    <3>1. Follows(blocks, ToSet(buffer), at - 1)' /\ Unbroken(ToSet(buffer), at - 1)'
      BY <2>1, <2>4, Reread DEF ParseInv
    <3> QED
      BY <2>1, <2>2, <2>3, <2>4, <3>1 DEF ParseInv
  <2> QED
    BY <2>1, <2>4 DEF FileInv
<1>2. CASE Parse
  BY <1>2, ParseTurn DEF Parse, FileInv
<1>3. CASE StartChunking
  BY <1>3 DEF StartChunking, FileInv
<1>4. ASSUME UNCHANGED parseVars, phase # "parse", phase' # "parse" PROVE FileInv'
  BY <1>4 DEF FileInv, parseVars
<1>5. CASE \/ Index \/ StartEmbedding \/ Embed \/ AskQuestion \/ EmbedQuestion
           \/ QuestionFails \/ Retrieve \/ Gate
  BY <1>4, <1>5 DEF Index, StartEmbedding, Embed, AskQuestion, EmbedQuestion, QuestionFails, Retrieve, Gate
<1>6. CASE AddSource \/ AddTruncatedSource \/ Assembled \/ Generate \/ GenerationFails
  BY <1>4, <1>6 DEF AddSource, AddTruncatedSource, Assembled, Generate, GenerationFails
<1>7. CASE UNCHANGED allVars
  BY <1>1, <1>7 DEF allVars
<1> QED
  BY <1>2, <1>3, <1>5, <1>6, <1>7 DEF Next

(* Whatever the lines of a file are, its blocks hold each line that can be *)
(* read once, in order and on its page, no paragraph runs across a break,  *)
(* a heading in code is none, and a file without text is warned of.        *)
THEOREM BlocksOfFiles == Spec => []BlocksFollowFile
<1>1. FileInv => BlocksFollowFile
  BY BlocksFollow DEF FileInv, BlocksFollowFile
<1>2. FileInv /\ [Next]_allVars => FileInv'
  BY FileTurn
<1> QED
  BY <1>1, <1>2, FileStart, PTL DEF Spec

-----------------------------------------------------------------------------
(* A batch is the first of what is pending, a request the next of a batch. *)
LEMMA BatchOf ==
  ASSUME NEW texts \in Seq(Int), pending = texts
  PROVE  \E b \in 0..Len(texts) :
           /\ Batch \in Seq(Int) /\ Len(Batch) = b /\ \A i \in 1..b : Batch[i] = texts[i]
           /\ b = IF EmbedBatchSize <= Len(texts) THEN EmbedBatchSize ELSE Len(texts)
<1>1. EmbedBatchSize \in Nat \ {0} /\ EmbedBatchSize \in Int /\ Len(texts) \in Int /\ Len(texts) \in Nat
  BY EmbeddingAssumption
<1>2. PICK b \in 0..Len(texts) : b = IF EmbedBatchSize <= Len(texts) THEN EmbedBatchSize ELSE Len(texts)
  BY <1>1
<1>3. Min({EmbedBatchSize, Len(texts)}) = b
  BY <1>1, <1>2, MinOf
<1>4. Batch = SubSeq(texts, 1, b)
  BY <1>3 DEF Batch
<1>5. \A s \in Seq(Int) : \A m \in 0..Len(s) :
        /\ SubSeq(s, 1, m) \in Seq(Int) /\ Len(SubSeq(s, 1, m)) = m
        /\ \A i \in 1..m : SubSeq(s, 1, m)[i] = s[i]
  OBVIOUS
<1> QED
  BY <1>2, <1>4, <1>5

(* A request is the next texts of its batch, and some.                     *)
LEMMA RequestOf ==
  ASSUME Batch \in Seq(Int), asked \in Nat, asked < Len(Batch)
  PROVE  \E r \in Nat \ {0} :
           /\ asked + r <= Len(Batch) /\ Len(Request) = r
           /\ \A i \in 1..r : Request[i] = Batch[asked + i]
<1>1. PICK batch \in Seq(Int), n \in Nat : batch = Batch /\ n = Len(batch)
  OBVIOUS
<1>2. ProviderBatchSize \in Nat \ {0} /\ asked + ProviderBatchSize \in Int /\ n \in Int
  BY <1>1, EmbeddingAssumption
<1>3. PICK m \in Nat : m = (IF asked + ProviderBatchSize <= n THEN asked + ProviderBatchSize ELSE n)
                     /\ asked < m /\ m <= n
  BY <1>1, <1>2
<1>4. Min({asked + ProviderBatchSize, n}) = m
  BY <1>2, <1>3, MinOf
<1>5. Request = SubSeq(batch, asked + 1, m)
  BY <1>1, <1>4 DEF Request
<1>6. m - asked \in Nat \ {0} /\ asked + (m - asked) <= n
  BY <1>3
<1>7. /\ Len(SubSeq(batch, asked + 1, m)) = m - asked
      /\ \A i \in 1..(m - asked) : SubSeq(batch, asked + 1, m)[i] = batch[asked + i]
  BY <1>1, <1>3
<1> QED
  BY <1>1, <1>5, <1>6, <1>7

(* The provider's vectors are added to those of the batch's texts before.  *)
LEMMA AnswersAsked ==
  ASSUME AskedInv, Batch \in Seq(Int), ProviderAnswers
  PROVE  AskedInv'
<1>1. /\ asked \in Nat /\ asked < Len(Batch) /\ asked <= Len(Batch)
      /\ got \in Seq(Int) /\ Len(got) <= asked /\ Len(Batch) \in Nat
  BY DEF AskedInv, ProviderAnswers, Asking
<1>2. PICK r \in Nat \ {0} : /\ asked + r <= Len(Batch) /\ Len(Request) = r
                             /\ \A i \in 1..r : Request[i] = Batch[asked + i]
  BY <1>1, RequestOf
<1>3. PICK data \in Replies : got' = got \o InOrder(data)
  BY DEF ProviderAnswers
<1>4. PICK texts, Indexed :
        /\ texts = Request /\ \A i \in 1..r : texts[i] \in Int
        /\ \A x \in Indexed : x.index \in 1..r /\ x = [index |-> x.index, text |-> texts[x.index]]
        /\ data \in SetToAllKPermutations(Indexed)
  <2>1. \A i \in 1..r : Request[i] \in Int
    BY <1>1, <1>2
  <2> QED
    BY <1>2, <1>3, <2>1 DEF Replies
<1>5. PICK m \in 0..r : /\ InOrder(data) \in Seq(Int) /\ Len(InOrder(data)) = m
                        /\ m = r => \A i \in 1..r : InOrder(data)[i] = texts[i]
  <2>1. PICK T : T = Int
    OBVIOUS
  <2>4. PICK q \in Nat : q = r
    OBVIOUS
  <2>2. /\ \A i \in 1..q : texts[i] \in T
        /\ \A x \in Indexed : x.index \in 1..q /\ x = [index |-> x.index, text |-> texts[x.index]]
    BY <1>4, <2>1, <2>4
  <2>3. \E m \in 0..q : /\ InOrder(data) \in Seq(T) /\ Len(InOrder(data)) = m
                        /\ m = q => \A i \in 1..q : InOrder(data)[i] = texts[i]
    BY ONLY <1>4, <2>2, <2>4, InOrderOf
  <2> QED
    BY <2>1, <2>3, <2>4
<1>6. PICK more \in Seq(Int) : more = InOrder(data) /\ Len(more) = m
  BY <1>5
<1>7. asked' = asked + r /\ Batch' = Batch /\ got' = got \o more
  BY <1>2, <1>3, <1>6 DEF ProviderAnswers, Batch
<1>8. PICK old \in Seq(Int), n \in Nat : old = got /\ n = Len(old) /\ n <= asked
  BY <1>1
<1>9. /\ got' \in Seq(Int) /\ Len(got') = n + m
      /\ \A i \in 1..n : got'[i] = old[i]
      /\ \A i \in 1..m : got'[n + i] = more[i]
  <2>1. /\ old \o more \in Seq(Int) /\ Len(old \o more) = n + m
        /\ \A i \in 1..n : (old \o more)[i] = old[i]
        /\ \A i \in 1..m : (old \o more)[n + i] = more[i]
    <3>1. PICK T : T = Int
      OBVIOUS
    <3>2. old \in Seq(T) /\ more \in Seq(T)
      BY <3>1
    <3>3. /\ old \o more \in Seq(T) /\ Len(old \o more) = Len(old) + Len(more)
          /\ \A i \in 1..Len(old) : (old \o more)[i] = old[i]
          /\ \A i \in 1..Len(more) : (old \o more)[Len(old) + i] = more[i]
      BY ONLY <3>2, Joined
    <3> QED
      BY <1>6, <1>8, <3>1, <3>3
  <2> QED
    BY <1>7, <1>8, <2>1
<1>10. ASSUME n + m = asked + r, NEW i \in 1..(asked + r)
       PROVE  got'[i] = Batch[i]
  <2>1. n = asked /\ m = r
    BY <1>1, <1>2, <1>5, <1>8, <1>10
  <2>2. CASE i <= asked
    <3>1. i \in 1..asked /\ i \in 1..n
      BY <1>1, <1>10, <2>1, <2>2
    <3>2. got[i] = Batch[i]
      BY <1>8, <2>1, <3>1 DEF AskedInv
    <3> QED
      BY <1>8, <1>9, <3>1, <3>2
  <2>3. CASE i > asked
    <3>1. PICK j \in 1..r : i = asked + j
      <4>1. i - asked \in 1..r /\ i = asked + (i - asked)
        BY <1>1, <1>10, <2>3
      <4> QED
        BY <4>1
    <3> QED
      BY <1>2, <1>4, <1>5, <1>6, <1>9, <2>1, <3>1
  <2> QED
    BY <1>1, <2>2, <2>3
<1>11. asked + r \in 0..Len(Batch) /\ n + m <= asked + r
  BY <1>1, <1>2, <1>5, <1>8
<1> QED
  BY <1>7, <1>9, <1>10, <1>11 DEF AskedInv

(* Before the first run nothing has a vector.                              *)
LEMMA VectorsStart == Init => VectorsInv
<1> SUFFICES ASSUME Init PROVE VectorsInv
  OBVIOUS
<1>1. /\ vec = <<>> /\ query = NoVector /\ task = "none" /\ phase = "parse" /\ chunks = <<>>
  BY DEF Init, EmbedInit, ChunkInit, ChunkFrom
<1>2. Embedded(0) /\ 0 \in 0..Len(chunks)
  BY <1>1 DEF Embedded
<1> QED
  BY <1>1, <1>2 DEF VectorsInv

(* What a batch is made of, now and when a question or a run begins.       *)
Batches == \A texts \in Seq(Int) : pending = texts => Batch \in Seq(Int)
(* They are numbers.                                                       *)
LEMMA BatchesAre == Batches
BY BatchOf DEF Batches
(* And in the next state.                                                  *)
LEMMA BatchesNext == Batches'
BY BatchesAre, PTL

(* A run, or a question, begins with no text asked for.                    *)
LEMMA AskedAfresh ==
  ASSUME NEW texts \in Seq(Int), pending' = texts, Afresh
  PROVE  AskedInv'
<1>1. asked' = 0 /\ got' = <<>>
  BY DEF Afresh
<1>2. Batch' \in Seq(Int)
  BY BatchesNext DEF Batches
<1>3. Len(Batch') \in Nat /\ Len(got') = 0 /\ got' \in Seq(Int)
  BY <1>1, <1>2
<1> QED
  BY <1>1, <1>3 DEF AskedInv

(* What is pending, and the batch.                                         *)
LEMMA PendingOf ==
  ASSUME CutInv, VectorsInv, task # "none"
  PROVE  /\ pending \in Seq(Int) /\ Batch \in Seq(Int) /\ AskedInv
         /\ Len(Batch) \in 0..Len(pending) /\ \A i \in 1..Len(Batch) : Batch[i] = pending[i]
         /\ pending # <<>> => Len(Batch) # 0
<1>1. pending \in Seq(Int)
  <2>1. CASE task = "corpus"
    <3>1. pending \in Seq(Nat)
      BY <2>1 DEF VectorsInv, Embedded
    <3> QED
      BY <3>1
  <2>2. CASE task = "question"
    <3>1. pending = <<0>>
      BY <2>2 DEF VectorsInv, Question
    <3> QED
      BY <3>1
  <2> QED
    BY <2>1, <2>2 DEF VectorsInv
<1>2. PICK b \in 0..Len(pending) :
        /\ Batch \in Seq(Int) /\ Len(Batch) = b /\ \A i \in 1..b : Batch[i] = pending[i]
        /\ b = IF EmbedBatchSize <= Len(pending) THEN EmbedBatchSize ELSE Len(pending)
  BY <1>1, BatchOf
<1>3. pending # <<>> => b # 0
  BY <1>1, <1>2, EmbeddingAssumption
<1> QED
  BY <1>1, <1>2, <1>3 DEF VectorsInv

(* The calls of a run and those of a question.                             *)
LEMMA CallTurn ==
  ASSUME CutInv, VectorsInv, ProviderAnswers \/ \E e \in Errors : ProviderFails(e),
         UNCHANGED <<chunks, phase>>
  PROVE  VectorsInv'
<1>1. task # "none" /\ UNCHANGED <<vec, query>>
  BY DEF ProviderAnswers, ProviderFails, Asking
<1>2. CASE ProviderAnswers
  <2>1. AskedInv' /\ UNCHANGED <<task, pending>>
    BY <1>1, <1>2, PendingOf, AnswersAsked DEF ProviderAnswers
  <2> QED
    BY <1>1, <2>1 DEF VectorsInv, Embedded
<1>3. CASE \E e \in Errors : ProviderFails(e)
  <2>1. CASE Afresh /\ UNCHANGED <<task, pending>>
    <3>1. AskedInv'
      BY <1>1, <2>1, PendingOf, AskedAfresh
    <3> QED
      BY <1>1, <2>1, <3>1 DEF VectorsInv, Embedded
  <2>2. CASE End
    BY <1>1, <2>2 DEF End, Begin, VectorsInv, Embedded
  <2> QED
    BY <1>3, <2>1, <2>2 DEF ProviderFails
<1> QED
  BY <1>2, <1>3

(* A batch with a vector for each text is stored with them.                *)
LEMMA StoreTurn ==
  ASSUME CutInv, VectorsInv, StoreBatch, UNCHANGED <<chunks, phase>>
  PROVE  VectorsInv'
<1>1. task = "corpus" /\ asked = Len(Batch) /\ Len(got) = Len(Batch) /\ UNCHANGED <<query, run>>
  BY DEF StoreBatch, Answered
<1>0. PICK n \in Nat : n = Len(chunks)
  BY Known DEF CutInv
<1>2. PICK k \in 0..n : Embedded(k)
  BY <1>0 DEF VectorsInv
<1>3. PICK texts \in Seq(Int), m \in Nat :
        /\ texts = pending /\ m = Len(texts) /\ m = n - k
        /\ \A i \in 1..m : texts[i] = k + i
  <2>1. pending \in Seq(Int) /\ Len(pending) = n - k /\ \A i \in 1..(n - k) : pending[i] = k + i
    BY <1>0, <1>1, <1>2, PendingOf DEF Embedded
  <2> QED
    BY <1>2, <2>1
<1>4. PICK batch \in Seq(Int), b \in 0..m : batch = Batch /\ b = Len(batch) /\ \A i \in 1..b : batch[i] = k + i
  <2>1. Batch \in Seq(Int) /\ Len(Batch) \in 0..m /\ \A i \in 1..Len(Batch) : Batch[i] = k + i
    BY <1>1, <1>3, PendingOf
  <2> QED
    BY <2>1
<1>5. \A i \in 1..b : got[i] = k + i
  BY <1>1, <1>4, PendingOf DEF AskedInv
<1>6. ToSet(Batch) = (k + 1)..(k + b)
  <2>1. ToSet(Batch) = {batch[i] : i \in 1..b}
    <3>1. ToSet(batch) = {batch[i] : i \in DOMAIN batch}
      BY Zenon DEF ToSet
    <3>2. DOMAIN batch = 1..b
      BY <1>4
    <3>3. ToSet(Batch) = ToSet(batch)
      BY <1>4, Zenon
    <3> QED
      BY <3>1, <3>2, <3>3, Zenon
  <2>2. \A i \in 1..b : batch[i] \in (k + 1)..(k + b)
    BY <1>4
  <2>3. ASSUME NEW c \in (k + 1)..(k + b) PROVE \E i \in 1..b : batch[i] = c
    <3>1. PICK i \in 1..b : i = c - k /\ k + i = c
      OBVIOUS
    <3> QED
      BY <1>4, <3>1
  <2> QED
    BY <2>1, <2>2, <2>3
<1>7. \A c \in (k + 1)..(k + b) : got[CHOOSE i \in 1..Len(Batch) : Batch[i] = c] = c
  <2> SUFFICES ASSUME NEW c \in (k + 1)..(k + b)
               PROVE  got[CHOOSE i \in 1..Len(Batch) : Batch[i] = c] = c
    OBVIOUS
  <2>1. c - k \in 1..b /\ batch[c - k] = c
    <3>1. PICK i \in 1..b : i = c - k /\ k + i = c
      OBVIOUS
    <3> QED
      BY <1>4, <3>1
  <2>2. PICK i : i = (CHOOSE j \in 1..b : batch[j] = c)
    OBVIOUS
  <2>3. i \in 1..b /\ batch[i] = c
    BY <2>1, <2>2
  <2> QED
    BY <1>4, <1>5, <2>2, <2>3
<1>8. k + b \in 0..n /\ 1..(k + b) = (1..k) \cup ((k + 1)..(k + b))
  BY <1>2, <1>3, <1>4
<1>9. DOMAIN vec' = 1..(k + b) /\ \A c \in 1..(k + b) : vec'[c] = c
  <2>1. /\ DOMAIN vec' = DOMAIN vec \cup ToSet(Batch)
        /\ \A c \in DOMAIN vec \cup ToSet(Batch) :
             vec'[c] = IF c \in ToSet(Batch) THEN got[CHOOSE i \in 1..Len(Batch) : Batch[i] = c] ELSE vec[c]
    BY DEF StoreBatch
  <2> QED
    BY <1>2, <1>6, <1>7, <1>8, <2>1 DEF Embedded
<1>10. PICK rest : rest = SubSeq(pending, Len(Batch) + 1, Len(pending)) /\ (rest = <<>> => End)
                   /\ (rest # <<>> => Begin("corpus", rest))
  BY DEF StoreBatch
<1>11. rest = SubSeq(texts, b + 1, m)
  BY <1>3, <1>4, <1>10
<1>12. rest \in Seq(Int) /\ rest \in Seq(Nat) /\ Len(rest) = n - (k + b)
       /\ \A i \in 1..(n - (k + b)) : rest[i] = (k + b) + i
  <2>1. Len(rest) = m - b /\ \A i \in 1..(m - b) : rest[i] = texts[b + i]
    BY <1>3, <1>4, <1>11
  <2>2. m - b = n - (k + b) /\ m - b \in Nat /\ \A i \in 1..(m - b) : texts[b + i] = (k + b) + i
    BY <1>3, <1>4, <1>8
  <2>3. rest \in [1..(m - b) -> Nat]
    <3>1. rest \in Seq(Int)
      BY <1>3, <1>4, <1>11
    <3>2. rest = [i \in 1..(m - b) |-> rest[i]]
      BY <2>1, <3>1
    <3> QED
      <4>1. \A i \in 1..(m - b) : rest[i] \in Nat
        BY <1>2, <1>4, <2>1, <2>2
      <4> QED
        BY <3>2, <4>1
  <2>4. rest \in Seq(Nat)
    BY <2>2, <2>3, FunctionSeq
  <2> QED
    BY <1>3, <1>4, <1>11, <2>1, <2>2, <2>4
<1>13. Embedded(k + b)' /\ task' \in {"none", "corpus"} /\ (task' = "corpus" => AskedInv')
  <2>1. CASE End
    BY <1>9, <2>1 DEF End, Begin, Embedded
  <2>2. CASE Begin("corpus", rest)
    <3>1. AskedInv'
      BY <1>12, <2>2, AskedAfresh DEF Begin
    <3>2. task' = "corpus" /\ pending' = rest /\ Len(chunks') = n
      BY <1>0, <2>2 DEF Begin
    <3> QED
      BY <1>9, <1>12, <3>1, <3>2 DEF Embedded
  <2> QED
    BY <1>10, <2>1, <2>2
<1>14. phase = "embed" /\ phase' = "embed" /\ query' = query /\ query = NoVector /\ Len(chunks') = n
  BY <1>0, <1>1 DEF VectorsInv
<1> QED
  BY <1>8, <1>13, <1>14 DEF VectorsInv

(* Every step keeps each vector with its text.                             *)
LEMMA VectorsTurn ==
  ASSUME CutInv, VectorsInv, [Next]_allVars
  PROVE  VectorsInv'
<1>1. Len(chunks) \in Nat /\ Len(chunks') \in Nat
  BY CutTurn, Known DEF CutInv
<1>2. CASE /\ UNCHANGED <<chunks, embedVars>>
           /\ phase' # phase => phase' \notin {"parse", "index", "embed"} /\ task = "none"
  <2>1. UNCHANGED <<chunks, vec, query, task, pending, asked, got>>
    BY <1>2 DEF embedVars
  <2>2. AskedInv' <=> AskedInv
    BY <2>1 DEF AskedInv, Batch
  <2> QED
    BY <1>2, <2>1, <2>2 DEF VectorsInv, Embedded
<1>3. CASE Parse \/ UNCHANGED allVars
  <2>1. UNCHANGED <<chunkVars, embedVars, phase>>
    BY <1>3 DEF Parse, allVars
  <2> QED
    BY <1>2, <2>1 DEF chunkVars
<1>4. CASE StartChunking
  BY <1>4 DEF StartChunking, VectorsInv, embedVars, Embedded
<1>5. CASE Index
  <2>1. vec' = <<>> /\ task' = "none" /\ query' = query /\ phase' = "index" /\ phase = "index"
    BY <1>5 DEF Index, embedVars, VectorsInv
  <2>2. Embedded(0)' /\ 0 \in 0..Len(chunks')
    BY <1>1, <2>1 DEF Embedded
  <2> QED
    BY <2>1, <2>2 DEF VectorsInv
<1>6. CASE StartEmbedding
  <2>1. UNCHANGED <<chunks, vec, query, task, pending, asked, got>> /\ phase = "index" /\ phase' = "embed"
    BY <1>6 DEF StartEmbedding, chunkVars, embedVars
  <2> QED
    BY <2>1 DEF VectorsInv, Embedded
<1>7. CASE Embed
  <2>1. phase = "embed" /\ UNCHANGED <<chunks, phase>> /\ EmbedNext(Len(chunks))
    BY <1>7 DEF Embed, chunkVars
  <2>2. CASE StartCorpus(Len(chunks))
    <3>1. /\ task = "none" /\ task' = "corpus" /\ pending' = Unembedded(Len(chunks)) /\ Afresh
          /\ UNCHANGED <<vec, query>>
      BY <2>2 DEF StartCorpus, Begin
    <3>2. PICK k \in 0..Len(chunks) : Embedded(k)
      BY DEF VectorsInv
    <3>3. /\ pending' \in Seq(Nat) /\ Len(pending') = Len(chunks) - k
          /\ \A i \in 1..(Len(chunks) - k) : pending'[i] = k + i
      BY <1>1, <3>1, <3>2, Remaining DEF Embedded
    <3>4. pending' \in Seq(Int)
      BY <3>3
    <3>5. AskedInv'
      BY <3>1, <3>4, AskedAfresh
    <3>6. Embedded(k)'
      BY <2>1, <3>1, <3>2, <3>3 DEF Embedded
    <3> QED
      BY <2>1, <3>1, <3>2, <3>5, <3>6 DEF VectorsInv
  <2>3. CASE ProviderAnswers \/ \E e \in Errors : ProviderFails(e)
    BY <2>1, <2>3, CallTurn
  <2>4. CASE StoreBatch
    BY <2>1, <2>4, StoreTurn
  <2>5. CASE RunDies
    BY <2>1, <2>5 DEF RunDies, End, Begin, VectorsInv, Embedded
  <2> QED
    BY <2>1, <2>2, <2>3, <2>4, <2>5 DEF EmbedNext
<1>8. CASE AskQuestion
  <2>1. /\ task = "none" /\ task' = "question" /\ pending' = <<Question>> /\ Afresh
        /\ phase = "embed" /\ phase' = "question" /\ UNCHANGED <<vec, query, chunks>>
    BY <1>8 DEF AskQuestion, Settled, StartQuestion, Begin, chunkVars
  <2>2. pending' \in Seq(Int)
    BY <2>1 DEF Question
  <2>3. AskedInv'
    BY <2>1, <2>2, AskedAfresh
  <2> QED
    BY <2>1, <2>3 DEF VectorsInv, Embedded
<1>9. CASE EmbedQuestion
  <2>1. phase = "question" /\ UNCHANGED <<chunks, phase>> /\ QuestionNext
    BY <1>9 DEF EmbedQuestion, chunkVars
  <2>2. CASE ProviderAnswers \/ \E e \in Errors : ProviderFails(e)
    BY <2>1, <2>2, CallTurn
  <2>3. CASE QuestionEmbedded
    <3>1. /\ task = "question" /\ asked = Len(Batch) /\ query' = IF got = <<>> THEN NoVector ELSE got[1]
          /\ task' = "none" /\ UNCHANGED vec
      BY <2>3 DEF QuestionEmbedded, Answered, End, Begin
    <3>2. pending = <<0>> /\ Batch \in Seq(Int) /\ Len(Batch) \in 0..1 /\ \A i \in 1..Len(Batch) : Batch[i] = pending[i]
      BY <3>1, PendingOf DEF VectorsInv, Question
    <3>3. got # <<>> => got[1] = Question
      <4>1. got \in Seq(Int) /\ Len(got) <= asked
        BY <3>1, PendingOf DEF AskedInv
      <4>2. got # <<>> => Len(got) = 1 /\ asked = 1 /\ Len(Batch) = 1
        BY <3>1, <3>2, <4>1
      <4>3. got # <<>> => got[1] = Batch[1]
        BY <3>1, <4>2, PendingOf DEF AskedInv
      <4> QED
        BY <3>2, <4>2, <4>3 DEF Question
    <3> QED
      BY <2>1, <3>1, <3>3 DEF VectorsInv, Embedded
  <2> QED
    BY <2>1, <2>2, <2>3 DEF QuestionNext
<1>10. CASE QuestionFails
  BY <1>2, <1>10 DEF QuestionFails, chunkVars
<1>11. CASE Retrieve
  <2>1. phase = "question" /\ query # NoVector /\ phase' = "retrieved" /\ UNCHANGED <<chunkVars, embedVars>>
    BY <1>11 DEF Retrieve
  <2>2. task = "none"
    BY <2>1 DEF VectorsInv
  <2> QED
    BY <1>2, <2>1, <2>2 DEF chunkVars
<1>12. CASE Gate \/ AddSource \/ AddTruncatedSource \/ Assembled \/ Generate \/ GenerationFails
  <2>1. /\ phase \in {"retrieved", "assembling", "generating"}
        /\ phase' \in {"answered", "assembling", "generating", "failed"} /\ UNCHANGED <<chunkVars, embedVars>>
    BY <1>12 DEF Gate, AddSource, AddTruncatedSource, Assembled, Generate, GenerationFails
  <2>2. task = "none"
    BY <2>1 DEF VectorsInv
  <2> QED
    BY <1>2, <2>1, <2>2 DEF chunkVars
<1> QED
  BY <1>3, <1>4, <1>5, <1>6, <1>7, <1>8, <1>9, <1>10, <1>11, <1>12 DEF Next

(* So they are throughout.                                                 *)
LEMMA VectorsAlways == Spec => [](CutInv /\ VectorsInv)
<1>1. VectorsInv /\ CutInv /\ [Next]_allVars => VectorsInv'
  BY VectorsTurn
<1> QED
  BY <1>1, CutAlways, VectorsStart, PTL DEF Spec

(* However the replies come and whatever fails, a stored vector is its     *)
(* chunk's and the question's is the question's.                           *)
THEOREM OwnVectors == Spec => []VectorsAreOwn
<1>1. VectorsInv => VectorsAreOwn
  BY DEF VectorsInv, Embedded, VectorsAreOwn
<1> QED
  BY <1>1, VectorsAlways, PTL

(* No text is asked for that has a vector, in whichever attempt or run.    *)
THEOREM RemainderOnly == Spec => []OnlyRemainderIsAsked
<1>1. CutInv /\ VectorsInv => OnlyRemainderIsAsked
  <2> SUFFICES ASSUME CutInv, VectorsInv, task = "corpus" PROVE OnlyRemainderIsAsked
    BY DEF OnlyRemainderIsAsked
  <2>1. PICK n \in Nat : n = Len(chunks)
    BY Known DEF CutInv
  <2>2. PICK k \in 0..n : Embedded(k)
    BY <2>1 DEF VectorsInv
  <2>3. DOMAIN vec = 1..k /\ Len(pending) = n - k /\ \A i \in 1..(n - k) : pending[i] = k + i
    BY <2>1, <2>2 DEF Embedded
  <2>4. ASSUME NEW i \in 1..Len(Request) PROVE Request[i] \notin DOMAIN vec
    <3>1. /\ Batch \in Seq(Int) /\ asked \in Nat /\ asked <= Len(Batch) /\ Len(Batch) \in Nat
          /\ Len(Batch) <= n - k /\ \A j \in 1..Len(Batch) : Batch[j] = pending[j]
      BY <2>1, <2>3, PendingOf DEF AskedInv
    <3>2. CASE asked < Len(Batch)
      <4>1. PICK r \in Nat \ {0} : /\ asked + r <= Len(Batch) /\ Len(Request) = r
                                   /\ \A j \in 1..r : Request[j] = Batch[asked + j]
        BY <3>1, <3>2, RequestOf
      <4>2. i \in 1..r /\ asked + i \in 1..Len(Batch) /\ asked + i \in 1..(n - k)
        BY <2>4, <3>1, <4>1
      <4>3. Request[i] = k + (asked + i)
        BY <2>3, <3>1, <4>1, <4>2
      <4> QED
        BY <2>3, <3>1, <4>2, <4>3
    <3>3. CASE asked = Len(Batch)
      <4>1. PICK batch \in Seq(Int), b \in Nat : batch = Batch /\ b = asked /\ Len(batch) = b
        BY <3>1, <3>3
      <4>2. b + ProviderBatchSize \in Int /\ b \in Int /\ (b + ProviderBatchSize <= b) = FALSE
        BY EmbeddingAssumption
      <4>3. Min({asked + ProviderBatchSize, Len(Batch)}) = b
        BY <3>3, <4>1, <4>2, MinOf
      <4>4. Request = SubSeq(batch, b + 1, b)
        BY <4>1, <4>3 DEF Request
      <4>5. Len(Request) = 0
        BY <4>1, <4>4
      <4> QED
        BY <2>4, <4>5
    <3> QED
      BY <3>1, <3>2, <3>3
  <2>5. /\ \A i \in 1..Len(pending), j \in 1..Len(pending) : i < j => pending[i] < pending[j]
        /\ \A c \in DOMAIN vec, i \in 1..Len(pending) : c < pending[i]
    BY <2>3
  <2> QED
    BY <2>4, <2>5 DEF OnlyRemainderIsAsked
<1> QED
  BY <1>1, VectorsAlways, PTL

-----------------------------------------------------------------------------
(* A sequence has no more elements than places.                            *)
LEMMA ToSetFinite ==
  ASSUME NEW S, NEW s \in Seq(S)
  PROVE  IsFiniteSet(ToSet(s)) /\ ToSet(s) \subseteq S
<1>1. PICK n \in Nat : n = Len(s) /\ DOMAIN s = 1..n
  OBVIOUS
<1>2. s \in Surjection(1..n, ToSet(s))
  <2>1. ToSet(s) = {s[i] : i \in 1..n}
    BY <1>1 DEF ToSet
  <2>2. s \in [1..n -> ToSet(s)]
    BY <1>1, <2>1
  <2> QED
    BY <2>1, <2>2 DEF Surjection
<1>3. IsFiniteSet(1..n)
  BY Interval
<1>4. ToSet(s) \subseteq S
  BY <1>1 DEF ToSet
<1> QED
  BY <1>2, <1>3, <1>4, FS_Surjection

(* A sequence of a set's elements leaves none out.                         *)
LEMMA SeqOnto ==
  ASSUME NEW S, IsFiniteSet(S), NEW s \in SetToSeqs(S)
  PROVE  \A x \in S : \E i \in 1..Len(s) : s[i] = x
<1>1. PICK n \in Nat : n = Cardinality(S)
  BY FS_CardinalityType
<1>2. s \in Injection(1..n, S)
  BY <1>1 DEF SetToSeqs, Injection, IsInjective
<1>3. Cardinality(1..n) = n
  <2>1. 1 \in Int /\ n \in Int /\ (IF 1 > n THEN 0 ELSE n - 1 + 1) = n
    OBVIOUS
  <2>2. Cardinality(1..n) = IF 1 > n THEN 0 ELSE n - 1 + 1
    BY ONLY <2>1, FS_Interval
  <2> QED
    BY <2>1, <2>2
<1>4. s \in Surjection(1..n, S)
  BY <1>1, <1>2, <1>3, FS_Injection
<1>5. Len(s) = n
  BY <1>1, SeqOfSet
<1> QED
  BY <1>4, <1>5 DEF Surjection

(* The hits in the order of their scores: each of them, the best first.    *)
LEMMA OrderedOf ==
  ASSUME Retrieved, Corpus \subseteq Nat
  PROVE  /\ Len(hits) \in Nat
         /\ \A i \in 1..Len(hits) : Ordered[i] \in Corpus /\ Ordered[i] \in ToSet(hits)
         /\ \A i, j \in 1..Len(hits) : i < j => score[Ordered[i]] >= score[Ordered[j]]
         /\ \A c \in ToSet(hits) : \E i \in 1..Len(hits) : Ordered[i] = c
<1> DEFINE H == ToSet(hits)
           Better(a, b) == score[a] > score[b] \/ (score[a] = score[b] /\ a < b)
           R == {e \in H \X H : Better(e[1], e[2])}
           Falling(s) == \A i, j \in 1..Len(s) : i < j => Better(s[i], s[j])
<1>1. hits \in Seq(Corpus) /\ Len(hits) \in Nat
  BY DEF Retrieved
<1>2. IsFiniteSet(H) /\ H \subseteq Corpus /\ Cardinality(H) = Len(hits)
  BY <1>1, ToSetFinite DEF Retrieved, RankedRows
<1>3. \A c \in H : score[c] \in Int /\ c \in Nat
  BY <1>2, AnsweringAssumption DEF Retrieved
<1>4. \A a, b : <<a, b>> \in R <=> a \in H /\ b \in H /\ Better(a, b)
  OBVIOUS
<1>5. Orders(R, H)
  <2> HIDE DEF R, H
  <2> QED
    BY <1>3, <1>4 DEF Orders
<1>6. Ordered = CHOOSE s \in SetToSeqs(H) : Falling(s)
  BY DEF Ordered, Sorted
<1> HIDE DEF R, H
<1>7. \E s \in SetToSeqs(H) : Falling(s)
  <2>1. PICK s \in SetToSeqs(H) : \A i, j \in 1..Len(s) : i < j => <<s[i], s[j]>> \in R
    BY <1>2, <1>5, SortedSeq
  <2> QED
    BY <1>4, <2>1
<1>8. PICK s \in SetToSeqs(H) : s = Ordered /\ Falling(s)
  <2> HIDE DEF Falling
  <2> QED
    BY <1>6, <1>7
<1>9. Len(s) = Len(hits) /\ \A i \in 1..Len(hits) : s[i] \in H
  BY <1>2, SeqOfSet
<1>10. \A c \in H : \E i \in 1..Len(hits) : s[i] = c
  BY <1>2, <1>9, SeqOnto
<1>11. ASSUME NEW i \in 1..Len(hits), NEW j \in 1..Len(hits), i < j
       PROVE  score[s[i]] >= score[s[j]]
  <2>1. Better(s[i], s[j])
    BY <1>8, <1>9, <1>11
  <2> QED
    BY <1>3, <1>9, <2>1
<1> QED
  BY <1>1, <1>2, <1>8, <1>9, <1>10, <1>11 DEF H

(* No chunk of the corpus is closer than the first hit, and none left out  *)
(* is closer than one that was retrieved.                                  *)
LEMMA BestHits ==
  ASSUME Retrieved, NEW k \in Nat, Corpus = 1..k
  PROVE  /\ \A c \in Corpus : \A h \in ToSet(hits) : score[c] > score[h] => c \in ToSet(hits)
         /\ hits # <<>> => hits[1] \in Corpus /\ \A c \in Corpus : score[c] <= score[hits[1]]
         /\ hits = <<>> => Corpus = {}
<1>1. PICK n \in Nat : n = Len(hits) /\ hits \in Seq(Corpus)
  BY DEF Retrieved
<1>2. ToSet(hits) = {hits[i] : i \in 1..n} /\ \A i \in 1..n : hits[i] \in Corpus
  BY <1>1 DEF ToSet
<1>3. \A i \in 1..n : \A c \in Corpus : score[c] > score[hits[i]] => \E j \in 1..(i - 1) : hits[j] = c
  BY <1>1 DEF Retrieved, RankedRows
<1>4. ASSUME NEW c \in Corpus, NEW h \in ToSet(hits), score[c] > score[h]
      PROVE  c \in ToSet(hits)
  <2>1. PICK i \in 1..n : h = hits[i]
    BY <1>2
  <2>2. PICK j \in 1..(i - 1) : hits[j] = c
    BY <1>3, <1>4, <2>1
  <2> QED
    BY <1>2, <2>2
<1>5. ASSUME hits # <<>>
      PROVE  hits[1] \in Corpus /\ \A c \in Corpus : score[c] <= score[hits[1]]
  <2>1. 1 \in 1..n /\ hits[1] \in Corpus
    BY <1>1, <1>2, <1>5
  <2>2. \A c \in Corpus : score[c] \in Int
    BY AnsweringAssumption DEF Retrieved
  <2>3. \A c \in Corpus : ~(score[c] > score[hits[1]])
    BY <1>3, <2>1
  <2>4. \A c \in Corpus : score[c] <= score[hits[1]]
    <3>1. PICK best \in Int : best = score[hits[1]]
      BY <2>1, <2>2
    <3> QED
      BY <2>2, <2>3, <3>1
  <2> QED
    BY <2>1, <2>4
<1>6. ASSUME hits = <<>> PROVE Corpus = {}
  <2>1. Min({Cardinality(Corpus), K}) = 0
    BY <1>6 DEF Retrieved, RankedRows
  <2>2. Cardinality(Corpus) = k
    <3>1. 1 \in Int /\ k \in Int /\ (IF 1 > k THEN 0 ELSE k - 1 + 1) = k
      OBVIOUS
    <3>2. Cardinality(1..k) = IF 1 > k THEN 0 ELSE k - 1 + 1
      BY ONLY <3>1, FS_Interval
    <3> QED
      BY <3>1, <3>2
  <2>3. k \in Int /\ K \in Int /\ K \in Nat \ {0}
    BY AnsweringAssumption
  <2>4. k = 0
    BY <2>1, <2>2, <2>3, MinOf
  <2> QED
    BY <2>4
<1> QED
  BY <1>4, <1>5, <1>6

(* What the budget is spent on.                                            *)
LEMMA EntryTokens ==
  ASSUME CutInv, NEW c \in 1..Len(chunks)
  PROVE  HeaderTokens(c) \in Nat /\ ContentTokens(c) \in Nat \ {0}
<1>1. chunks[c] \in Chunk /\ Sound(chunks[c]) /\ Weighs(chunks[c].text)
  BY Known DEF CutInv, Laid, InkInv
<1>2. PICK path \in Seq(Nat), n \in Nat : path = chunks[c].section /\ n = Len(path)
  BY <1>1 DEF Chunk
<1>3. PICK text \in Seq(Piece) : text = chunks[c].text /\ text # <<>> /\ Weighs(text)
  BY <1>1 DEF Chunk, Sound, Contiguous
<1>4. \A i \in 1..n : path[i] \in 1..Len(doc)
  <2>1. 1 \in 1..Len(text) /\ text[1].block \in 1..Len(doc) /\ ToSet(path) = Enclosing(text[1].block)
    BY <1>1, <1>2, <1>3 DEF Sound, Contiguous
  <2>2. Enclosing(text[1].block) \subseteq 1..Len(doc)
    BY <2>1 DEF Enclosing
  <2>3. \A i \in 1..n : path[i] \in ToSet(path)
    BY <1>2 DEF ToSet
  <2> QED
    BY <2>1, <2>2, <2>3
<1> DEFINE f == [i \in 1..n |-> doc[path[i]].tokens]
<1>5. \A i \in 1..n : f[i] \in Nat
  <2>1. \A i \in 1..n : doc[path[i]].tokens \in Nat
    BY <1>4, Known, BlockTokens DEF CutInv
  <2> QED
    BY <2>1
<1>6. SectionTokens(c) = SumFunctionOnSet(f, 1..n)
  BY <1>2 DEF SectionTokens
<1> HIDE DEF f
<1>7. SectionTokens(c) \in Nat
  BY <1>5, <1>6, Interval, SumType
<1>8. TextTokens(text) \in Nat \ {0}
  BY <1>3, TextWeight
<1>9. ContentTokens(c) = SectionTokens(c) + (IF chunks[c].overlap # 0 THEN 1 ELSE 0) + TextTokens(text)
  BY <1>3 DEF ContentTokens
<1> QED
  BY <1>7, <1>8, <1>9 DEF HeaderTokens

(* The corpus is the first chunks of the document.                         *)
LEMMA CorpusOf ==
  ASSUME CutInv, VectorsInv
  PROVE  \E k \in Nat : Corpus = 1..k /\ Corpus \subseteq 1..Len(chunks) /\ Corpus \subseteq Nat
<1>1. PICK n \in Nat : n = Len(chunks)
  BY Known DEF CutInv
<1>2. PICK k \in 0..n : Embedded(k)
  BY <1>1 DEF VectorsInv
<1> QED
  BY <1>1, <1>2 DEF Embedded, Corpus

(* Before a question there is nothing to be wrong.                         *)
LEMMA AnswerStart == Init => AnswerInv
BY DEF Init, AnswerInv

(* What has been retrieved does not change.                                *)
LEMMA AnswerKept ==
  ASSUME UNCHANGED <<vec, score, threshold, hits>>
  PROVE  Retrieved' = Retrieved /\ Ordered' = Ordered /\ Refuses' = Refuses /\ Corpus' = Corpus
BY DEF Retrieved, RankedRows, Ordered, Sorted, Refuses, Corpus

(* One source more.                                                        *)
LEMMA SourceTurn ==
  ASSUME CutInv, VectorsInv, Retrieved, Numbered, RoomLeft,
         UNCHANGED <<vec, score, threshold, hits>>, NEW content \in Nat \ {0},
         sources' = Append(sources, [chunk |-> Upcoming, content |-> content]),
         used' \in Nat, used' <= Budget \/ (sources = <<>> /\ content = 1)
  PROVE  Numbered' /\ Retrieved' /\ sources' # <<>>
<1>1. PICK n \in Nat : n = Len(sources) /\ n < MaxSources /\ n < Len(hits)
  BY DEF RoomLeft, Numbered
<1>2. Len(hits) \in Nat /\ \A i \in 1..Len(hits) : Ordered[i] \in Corpus
  BY CorpusOf, OrderedOf
<1>3. Upcoming = Ordered[n + 1] /\ Upcoming \in Corpus /\ n + 1 <= Len(hits) /\ n + 1 <= MaxSources
  BY <1>1, <1>2, AnsweringAssumption DEF Upcoming
<1>4. PICK source : source = [chunk |-> Upcoming, content |-> content]
  OBVIOUS
<1>5. source \in [chunk : Corpus, content : Nat \ {0}] /\ source.chunk = Ordered[n + 1] /\ source.content = content
  BY <1>3, <1>4
<1>6. PICK S : S = [chunk : Corpus, content : Nat \ {0}] /\ sources \in Seq(S) /\ source \in S
  BY <1>5 DEF Numbered
<1>7. /\ sources' \in Seq(S) /\ Len(sources') = n + 1 /\ sources'[n + 1] = source
      /\ \A i \in 1..n : sources'[i] = sources[i]
  BY <1>1, <1>4, <1>6
<1>8. \A i \in 1..(n + 1) : sources'[i].chunk = Ordered[i]
  <2>1. \A i \in 1..(n + 1) : i \in 1..n \/ i = n + 1
    OBVIOUS
  <2> QED
    BY <1>1, <1>5, <1>7, <2>1 DEF Numbered
<1>9. sources' # <<>> /\ (used' <= Budget \/ (Len(sources') = 1 /\ sources'[1].content = 1))
  <2>1. sources = <<>> => n = 0
    BY <1>1
  <2> QED
    BY <1>5, <1>7, <2>1
<1> QED
  BY <1>3, <1>6, <1>7, <1>8, <1>9, AnswerKept DEF Numbered

(* Before retrieval, and from then on.                                     *)
Untouched ==
  /\ score = <<>> /\ threshold = 0 /\ hits = <<>>
  /\ sources = <<>> /\ used = 0 /\ reply = NoReply
Judged ==
  /\ phase = "retrieved" => sources = <<>>
  /\ phase \in {"assembling", "generating"} \/ sources # <<>> => ~Refuses
  /\ phase \in {"generating", "failed"} => sources # <<>>
  /\ phase = "answered" /\ sources = <<>> => Refuses
  /\ phase # "answered" => reply = NoReply
  /\ reply.citations \subseteq 1..Len(sources)
  /\ reply.citations \subseteq reply.cited
  /\ reply.grounded => reply.citations # {} /\ ~reply.refused

(* The invariant, by what has been asked.                                  *)
LEMMA AnswerIs ==
  AnswerInv <=> \/ phase \in {"parse", "index", "embed", "question", "failed"} /\ Untouched
                \/ /\ phase \in {"retrieved", "assembling", "generating", "answered", "failed"}
                   /\ Retrieved /\ Numbered /\ Judged
BY DEF AnswerInv, Untouched, Judged

(* Every step keeps the sources to the best hits, and the answer to the    *)
(* sources.                                                                *)
LEMMA AnswerTurn ==
  ASSUME CutInv, VectorsInv, AnswerInv, [Next]_allVars
  PROVE  AnswerInv'
<1>1. ASSUME UNCHANGED answerVars,
             phase \in {"parse", "index", "embed", "question"},
             phase' \in {"parse", "index", "embed", "question", "failed"}
      PROVE  AnswerInv'
  BY <1>1 DEF AnswerInv, answerVars
<1>2. CASE Parse \/ StartChunking \/ Index \/ StartEmbedding \/ Embed \/ AskQuestion \/ EmbedQuestion \/ QuestionFails
  BY <1>1, <1>2 DEF Parse, StartChunking, Index, StartEmbedding, Embed, AskQuestion, EmbedQuestion, QuestionFails
<1>3. CASE Retrieve
  <2>1. /\ phase' = "retrieved" /\ UNCHANGED <<vec, sources, used, reply>> /\ threshold' \in Scores
        /\ sources = <<>> /\ used = 0 /\ reply = NoReply
    BY <1>3 DEF Retrieve, embedVars, AnswerInv
  <2>2. PICK s \in [Corpus -> Scores], m \in 0..K : \E h \in [1..m -> Corpus] :
          RankedRows(s, h) /\ score' = s /\ hits' = h
    BY <1>3 DEF Retrieve
  <2>3. PICK h \in [1..m -> Corpus] : RankedRows(s, h) /\ score' = s /\ hits' = h
    BY <2>2
  <2>4. m \in Nat /\ m <= K
    BY AnsweringAssumption
  <2>5. h \in Seq(Corpus) /\ Len(h) = m
    BY <2>4, FunctionSeq
  <2>6. Corpus' = Corpus
    BY <2>1 DEF Corpus
  <2>7. Retrieved'
    <3>1. RankedRows(score, hits)' <=> RankedRows(s, h)
      BY <2>1, <2>3 DEF RankedRows, Corpus
    <3>2. score' \in [Corpus' -> Scores] /\ hits' \in Seq(Corpus') /\ Len(hits') <= K
      BY <2>3, <2>4, <2>5, <2>6
    <3> QED
      BY <2>1, <2>3, <3>1, <3>2 DEF Retrieved
  <2>8. Numbered'
    BY <2>1, <2>3, <2>4, <2>5, AnsweringAssumption DEF Numbered
  <2>9. Judged'
    BY <2>1 DEF Judged, NoReply
  <2> QED
    BY <2>1, <2>7, <2>8, <2>9 DEF AnswerInv, Judged
<1>4. ASSUME phase \in {"retrieved", "assembling", "generating"}
      PROVE  Retrieved /\ Numbered /\ Judged
  BY <1>4, AnswerIs
<1>5. ASSUME Retrieved', Numbered', Judged',
             phase' \in {"retrieved", "assembling", "generating", "answered", "failed"}
      PROVE  AnswerInv'
  BY <1>5 DEF AnswerInv, Judged
<1>6. ASSUME UNCHANGED <<vec, score, threshold, hits, sources, used>>, Retrieved, Numbered
      PROVE  Retrieved' /\ Numbered'
  BY <1>6, AnswerKept DEF Numbered
<1>7. CASE Gate
  <2>1. /\ phase = "retrieved" /\ UNCHANGED <<vec, score, threshold, hits, sources, used>>
        /\ (Refuses => phase' = "answered" /\ reply' = [NoReply EXCEPT !.refused = TRUE])
        /\ (~Refuses => phase' = "assembling" /\ reply' = reply)
    BY <1>7 DEF Gate, embedVars
  <2>2. Retrieved' /\ Numbered' /\ Refuses' = Refuses
    BY <1>4, <1>6, <2>1, AnswerKept
  <2>3. Judged'
    <3>1. sources' = <<>> /\ reply = NoReply
      BY <1>4, <2>1 DEF Judged
    <3>2. reply'.citations = {} /\ reply'.grounded = FALSE
      BY <2>1, <3>1 DEF NoReply
    <3> QED
      BY <2>1, <2>2, <3>1, <3>2 DEF Judged
  <2> QED
    BY <1>5, <2>1, <2>2, <2>3
<1>8. ASSUME phase = "assembling", phase' = phase, RoomLeft, reply' = reply,
             UNCHANGED <<vec, score, threshold, hits>>, NEW content \in Nat \ {0},
             sources' = Append(sources, [chunk |-> Upcoming, content |-> content]),
             used' \in Nat, used' <= Budget \/ (sources = <<>> /\ content = 1)
      PROVE  AnswerInv'
  <2>1. Retrieved /\ Numbered /\ Judged /\ ~Refuses /\ reply = NoReply
    BY <1>4, <1>8 DEF Judged
  <2>2. Numbered' /\ Retrieved' /\ sources' # <<>> /\ Refuses' = Refuses
    BY <1>8, <2>1, SourceTurn, AnswerKept
  <2>3. Judged'
    BY <1>8, <2>1, <2>2 DEF Judged, NoReply
  <2> QED
    BY <1>5, <1>8, <2>2, <2>3
<1>9. ASSUME phase = "assembling", RoomLeft
      PROVE  HeaderTokens(Upcoming) \in Nat /\ ContentTokens(Upcoming) \in Nat \ {0} /\ used \in Nat
  <2>1. PICK n \in Nat : n = Len(sources) /\ n < Len(hits)
    BY <1>4, <1>9 DEF RoomLeft, Numbered
  <2>2. Len(hits) \in Nat /\ \A i \in 1..Len(hits) : Ordered[i] \in Corpus
    BY <1>4, <1>9, CorpusOf, OrderedOf
  <2>3. Upcoming \in 1..Len(chunks)
    BY <2>1, <2>2, CorpusOf DEF Upcoming
  <2> QED
    BY <1>4, <1>9, <2>3, EntryTokens DEF Numbered
<1>10. CASE AddSource
  <2>1. /\ phase = "assembling" /\ RoomLeft /\ used + Entry(Upcoming) <= Budget
        /\ sources' = Append(sources, [chunk |-> Upcoming, content |-> ContentTokens(Upcoming)])
        /\ used' = used + Entry(Upcoming)
        /\ phase' = phase /\ reply' = reply /\ UNCHANGED <<vec, score, threshold, hits>>
    BY <1>10 DEF AddSource, embedVars
  <2>2. used' \in Nat
    BY <1>9, <2>1 DEF Entry
  <2> QED
    BY <1>8, <1>9, <2>1, <2>2
<1>11. CASE AddTruncatedSource
  <2>1. PICK h \in Nat, w \in Nat \ {0} : h = HeaderTokens(Upcoming) /\ w = ContentTokens(Upcoming)
    BY <1>9, <1>11 DEF AddTruncatedSource
  <2>2. Budget \in Nat /\ Budget - h \in Int /\ 1 \in Int
    BY AnsweringAssumption
  <2>3. PICK content \in Nat \ {0} : content = IF Budget - h >= 1 THEN Budget - h ELSE 1
    <3>1. CASE Budget - h >= 1
      <4>1. Budget - h \in Nat \ {0}
        BY <2>2, <3>1
      <4> QED
        BY <3>1, <4>1
    <3>2. CASE ~(Budget - h >= 1)
      BY <3>2
    <3> QED
      BY <3>1, <3>2
  <2>4. PICK least \in Nat \ {0} : least = IF content <= w THEN content ELSE w
    OBVIOUS
  <2>5. Max({Budget - h, 1}) = content /\ Min({content, w}) = least
    <3>1. content \in Int /\ w \in Int
      OBVIOUS
    <3> QED
      BY <2>2, <2>3, <2>4, <3>1, MaxOf, MinOf
  <2>6. /\ phase = "assembling" /\ RoomLeft /\ sources = <<>>
        /\ sources' = Append(sources, [chunk |-> Upcoming, content |-> least])
        /\ used' = used + h + least
        /\ phase' = phase /\ reply' = reply /\ UNCHANGED <<vec, score, threshold, hits>>
    BY <1>11, <2>1, <2>5 DEF AddTruncatedSource, Truncates, embedVars
  <2>7. used = 0
    BY <1>4, <2>6 DEF Numbered
  <2>8. used' \in Nat /\ (used' <= Budget \/ least = 1)
    BY <2>2, <2>3, <2>4, <2>6, <2>7
  <2> QED
    BY <1>8, <2>6, <2>8
<1>12. CASE Assembled
  <2>1. /\ phase = "assembling" /\ (RoomLeft => sources # <<>>) /\ phase' = "generating"
        /\ UNCHANGED <<vec, score, threshold, hits, sources, used, reply>>
    BY <1>12 DEF Assembled, Truncates, embedVars, answerVars
  <2>2. Retrieved /\ Numbered /\ Judged /\ ~Refuses /\ reply = NoReply
    BY <1>4, <2>1 DEF Judged
  <2>3. sources # <<>>
    <3>1. ASSUME sources = <<>> PROVE RoomLeft
      <4>1. Len(sources) = 0 /\ hits # <<>> /\ Len(hits) \in Nat \ {0}
        BY <2>2, <3>1 DEF Refuses, Retrieved
      <4> QED
        BY <4>1, AnsweringAssumption DEF RoomLeft
    <3> QED
      BY <2>1, <3>1
  <2>4. Retrieved' /\ Numbered' /\ Refuses' = Refuses
    BY <1>6, <2>1, <2>2, AnswerKept
  <2>5. Judged'
    BY <2>1, <2>2, <2>3, <2>4 DEF Judged, NoReply
  <2> QED
    BY <1>5, <2>1, <2>4, <2>5
<1>13. CASE Generate
  <2>1. /\ phase = "generating" /\ phase' = "answered"
        /\ UNCHANGED <<vec, score, threshold, hits, sources, used>>
    BY <1>13 DEF Generate, embedVars
  <2>2a. PICK cited \in SUBSET (1..(MaxSources + 1)), refused \in BOOLEAN :
           LET citations == IF refused THEN {} ELSE Citations(cited)
           IN reply' = [grounded |-> ~refused /\ citations # {}, citations |-> citations,
                        cited |-> cited, refused |-> refused]
    BY <1>13 DEF Generate
  <2>2. PICK citations :
          /\ citations = (IF refused THEN {} ELSE Citations(cited))
          /\ reply' = [grounded |-> ~refused /\ citations # {}, citations |-> citations,
                       cited |-> cited, refused |-> refused]
    BY <2>2a
  <2>3. Retrieved /\ Numbered /\ Judged /\ ~Refuses /\ sources # <<>>
    BY <1>4, <2>1 DEF Judged
  <2>4. Retrieved' /\ Numbered' /\ Refuses' = Refuses
    BY <1>6, <2>1, <2>3, AnswerKept
  <2>5. Judged'
    BY <2>1, <2>2, <2>3, <2>4 DEF Judged, Citations
  <2> QED
    BY <1>5, <2>1, <2>4, <2>5
<1>14. CASE GenerationFails
  <2>1. /\ phase = "generating" /\ phase' = "failed"
        /\ UNCHANGED <<vec, score, threshold, hits, sources, used, reply>>
    BY <1>14 DEF GenerationFails, embedVars, answerVars
  <2>2. Retrieved' /\ Numbered' /\ Refuses' = Refuses /\ Judged
    BY <1>4, <1>6, <2>1, AnswerKept
  <2>3. Judged'
    BY <2>1, <2>2 DEF Judged
  <2> QED
    BY <1>5, <2>1, <2>2, <2>3
<1>15. CASE UNCHANGED allVars
  <2>1. UNCHANGED <<vec, phase, score, threshold, hits, sources, used, reply>>
    BY <1>15 DEF allVars, embedVars, answerVars
  <2> QED
    BY <2>1, AnswerKept DEF AnswerInv, Numbered
<1> QED
  BY <1>2, <1>3, <1>7, <1>10, <1>11, <1>12, <1>13, <1>14, <1>15 DEF Next

(* So they are throughout.                                                 *)
LEMMA AnswerAlways == Spec => [](CutInv /\ VectorsInv /\ AnswerInv)
<1>1. CutInv /\ VectorsInv /\ AnswerInv /\ [Next]_allVars => AnswerInv'
  BY AnswerTurn
<1> QED
  BY <1>1, VectorsAlways, AnswerStart, PTL DEF Spec

(* Whatever the similarities are, the gate opens exactly when some chunk   *)
(* of the corpus reaches the threshold, and the first source then does:    *)
(* the database's order among equals and assembleContext's own agree on    *)
(* what the best score is.                                                 *)
THEOREM GatedAnswers == Spec => []AnswerIsGated
<1>1. CutInv /\ VectorsInv /\ AnswerInv => AnswerIsGated
  <2> SUFFICES ASSUME CutInv, VectorsInv, AnswerInv PROVE AnswerIsGated
    OBVIOUS
  <2>1. CASE phase \in {"parse", "index", "embed", "question", "failed"} /\ Untouched
    BY <2>1 DEF AnswerIsGated, Untouched
  <2>2. CASE phase \in {"retrieved", "assembling", "generating", "answered", "failed"}
             /\ Retrieved /\ Numbered /\ Judged
    <3>1. PICK k \in Nat : Corpus = 1..k /\ Corpus \subseteq Nat
      BY CorpusOf
    <3>2. /\ hits # <<>> => hits[1] \in Corpus /\ \A c \in Corpus : score[c] <= score[hits[1]]
          /\ hits = <<>> => Corpus = {}
      BY <2>2, <3>1, BestHits
    <3>3. threshold \in Int /\ \A c \in Corpus : score[c] \in Int
      BY <2>2, AnsweringAssumption DEF Retrieved
    <3>4. ASSUME ~Refuses
          PROVE  hits[1] \in Corpus /\ score[hits[1]] >= threshold
      <4>1. hits # <<>> /\ ~(score[hits[1]] < threshold)
        BY <3>4 DEF Refuses
      <4> QED
        BY <3>2, <3>3, <4>1
    <3>5. ASSUME Refuses, NEW c \in Corpus PROVE score[c] < threshold
      <4>1. hits # <<>> /\ score[hits[1]] < threshold
        BY <3>2, <3>5 DEF Refuses
      <4>2. score[c] <= score[hits[1]] /\ hits[1] \in Corpus
        BY <3>2, <4>1
      <4> QED
        BY <3>3, <4>1, <4>2
    <3>6. ASSUME sources # <<>> PROVE score[sources[1].chunk] >= threshold
      <4>1. 1 \in 1..Len(sources) /\ sources[1].chunk = Ordered[1] /\ 1 \in 1..Len(hits)
        BY <2>2, <3>6, OrderedOf, <3>1 DEF Numbered
      <4>2. hits[1] \in Corpus /\ score[hits[1]] >= threshold
        BY <2>2, <3>4, <3>6 DEF Judged
      <4>3. hits[1] \in ToSet(hits)
        BY <2>2, <4>1 DEF ToSet, Retrieved
      <4>4. PICK i \in 1..Len(hits) : Ordered[i] = hits[1]
        BY <2>2, <3>1, <4>3, OrderedOf
      <4>5. Ordered[1] \in Corpus /\ score[Ordered[1]] >= score[Ordered[i]]
        <5>1. Len(hits) \in Nat /\ Ordered[1] \in Corpus /\ Ordered[i] \in Corpus
          BY <2>2, <3>1, <4>1, <4>4, OrderedOf
        <5>2. CASE i = 1
          BY <3>3, <5>1, <5>2
        <5>3. CASE i # 1
          BY <2>2, <3>1, <4>1, <5>1, <5>3, OrderedOf
        <5> QED
          BY <5>2, <5>3
      <4>6. score[Ordered[1]] \in Int /\ score[hits[1]] \in Int
        BY <3>3, <4>2, <4>5
      <4> QED
        BY <3>3, <4>1, <4>2, <4>4, <4>5, <4>6
    <3>7. phase \in {"assembling", "generating"} => \E c \in Corpus : score[c] >= threshold
      BY <2>2, <3>4 DEF Judged
    <3>8. phase = "answered" /\ sources = <<>> => \A c \in Corpus : score[c] < threshold
      BY <2>2, <3>5 DEF Judged
    <3> QED
      BY <3>6, <3>7, <3>8 DEF AnswerIsGated
  <2> QED
    BY <2>1, <2>2, AnswerIs
<1> QED
  BY <1>1, AnswerAlways, PTL

(* A chunk closer to the question than a source is a source before it.     *)
LEMMA BestFirst ==
  ASSUME Retrieved, Numbered, NEW k \in Nat, Corpus = 1..k,
         NEW i \in 1..Len(sources), NEW c \in Corpus, score[c] > score[sources[i].chunk]
  PROVE  \E j \in 1..(i - 1) : sources[j].chunk = c
<1>1. PICK n \in Nat : n = Len(sources) /\ n <= Len(hits)
  BY DEF Numbered
<1>2. Len(hits) \in Nat /\ i \in 1..Len(hits) /\ sources[i].chunk = Ordered[i] /\ Corpus \subseteq Nat
  BY <1>1, OrderedOf DEF Numbered
<1>3. Ordered[i] \in ToSet(hits) /\ Ordered[i] \in Corpus
  BY <1>2, OrderedOf
<1>4. c \in ToSet(hits)
  BY <1>2, <1>3, BestHits
<1>5. PICK j \in 1..Len(hits) : Ordered[j] = c
  BY <1>2, <1>4, OrderedOf
<1>6. score[c] \in Int /\ score[Ordered[i]] \in Int
  BY <1>3, AnsweringAssumption DEF Retrieved
<1>7. j < i
  <2>1. CASE i < j
    <3>1. score[Ordered[i]] >= score[c]
      BY <1>2, <1>5, <2>1, OrderedOf
    <3> QED
      BY <1>2, <1>6, <3>1
  <2>2. CASE i = j
    BY <1>2, <1>5, <1>6, <2>2
  <2> QED
    BY <1>2, <2>1, <2>2
<1>8. j \in 1..n /\ j \in 1..(i - 1)
  BY <1>1, <1>2, <1>7
<1> QED
  BY <1>1, <1>5, <1>8 DEF Numbered

(* The sources are a best part of the corpus within the budget, however    *)
(* long the chunks and their headings are.                                 *)
THEOREM BestSources == Spec => []BestSourcesFit
<1>1. CutInv /\ VectorsInv /\ AnswerInv => BestSourcesFit
  <2> SUFFICES ASSUME CutInv, VectorsInv, AnswerInv PROVE BestSourcesFit
    OBVIOUS
  <2>1. CASE Untouched
    BY <2>1, AnsweringAssumption DEF BestSourcesFit, Untouched
  <2>2. CASE Retrieved /\ Numbered /\ Judged
    <3>1. PICK k \in Nat : Corpus = 1..k
      BY CorpusOf
    <3>2. \A i \in 1..Len(sources) : \A c \in Corpus :
            score[c] > score[sources[i].chunk] => \E j \in 1..(i - 1) : sources[j].chunk = c
      BY <2>2, <3>1, BestFirst
    <3> QED
      BY <2>2, <3>2 DEF BestSourcesFit, Numbered
  <2> QED
    BY <2>1, <2>2, AnswerIs
<1> QED
  BY <1>1, AnswerAlways, PTL

(* An answer that counts as grounded names a source it was shown, and what *)
(* a citation's anchors span lies in the section its source is shown with: *)
(* the gate, the numbering of the sources and the chunker's anchors taken  *)
(* together.                                                               *)
THEOREM GroundedAnswers == Spec => []GroundedMeansCited
<1>1. CutInv /\ VectorsInv /\ AnswerInv => GroundedMeansCited
  <2> SUFFICES ASSUME CutInv, VectorsInv, AnswerInv, phase = "answered" PROVE GroundedMeansCited
    BY DEF GroundedMeansCited
  <2>1. Retrieved /\ Numbered /\ Judged
    BY AnswerIs
  <2>2. AnchorsAreExact /\ SectionsDoNotBleed
    BY Exact, NoneBleeds DEF CutInv
  <2>3. reply.grounded => reply.cited \cap (1..Len(sources)) # {} /\ ~reply.refused
    BY <2>1 DEF Judged
  <2>4. ASSUME NEW m \in reply.citations
        PROVE  m \in 1..Len(sources) /\ sources[m].chunk \in 1..Len(chunks)
    <3>1. m \in 1..Len(sources)
      BY <2>1 DEF Judged
    <3>2. sources \in Seq([chunk : Corpus, content : Nat \ {0}])
      BY <2>1 DEF Numbered
    <3>3. sources[m] \in [chunk : Corpus, content : Nat \ {0}]
      BY <3>1, <3>2, Element
    <3>4. sources[m].chunk \in Corpus
      BY <3>3
    <3> QED
      BY <3>1, <3>4, CorpusOf
  <2>5. ASSUME NEW m \in reply.citations, NEW x \in Sentences, Spans(sources[m].chunk, x[1], x[2])
        PROVE  Enclosing(x[1]) = ToSet(chunks[sources[m].chunk].section)
    <3>1. PICK c \in 1..Len(chunks) : c = sources[m].chunk
      BY <2>4
    <3>2. Covers(c, x[1], x[2])
      BY <2>2, <2>5, <3>1 DEF AnchorsAreExact
    <3>3. PICK p \in 1..Len(chunks[c].text) : chunks[c].text[p].block = x[1]
      BY <3>2 DEF Covers
    <3> QED
      BY <2>2, <3>1, <3>3 DEF SectionsDoNotBleed
  <2> QED
    BY <2>3, <2>4, <2>5 DEF GroundedMeansCited
<1> QED
  BY <1>1, AnswerAlways, PTL

-----------------------------------------------------------------------------
(* What the variables hold, from the first line of a file to its citation. *)
THEOREM TypeCorrect == Spec => []TypeOK
<1>1. CutInv /\ VectorsInv /\ AnswerInv => TypeOK
  <2> SUFFICES ASSUME CutInv, VectorsInv, AnswerInv PROVE TypeOK
    OBVIOUS
  <2>1. /\ next \in 1..(Len(doc) + 2) /\ split.at \in Nat /\ split.start \in Nat
        /\ overlap \in Nat /\ Repeats(overlap, chunks) /\ Len(chunks) \in Nat
    BY Known DEF CutInv, IInv, TypeInv
  <2>2. split.start \in 0..split.at
    <3>1. CASE split = NoSplit
      BY <3>1 DEF NoSplit
    <3>2. CASE split # NoSplit
      BY <2>1, <3>2 DEF CutInv, IInv, SplitInv
    <3> QED
      BY <3>1, <3>2
  <2>3. overlap \in 0..Len(chunks)
    BY <2>1 DEF Repeats
  <2>4. bodyTokens \in 0..MaxTokens
    BY KnownFit DEF CutInv
  <2>5. CASE phase \in {"parse", "index", "embed", "question", "failed"} /\ Untouched
    <3>1. /\ DOMAIN score = {} /\ ToSet(score) = {} /\ threshold = 0 /\ hits \in Seq(Corpus) /\ Len(hits) = 0
          /\ sources \in Seq([chunk : Corpus, content : Nat \ {0}]) /\ Len(sources) = 0 /\ used = 0
          /\ reply.citations = {}
      BY <2>5 DEF Untouched, NoReply, ToSet
    <3> QED
      BY <2>1, <2>2, <2>3, <2>4, <2>5, <3>1, AnsweringAssumption DEF TypeOK
  <2>6. CASE phase \in {"retrieved", "assembling", "generating", "answered", "failed"}
             /\ Retrieved /\ Numbered /\ Judged
    <3>1. DOMAIN score = Corpus /\ ToSet(score) \subseteq Scores
      BY <2>6 DEF Retrieved, ToSet
    <3>2. reply.citations \subseteq 1..MaxSources
      <4>1. PICK n \in Nat : n = Len(sources) /\ n <= MaxSources
        BY <2>6 DEF Numbered
      <4> QED
        BY <2>6, <4>1, AnsweringAssumption DEF Judged
    <3> QED
      BY <2>1, <2>2, <2>3, <2>4, <2>6, <3>1, <3>2 DEF TypeOK, Retrieved, Numbered
  <2> QED
    BY <2>5, <2>6, AnswerIs
<1> QED
  BY <1>1, AnswerAlways, PTL
=============================================================================
