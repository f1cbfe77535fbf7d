---------------------------- MODULE DocParserProofs ----------------------------
(***************************************************************************)
(* What TLAPS proves of the translation of a document (DocParser), for any *)
(* number of blocks and any tree of them: the state has its types, and the *)
(* text of a document comes through in its order, once and whole.          *)
(***************************************************************************)
EXTENDS DocParser, FiniteSetTheorems, SequenceTheorems, TLAPS

-----------------------------------------------------------------------------
(* The invariant.                                                          *)

(* How far the walk is: the block of the next call, which is the next one  *)
(* of the document but for blocks below one that was skipped.              *)
Front == IF calls = <<>> THEN BlockCount + 1 ELSE calls[1].block

(* The calls to come are those of the blocks that hang on one already      *)
(* passed, in the order of the document.                                   *)
CallsRise == \A i, j \in DOMAIN calls : i < j => calls[i].block < calls[j].block

Hanging == {c \in Blocks : c >= Front /\ parent[c] < Front}

CallsAreHanging ==
  IF Front = Page
  THEN Len(calls) = 1 /\ consumed = {} /\ lines = <<>>
  ELSE /\ \A i \in DOMAIN calls : calls[i].block \in Hanging
       /\ \A c \in Hanging : \E i \in DOMAIN calls : calls[i].block = c

(* What is in a table is not called, or, as the cells are, already         *)
(* consumed; nothing else that is consumed is still to come.               *)
CallsAreOutside ==
  \A i \in DOMAIN calls :
    calls[i].block # Page =>
      /\ ~InTable(parent[calls[i].block])
      /\ KindOf(parent[calls[i].block]) = "table" => calls[i].block \in consumed

ConsumedIsPassed == \A b \in consumed : b < Front \/ (b # Page /\ InTable(b))

(* What is shown has been passed, or is in a table that has.               *)
PassedTable(b) == \E t \in Above(b) : KindOf(t) = "table" /\ t < Front
ShownIsPassed == \A b \in Shown : b < Front \/ PassedTable(b)

(* What has been passed is shown, and so are the texts of the cells of a   *)
(* table that has.                                                         *)
HasShow(b) == kind[b] \in {"text", "image", "item", "table"}
CellShow(b) == kind[b] \in {"text", "item"} /\ KindOf(parent[b]) = "cell"

PassedIsShown ==
  \A b \in Blocks :
    /\ b < Front /\ ~InTable(b) /\ HasShow(b) => b \in Shown
    /\ CellShow(b) /\ parent[parent[b]] < Front /\ ~InTable(parent[parent[b]]) => b \in Shown

Document == InDocumentNumbers /\ WellFormed

ParserInv ==
  /\ ParserTypeOK /\ Document
  /\ CallsRise /\ CallsAreHanging /\ CallsAreOutside
  /\ ConsumedIsPassed /\ ShownIsPassed /\ PassedIsShown
  /\ InDocumentOrder

-----------------------------------------------------------------------------
(* The blocks of a set, in order.                                          *)

(* The rank of a block among those of a set is smaller than that of a      *)
(* later one: no two have the same, and every rank is somebody's.          *)
LEMMA InOrderRises ==
  ASSUME NEW S \in SUBSET Blocks
  PROVE  /\ InOrder(S) \in Seq(S) /\ Rising(InOrder(S))
         /\ \A s \in S : \E i \in DOMAIN InOrder(S) : InOrder(S)[i] = s
<1> DEFINE n == Cardinality(S)
           before(c) == {d \in S : d < c}
           rank == [c \in S |-> Cardinality(before(c)) + 1]
<1>1. IsFiniteSet(S) /\ n \in Nat
  <2>1. IsFiniteSet(1..BlockCount)
    BY ParserAssumption, FS_Interval
  <2>2. IsFiniteSet(S)
    BY <2>1, FS_Subset DEF Blocks
  <2>3. QED
    BY <2>2, FS_CardinalityType
<1>2. \A c \in S : c \in Int
  BY DEF Blocks
<1>3. ASSUME NEW c \in S
      PROVE  IsFiniteSet(before(c)) /\ Cardinality(before(c)) \in 0..(n - 1)
  <2>1. before(c) \in SUBSET S /\ before(c) # S
    BY <1>2
  <2>2. IsFiniteSet(before(c)) /\ Cardinality(before(c)) <= n /\ Cardinality(before(c)) # n
    BY <1>1, <2>1, FS_Subset
  <2>3. Cardinality(before(c)) \in Nat
    BY <2>2, FS_CardinalityType
  <2> HIDE DEF before, n
  <2>4. QED
    BY <1>1, <2>2, <2>3
<1>4. ASSUME NEW c \in S, NEW d \in S, c < d
      PROVE  Cardinality(before(c)) < Cardinality(before(d))
  <2>1. before(c) \in SUBSET before(d)
    BY <1>2, <1>4
  <2>2. c \in before(d) /\ c \notin before(c)
    BY <1>2, <1>4
  <2>3. Cardinality(before(c)) <= Cardinality(before(d)) /\ Cardinality(before(c)) # Cardinality(before(d))
    BY <1>3, <2>1, <2>2, FS_Subset
  <2> HIDE DEF before, n
  <2>4. QED
    BY <1>1, <1>3, <2>3
<1>5. InOrder(S) = [i \in 1..n |-> CHOOSE b \in S : Cardinality(before(b)) = i - 1]
  BY DEF InOrder
<1> HIDE DEF before, n
<1>6. rank \in [S -> 1..n]
  BY <1>1, <1>3
<1>7. ASSUME NEW c \in S, NEW d \in S, rank[c] = rank[d] PROVE c = d
  <2>1. Cardinality(before(c)) = Cardinality(before(d))
    BY <1>3, <1>7
  <2>2. QED
    BY <1>2, <1>3, <1>4, <2>1
<1>8. rank \in Injection(S, 1..n)
  BY <1>6, <1>7 DEF Injection, IsInjective
<1>9. rank \in Surjection(S, 1..n)
  <2>1. IsFiniteSet(1..n) /\ Cardinality(1..n) = n
    BY <1>1, FS_Interval
  <2>2. Cardinality(S) = Cardinality(1..n)
    BY <2>1 DEF n
  <2> HIDE DEF rank
  <2>3. QED
    BY <1>8, <2>1, <2>2, FS_Injection
<1>10. ASSUME NEW i \in 1..n
       PROVE  InOrder(S)[i] \in S /\ Cardinality(before(InOrder(S)[i])) = i - 1
  <2>1. \E c \in S : rank[c] = i
    BY <1>9 DEF Surjection
  <2>2. \E c \in S : Cardinality(before(c)) = i - 1
    BY <1>1, <1>3, <2>1
  <2>3. QED
    BY <1>5, <2>2
<1>11. DOMAIN InOrder(S) = 1..n /\ InOrder(S) \in Seq(S)
  <2>1. InOrder(S) \in [1..n -> S]
    BY <1>5, <1>10
  <2>2. QED
    BY <1>1, <2>1, SeqDef
<1>12. Rising(InOrder(S))
  <2>1. SUFFICES ASSUME NEW i \in 1..n, NEW j \in 1..n, i < j
                 PROVE  InOrder(S)[i] < InOrder(S)[j]
    BY <1>11 DEF Rising
  <2>2. PICK c \in S : c = InOrder(S)[i] /\ Cardinality(before(c)) = i - 1
    BY <1>10
  <2>3. PICK d \in S : d = InOrder(S)[j] /\ Cardinality(before(d)) = j - 1
    BY <1>10
  <2>4. c < d
    BY <1>1, <1>2, <1>4, <2>1, <2>2, <2>3
  <2>5. QED
    BY <2>2, <2>3, <2>4
<1>13. ASSUME NEW s \in S PROVE \E i \in DOMAIN InOrder(S) : InOrder(S)[i] = s
  <2>1. PICK i \in 1..n : Cardinality(before(s)) = i - 1
    BY <1>1, <1>3
  <2>2. PICK c \in S : c = InOrder(S)[i] /\ Cardinality(before(c)) = i - 1
    BY <1>10
  <2>3. c = s
    BY <1>2, <1>3, <1>4, <2>1, <2>2
  <2>4. QED
    BY <1>11, <2>2, <2>3
<1>14. QED
  BY <1>11, <1>12, <1>13

-----------------------------------------------------------------------------
(* The tree.                                                               *)

LEMMA ParentTypes ==
  ASSUME ParserTypeOK
  PROVE  \A c \in Blocks : parent[c] \in 0..BlockCount /\ c \in 1..BlockCount
<1>1. Blocks \cup {Page} = 0..BlockCount
  BY ParserAssumption DEF Blocks, Page
<1>2. QED
  BY <1>1 DEF ParserTypeOK, Blocks

LEMMA AboveParent ==
  ASSUME ParserTypeOK, InDocumentNumbers, NEW b \in Blocks
  PROVE  parent[b] \in Above(b) /\ Above(b) \subseteq Above(parent[b]) \cup {parent[b]}
<1>1. parent[b] \in 0..(b - 1) /\ \A c \in Blocks : parent[c] \in Int /\ parent[c] < c
  BY ParentTypes, ParserAssumption DEF InDocumentNumbers
<1>2. parent[b] \in Above(b)
  <2>1. ASSUME NEW c \in (parent[b] + 1)..b PROVE parent[b] <= parent[c]
    BY <1>1, ParserAssumption DEF InDocumentNumbers, Blocks
  <2>2. QED
    BY <1>1, <2>1 DEF Above
<1>3. ASSUME NEW a \in Above(b), a # parent[b] PROVE a \in Above(parent[b])
  <2>1. a \in 0..(b - 1) /\ \A c \in (a + 1)..b : a <= parent[c]
    BY DEF Above
  <2>2. a \in Int /\ b \in Int /\ a + 1 <= b
    BY <2>1, ParentTypes, ParserAssumption
  <2>3. b \in (a + 1)..b
    BY <2>2
  <2>4. a < parent[b]
    BY <1>1, <1>3, <2>1, <2>2, <2>3
  <2>5. QED
    BY <1>1, <2>1, <2>2, <2>4 DEF Above
<1>4. QED
  BY <1>2, <1>3

LEMMA AboveAbove ==
  ASSUME ParserTypeOK, NEW b \in Blocks \cup {Page}, NEW a \in Above(b)
  PROVE  a \in Blocks \cup {Page} /\ a < b /\ b \in Blocks /\ Above(a) \subseteq Above(b)
<1>1. a \in 0..(b - 1) /\ b \in 1..BlockCount /\ a \in Blocks \cup {Page} /\ a < b
  <2>1. b \in 0..BlockCount /\ a \in 0..(b - 1)
    BY ParserAssumption DEF Above, Blocks, Page
  <2>2. QED
    BY <2>1, ParserAssumption DEF Blocks, Page
<1>2. ASSUME NEW d \in Above(a) PROVE d \in Above(b)
  <2>1. d \in 0..(a - 1) /\ \A c \in (d + 1)..a : d <= parent[c]
    BY DEF Above
  <2>2. ASSUME NEW c \in (a + 1)..b PROVE a <= parent[c] /\ parent[c] \in Int
    <3>1. c \in Blocks /\ a <= parent[c]
      BY <1>1, ParserAssumption DEF Above, Blocks
    <3>2. QED
      BY <3>1, ParentTypes
  <2>3. ASSUME NEW c \in (d + 1)..b PROVE d <= parent[c]
    BY <1>1, <2>1, <2>2
  <2>4. QED
    BY <1>1, <2>1, <2>3 DEF Above
<1>3. QED
  BY <1>1, <1>2 DEF Blocks

(* What is above a block is above all between the two.                     *)
LEMMA AboveBetween ==
  ASSUME NEW b \in Blocks, NEW a \in Above(b), NEW c \in Blocks, a < c, c <= b
  PROVE  a \in Above(c)
BY ParserAssumption DEF Above, Blocks

(* What is below a table, or below something in one, is in a table.        *)
LEMMA InTableBelow ==
  ASSUME ParserTypeOK, NEW b \in Blocks \cup {Page}, NEW a \in Above(b),
         KindOf(a) = "table" \/ InTable(a)
  PROVE  InTable(b)
BY AboveAbove DEF InTable

-----------------------------------------------------------------------------
(* The calls.                                                              *)

CallTypes == [block : Blocks \cup {Page}, under : Kinds \cup {"none", "page"}, level : Nat]

LEMMA ChildrenRise ==
  ASSUME NEW b \in Blocks \cup {Page}
  PROVE  /\ ChildrenOf(b) \in Seq(Blocks) /\ Rising(ChildrenOf(b))
         /\ \A i \in DOMAIN ChildrenOf(b) : ChildrenOf(b)[i] \in Blocks /\ parent[ChildrenOf(b)[i]] = b
         /\ \A c \in Blocks : parent[c] = b => \E i \in DOMAIN ChildrenOf(b) : ChildrenOf(b)[i] = c
<1> DEFINE S == {c \in Blocks : parent[c] = b}
<1>1. ChildrenOf(b) \in Seq(S) /\ Rising(ChildrenOf(b))
      /\ \A c \in S : \E i \in DOMAIN ChildrenOf(b) : ChildrenOf(b)[i] = c
  BY InOrderRises DEF ChildrenOf
<1>2. ChildrenOf(b) \in Seq(Blocks)
  BY <1>1, SeqMonotonic
<1>3. \A i \in DOMAIN ChildrenOf(b) : ChildrenOf(b)[i] \in S
  BY <1>1
<1>4. QED
  BY <1>1, <1>2, <1>3

(* The next call, and the ones after it.                                   *)
LEMMA NextCall ==
  ASSUME ParserTypeOK, CallsRise, CallsAreHanging, calls # <<>>
  PROVE  /\ calls \in Seq(CallTypes) /\ Len(calls) \in Nat \ {0} /\ DOMAIN calls = 1..Len(calls)
         /\ Front = Block /\ Block \in 0..BlockCount /\ Block \in Blocks \cup {Page}
         /\ \A i \in 2..Len(calls) :
               /\ calls[i].block \in Blocks /\ calls[i].block > Block
               /\ parent[calls[i].block] < Block
<1>1. calls \in Seq(CallTypes) /\ Len(calls) \in Nat \ {0} /\ DOMAIN calls = 1..Len(calls)
  BY EmptySeq, LenProperties DEF ParserTypeOK, CallTypes
<1>2. \A i \in 1..Len(calls) : calls[i] \in CallTypes
  BY <1>1, ElementOfSeq
<1>3. Front = Block /\ Block \in Blocks \cup {Page}
  BY <1>1, <1>2 DEF Front, Block, Call, CallTypes
<1>4. Block \in 0..BlockCount
  BY <1>3, ParserAssumption DEF Blocks, Page
<1>5. ASSUME NEW i \in 2..Len(calls)
      PROVE  calls[i].block \in Blocks /\ calls[i].block > Block /\ parent[calls[i].block] < Block
  <2>1. Block < calls[i].block
    BY <1>1, <1>5 DEF CallsRise, Block, Call
  <2>2. Front # Page
    BY <1>1, <1>5 DEF CallsAreHanging
  <2>3. calls[i].block \in Hanging
    BY <1>1, <1>5, <2>2 DEF CallsAreHanging
  <2>4. QED
    BY <1>3, <1>4, <2>1, <2>3, ParserAssumption DEF Hanging, Blocks
<1>6. QED
  BY <1>1, <1>3, <1>4, <1>5

(* A block is rendered: the next call is that of the next block, and what  *)
(* hangs on the blocks passed is what did and the children of this one.    *)
LEMMA Walked ==
  ASSUME ParserTypeOK, InDocumentNumbers, CallsRise, CallsAreHanging, calls # <<>>,
         NEW level \in Nat, WalkInto(level), UNCHANGED <<kind, parent>>
  PROVE  /\ calls' \in Seq(CallTypes) /\ CallsRise' /\ CallsAreHanging'
         /\ Front' = Block + 1
         /\ \A i \in DOMAIN calls' :
               \/ calls'[i].block \in Blocks /\ parent[calls'[i].block] = Block
               \/ \E j \in 2..Len(calls) : calls'[i] = calls[j]
<1> DEFINE cs == ChildrenOf(Block)
           n  == Len(cs)
           m  == Len(calls)
           W  == [i \in DOMAIN cs |-> [block |-> cs[i], under |-> KindOf(Block), level |-> level]]
<1>1. /\ calls \in Seq(CallTypes) /\ m \in Nat \ {0} /\ Front = Block /\ Block \in 0..BlockCount
      /\ Block \in Blocks \cup {Page} /\ DOMAIN calls = 1..m
  BY NextCall
<1>2. \A j \in 2..m : /\ calls[j].block \in Blocks /\ calls[j].block > Block
                      /\ parent[calls[j].block] < Block
  BY NextCall
<1>3. /\ cs \in Seq(Blocks) /\ n \in Nat /\ DOMAIN cs = 1..n /\ Rising(cs)
      /\ \A i \in 1..n : cs[i] \in Blocks /\ parent[cs[i]] = Block
      /\ \A c \in Blocks : parent[c] = Block => \E i \in 1..n : cs[i] = c
  BY <1>1, ChildrenRise, LenProperties
<1> HIDE DEF cs, n
<1>4. KindOf(Block) \in Kinds \cup {"none", "page"}
  BY <1>1 DEF KindOf, ParserTypeOK
<1>5. /\ W \in Seq(CallTypes) /\ Len(W) = n
      /\ \A i \in 1..n : W[i].block = cs[i]
  <2>1. W \in [1..n -> CallTypes]
    BY <1>3, <1>4 DEF CallTypes
  <2>2. \A i \in 1..n : W[i].block = cs[i]
    BY <1>3
  <2> HIDE DEF W
  <2>3. W \in Seq(CallTypes) /\ Len(W) = n
    BY <1>3, <2>1, SeqDef
  <2>4. QED
    BY <2>2, <2>3
<1>6. /\ Tail(calls) \in Seq(CallTypes) /\ Len(Tail(calls)) = m - 1
      /\ \A i \in 1..(m - 1) : Tail(calls)[i] = calls[i + 1]
  BY <1>1, HeadTailProperties
<1>7. calls' = W \o Tail(calls)
  BY DEF WalkInto, W, cs
<1> HIDE DEF W, m
<1>8. /\ calls' \in Seq(CallTypes) /\ Len(calls') = n + m - 1 /\ DOMAIN calls' = 1..(n + m - 1)
      /\ \A i \in 1..n : calls'[i].block = cs[i]
      /\ \A i \in (n + 1)..(n + m - 1) : calls'[i] = calls[i - n + 1]
  <2>1. /\ calls' \in Seq(CallTypes) /\ Len(calls') = n + (m - 1)
        /\ \A i \in 1..(n + (m - 1)) :
              calls'[i] = IF i <= n THEN W[i] ELSE Tail(calls)[i - n]
    <3>1. /\ W \o Tail(calls) \in Seq(CallTypes)
          /\ Len(W \o Tail(calls)) = Len(W) + Len(Tail(calls))
          /\ \A i \in 1..(Len(W) + Len(Tail(calls))) :
                (W \o Tail(calls))[i] = IF i <= Len(W) THEN W[i] ELSE Tail(calls)[i - Len(W)]
      BY <1>5, <1>6, ConcatProperties
    <3>2. Len(W) = n /\ Len(Tail(calls)) = m - 1
      BY <1>5, <1>6
    <3>3. QED
      BY <1>7, <3>1, <3>2
  <2>2. DOMAIN calls' = 1..Len(calls')
    BY <2>1, LenProperties
  <2>3. ASSUME NEW i \in 1..n PROVE calls'[i].block = cs[i]
    <3>1. i \in 1..(n + (m - 1)) /\ i <= n
      BY <1>1, <1>3
    <3>2. calls'[i] = W[i]
      BY <2>1, <3>1
    <3>3. QED
      BY <1>5, <3>2
  <2>4. ASSUME NEW i \in (n + 1)..(n + m - 1) PROVE calls'[i] = calls[i - n + 1]
    <3>1. i \in 1..(n + (m - 1)) /\ ~(i <= n) /\ i - n \in 1..(m - 1)
      BY <1>1, <1>3
    <3>2. calls'[i] = Tail(calls)[i - n] /\ Tail(calls)[i - n] = calls[(i - n) + 1]
      BY <1>6, <2>1, <3>1
    <3>3. QED
      BY <3>2
  <2>5. QED
    BY <1>1, <1>3, <2>1, <2>2, <2>3, <2>4
<1>9. \A c \in Blocks : c \in Nat /\ parent[c] \in Nat /\ c <= BlockCount /\ parent[c] < c
  BY ParentTypes, ParserAssumption DEF InDocumentNumbers
<1>10. CallsRise'
  <2>1. SUFFICES ASSUME NEW i \in 1..(n + m - 1), NEW j \in 1..(n + m - 1), i < j
                 PROVE  calls'[i].block < calls'[j].block
    BY <1>8 DEF CallsRise
  <2>2. CASE j <= n
    <3>1. i \in 1..n /\ j \in 1..n
      BY <1>1, <1>3, <2>1, <2>2
    <3>2. cs[i] < cs[j]
      BY <1>3, <2>1, <3>1 DEF Rising
    <3>3. QED
      BY <1>8, <3>1, <3>2
  <2>3. CASE i <= n /\ j > n
    <3>1. i \in 1..n /\ j \in (n + 1)..(n + m - 1) /\ j - n + 1 \in 2..m
      BY <1>1, <1>3, <2>1, <2>3
    <3> DEFINE c == calls'[i].block
               d == calls'[j].block
    <3>2. c \in Blocks /\ parent[c] = Block
      BY <1>3, <1>8, <3>1
    <3>3. d \in Blocks /\ d > Block /\ parent[d] < Block
      BY <1>2, <1>8, <3>1
    <3> HIDE DEF c, d
    <3>4. ~(d < c) /\ d # c
      BY <1>1, <1>9, <3>2, <3>3 DEF InDocumentNumbers
    <3>5. c < d
      BY <1>9, <3>2, <3>3, <3>4
    <3>6. QED
      BY <3>5 DEF c, d
  <2>4. CASE i > n
    <3>1. /\ i \in (n + 1)..(n + m - 1) /\ j \in (n + 1)..(n + m - 1)
          /\ i - n + 1 \in 1..m /\ j - n + 1 \in 1..m /\ i - n + 1 < j - n + 1
      BY <1>1, <1>3, <2>1, <2>4
    <3>2. calls[i - n + 1].block < calls[j - n + 1].block
      BY <1>1, <3>1 DEF CallsRise
    <3>3. QED
      BY <1>8, <3>1, <3>2
  <2>5. QED
    BY <1>1, <1>3, <2>1, <2>2, <2>3, <2>4
<1>11. ASSUME NEW i \in 1..(n + m - 1)
       PROVE  /\ calls'[i].block \in Blocks
              /\ calls'[i].block > Block /\ parent[calls'[i].block] <= Block
              /\ \/ parent[calls'[i].block] = Block
                 \/ \E j \in 2..m : calls'[i] = calls[j]
  <2>1. CASE i <= n
    <3>1. i \in 1..n
      BY <1>3, <2>1
    <3>2. calls'[i].block \in Blocks /\ parent[calls'[i].block] = Block
      BY <1>3, <1>8, <3>1
    <3>3. QED
      BY <1>9, <3>2
  <2>2. CASE i > n
    <3>1. i \in (n + 1)..(n + m - 1) /\ i - n + 1 \in 2..m
      BY <1>1, <1>3, <2>2
    <3>2. PICK j \in 2..m : calls'[i] = calls[j]
      BY <1>8, <3>1
    <3>3. calls'[i].block \in Blocks /\ calls'[i].block > Block /\ parent[calls'[i].block] < Block
      BY <1>2, <3>2
    <3>4. parent[calls'[i].block] <= Block
      <4>1. \A c \in Blocks : parent[c] < Block => parent[c] <= Block
        BY <1>1, <1>9
      <4>2. QED
        BY <3>3, <4>1
    <3>5. QED
      BY <3>2, <3>3, <3>4
  <2>3. QED
    BY <1>1, <1>3, <2>1, <2>2
<1>12. ASSUME NEW c \in Blocks, c > Block, parent[c] <= Block
       PROVE  \E i \in 1..(n + m - 1) : calls'[i].block = c
  <2>1. CASE parent[c] = Block
    <3>1. PICK i \in 1..n : cs[i] = c
      BY <1>3, <2>1
    <3>2. i \in 1..(n + m - 1)
      BY <1>1, <1>3
    <3>3. QED
      BY <1>8, <3>1, <3>2
  <2>2. CASE parent[c] < Block
    <3>1. Front # Page
      BY <1>1, <1>9, <2>2 DEF Page
    <3>2. c \in Hanging
      BY <1>1, <1>9, <1>12, <2>2 DEF Hanging
    <3>3. PICK j \in 1..m : calls[j].block = c
      BY <1>1, <3>1, <3>2 DEF CallsAreHanging
    <3>4. j # 1
      BY <1>1, <1>12, <1>9, <3>3 DEF Block, Call
    <3>5. j + n - 1 \in (n + 1)..(n + m - 1) /\ (j + n - 1) - n + 1 = j
          /\ j + n - 1 \in 1..(n + m - 1)
      BY <1>1, <1>3, <3>4
    <3>6. calls'[j + n - 1] = calls[j]
      BY <1>8, <3>5
    <3>7. QED
      BY <3>3, <3>5, <3>6
  <2>3. QED
    BY <1>1, <1>9, <1>12, <2>1, <2>2
<1>13. Front' = Block + 1
  <2>1. Front' = IF calls' = <<>> THEN BlockCount + 1 ELSE calls'[1].block
    BY DEF Front
  <2>2. CASE Block = BlockCount
    <3>1. ASSUME NEW i \in 1..(n + m - 1) PROVE FALSE
      <4>1. calls'[i].block \in Blocks /\ calls'[i].block > Block
        BY <1>11
      <4>2. QED
        BY <1>9, <2>2, <4>1, ParserAssumption
    <3>2. calls' = <<>>
      <4>1. 1 \notin 1..(n + m - 1)
        BY <3>1
      <4>2. n + m - 1 = 0
        BY <1>1, <1>3, <4>1
      <4>3. QED
        BY <1>8, <4>2, EmptySeq
    <3>3. QED
      BY <2>1, <2>2, <3>2
  <2>3. CASE Block # BlockCount
    <3>1. Block + 1 \in Blocks /\ Block \in Nat
      BY <1>1, <2>3, ParserAssumption DEF Blocks
    <3>2. parent[Block + 1] <= Block
      BY <1>1, <1>9, <3>1
    <3>3. PICK i \in 1..(n + m - 1) : calls'[i].block = Block + 1
      BY <1>1, <1>12, <3>1, <3>2
    <3>4. 1 \in 1..(n + m - 1) /\ calls' # <<>>
      BY <1>1, <1>3, <1>8, <3>3
    <3>5. calls'[1].block \in Blocks /\ calls'[1].block > Block
      BY <1>11, <3>4
    <3>6. calls'[1].block <= Block + 1
      <4>1. CASE i = 1
        BY <3>1, <3>3, <4>1
      <4>2. CASE i # 1
        <5>1. calls'[1].block < calls'[i].block
          <6>1. \A k, l \in DOMAIN calls' : k < l => calls'[k].block < calls'[l].block
            BY <1>10 DEF CallsRise
          <6>2. 1 \in DOMAIN calls' /\ i \in DOMAIN calls' /\ 1 < i
            BY <1>1, <1>3, <1>8, <3>3, <3>4, <4>2
          <6>3. QED
            BY <6>1, <6>2
        <5>2. QED
          BY <1>9, <3>1, <3>3, <3>5, <5>1
      <4>3. QED
        BY <4>1, <4>2
    <3>7. QED
      BY <1>9, <2>1, <3>1, <3>4, <3>5, <3>6
  <2>4. QED
    BY <2>2, <2>3
<1>14. \A c \in Blocks : c \in Hanging' <=> c > Block /\ parent[c] <= Block
  BY <1>1, <1>9, <1>13 DEF Hanging, Blocks
<1>15. CallsAreHanging'
  <2>1. Front' # Page
    BY <1>1, <1>13 DEF Page
  <2>2. (Front # Page)' /\ DOMAIN calls' = 1..(n + m - 1)
    BY <1>8, <2>1 DEF Page
  <2>3. QED
    BY <1>11, <1>12, <1>14, <2>2 DEF CallsAreHanging, Hanging
<1>16. QED
  BY <1>8, <1>10, <1>11, <1>13, <1>15 DEF m
(* A block is skipped: the next call is that of the next block that does   *)
(* not hang below it, and what hangs on the blocks passed is what did.     *)
LEMMA Skipped ==
  ASSUME ParserTypeOK, InDocumentNumbers, CallsRise, CallsAreHanging, calls # <<>>,
         Block # Page, calls' = Tail(calls), UNCHANGED <<kind, parent>>
  PROVE  /\ calls' \in Seq(CallTypes) /\ CallsRise' /\ CallsAreHanging'
         /\ Front' \in Nat /\ Front' > Block /\ Front' \in 1..(BlockCount + 1)
         /\ \A c \in Blocks : Block < c /\ c < Front' => Block \in Above(c)
         /\ \A i \in DOMAIN calls' : \E j \in 2..Len(calls) : calls'[i] = calls[j]
<1> DEFINE m == Len(calls)
<1>1. /\ calls \in Seq(CallTypes) /\ m \in Nat \ {0} /\ Front = Block /\ Block \in 0..BlockCount
      /\ Block \in Blocks \cup {Page} /\ DOMAIN calls = 1..m
  BY NextCall
<1>2. \A j \in 2..m : /\ calls[j].block \in Blocks /\ calls[j].block > Block
                      /\ parent[calls[j].block] < Block
  BY NextCall
<1>3. /\ calls' \in Seq(CallTypes) /\ Len(calls') = m - 1
      /\ \A i \in 1..(m - 1) : calls'[i] = calls[i + 1]
  BY <1>1, HeadTailProperties
<1> HIDE DEF m
<1>4. DOMAIN calls' = 1..(m - 1)
  BY <1>3, LenProperties
<1>5. \A c \in Blocks : c \in Nat /\ parent[c] \in Nat /\ c <= BlockCount /\ parent[c] < c
  BY ParentTypes, ParserAssumption DEF InDocumentNumbers
<1>6. ASSUME NEW i \in 1..(m - 1)
      PROVE  /\ \E j \in 2..m : calls'[i] = calls[j]
             /\ calls'[i].block \in Blocks /\ calls'[i].block > Block
             /\ parent[calls'[i].block] < Block
  <2>1. i + 1 \in 2..m /\ calls'[i] = calls[i + 1]
    BY <1>1, <1>3
  <2>2. QED
    BY <1>2, <2>1
<1>7. ASSUME NEW c \in Blocks, c > Block, parent[c] < Block
      PROVE  \E i \in 1..(m - 1) : calls'[i].block = c
  <2>1. Front # Page /\ c \in Hanging
    BY <1>1, <1>5, <1>7 DEF Hanging, Page
  <2>2. PICK j \in 1..m : calls[j].block = c
    BY <1>1, <2>1 DEF CallsAreHanging
  <2>3. j # 1
    BY <1>1, <1>5, <1>7, <2>2 DEF Block, Call
  <2>4. j - 1 \in 1..(m - 1) /\ (j - 1) + 1 = j
    BY <1>1, <2>3
  <2>5. calls'[j - 1] = calls[j]
    BY <1>3, <2>4
  <2>6. QED
    BY <2>2, <2>4, <2>5
<1>8. CallsRise'
  <2>1. SUFFICES ASSUME NEW i \in 1..(m - 1), NEW j \in 1..(m - 1), i < j
                 PROVE  calls'[i].block < calls'[j].block
    BY <1>4 DEF CallsRise
  <2>2. i + 1 \in 1..m /\ j + 1 \in 1..m /\ i + 1 < j + 1
    BY <1>1, <2>1
  <2>3. calls[i + 1].block < calls[j + 1].block
    BY <1>1, <2>2 DEF CallsRise
  <2>4. QED
    BY <1>3, <2>3
<1>9. /\ Front' \in 1..(BlockCount + 1) /\ Front' > Block
      /\ Front' # BlockCount + 1 => Front' \in Blocks /\ parent[Front'] < Block
      /\ \A i \in 1..(m - 1) : Front' <= calls'[i].block
  <2>1. Front' = IF calls' = <<>> THEN BlockCount + 1 ELSE calls'[1].block
    BY DEF Front
  <2>2. CASE calls' = <<>>
    <3>1. m - 1 = 0
      BY <1>3, <2>2, EmptySeq
    <3>2. Front' = BlockCount + 1
      BY <2>1, <2>2
    <3>3. \A i \in 1..(m - 1) : FALSE
      BY <3>1
    <3>4. QED
      BY <1>1, <3>2, <3>3, ParserAssumption
  <2>3. CASE calls' # <<>>
    <3>1. 1 \in 1..(m - 1)
      BY <1>1, <1>3, <2>3, EmptySeq
    <3>2. Front' = calls'[1].block
      BY <2>1, <2>3
    <3>3. Front' \in Blocks /\ Front' > Block /\ parent[Front'] < Block
      BY <1>6, <3>1, <3>2
    <3>4. ASSUME NEW i \in 1..(m - 1) PROVE Front' <= calls'[i].block
      <4>1. CASE i = 1
        <5>1. calls'[i].block = Front'
          BY <3>2, <4>1
        <5>2. Front' \in Nat
          BY <1>5, <3>3
        <5>3. Front' <= Front'
          BY <5>2
        <5>4. QED
          BY <5>1, <5>3
      <4>2. CASE i # 1
        <5>1. 1 < i /\ i \in DOMAIN calls' /\ 1 \in DOMAIN calls'
          BY <1>1, <1>4, <3>1, <4>2
        <5>2. calls'[1].block < calls'[i].block
          BY <1>8, <5>1 DEF CallsRise
        <5>3. calls'[i].block \in Blocks
          BY <1>6
        <5>4. calls'[i].block \in Nat
          BY <1>5, <5>3
        <5>5. Front' \in Nat
          BY <1>5, <3>3
        <5>6. Front' < calls'[i].block
          BY <3>2, <5>2
        <5>7. \A x \in Nat : Front' < x => Front' <= x
          BY <5>5
        <5>8. QED
          BY <5>4, <5>6, <5>7
      <4>3. QED
        BY <4>1, <4>2
    <3>5. Front' \in 1..(BlockCount + 1)
      BY <3>3, ParserAssumption DEF Blocks
    <3>6. QED
      BY <3>3, <3>4, <3>5
  <2>4. QED
    BY <2>2, <2>3
<1>10. ASSUME NEW c \in Blocks, Block < c, c < Front'
       PROVE  parent[c] >= Block
  <2>1. SUFFICES ASSUME parent[c] < Block PROVE FALSE
    BY <1>1, <1>5
  <2>2. PICK i \in 1..(m - 1) : calls'[i].block = c
    BY <1>1, <1>5, <1>7, <1>10, <2>1
  <2>3. Front' <= calls'[i].block
    BY <1>9
  <2>4. c \in Nat /\ Front' \in Nat
    BY <1>5, <1>9, ParserAssumption
  <2>5. Front' <= c
    BY <2>2, <2>3
  <2>6. QED
    BY <1>10, <2>4, <2>5
<1>11. ASSUME NEW c \in Blocks, Block < c, c < Front'
       PROVE  Block \in Above(c)
  <2>1. Block \in 0..(c - 1)
    BY <1>1, <1>5, <1>11
  <2>2. ASSUME NEW d \in (Block + 1)..c PROVE Block <= parent[d]
    <3>1. d \in Blocks /\ Block < d /\ d < Front'
      BY <1>1, <1>5, <1>9, <1>11, ParserAssumption DEF Blocks
    <3>2. QED
      BY <1>1, <1>5, <1>10, <3>1
  <2>3. QED
    BY <2>1, <2>2 DEF Above
<1>12. ASSUME NEW c \in Blocks
       PROVE  c \in Hanging' <=> c > Block /\ parent[c] < Block
  <2>1. c \in Hanging' <=> c >= Front' /\ parent[c] < Front'
    BY DEF Hanging, Blocks
  <2>2. CASE c > Block /\ parent[c] < Block
    <3>1. PICK i \in 1..(m - 1) : calls'[i].block = c
      BY <1>7, <2>2
    <3>2. c >= Front'
      BY <1>9, <3>1
    <3>3. parent[c] < Front'
      BY <1>1, <1>5, <1>9, <2>2
    <3>4. QED
      BY <2>1, <2>2, <3>2, <3>3
  <2>3. CASE c >= Front' /\ parent[c] < Front'
    <3>1. c > Block
      BY <1>1, <1>5, <1>9, <2>3
    <3>2. Front' \in Blocks /\ parent[Front'] < Block
      <4>1. c \in Nat /\ Front' \in Nat /\ c <= BlockCount
        BY <1>5, <1>9, ParserAssumption
      <4>2. Front' # BlockCount + 1
        BY <2>3, <4>1, ParserAssumption
      <4>3. QED
        BY <1>9, <4>2
    <3>3. parent[c] < Block
      <4>1. CASE c = Front'
        BY <3>2, <4>1
      <4>2. CASE c # Front'
        <5>1. Front' < c
          BY <1>5, <1>9, <2>3, <4>2
        <5>2. parent[c] <= parent[Front']
          BY <2>3, <3>2, <5>1 DEF InDocumentNumbers
        <5>3. QED
          BY <1>1, <1>5, <3>2, <5>2
      <4>3. QED
        BY <4>1, <4>2
    <3>4. QED
      BY <2>1, <2>3, <3>1, <3>3
  <2>4. QED
    BY <2>1, <2>2, <2>3
<1>13. CallsAreHanging'
  <2>1. (Front # Page)'
    BY <1>9 DEF Page
  <2>2. QED
    BY <1>4, <1>6, <1>7, <1>12, <2>1 DEF CallsAreHanging, Hanging
<1>14. QED
  BY <1>3, <1>4, <1>6, <1>8, <1>9, <1>11, <1>13 DEF m
-----------------------------------------------------------------------------
(* The lines.                                                              *)

LEMMA BlankShowsNothing ==
  Blank \in Lines /\ ShownIn(Blank) = {} /\ RisingLine(Blank)
BY DEF Blank, Lines, ShownIn, RisingLine

(* One line is added among blank ones: its blocks are shown, and if it     *)
(* keeps their order and comes after all that is shown, so do the lines.   *)
LEMMA Grown ==
  ASSUME lines \in Seq(Lines), NEW new \in Seq(Lines), lines' = lines \o new,
         NEW p \in DOMAIN new, \A i \in DOMAIN new : i # p => new[i] = Blank
  PROVE  /\ lines' \in Seq(Lines)
         /\ Len(lines') = Len(lines) + Len(new)
         /\ \A i \in DOMAIN new : lines'[Len(lines) + i] = new[i]
         /\ Shown' = Shown \cup ShownIn(new[p])
         /\ InDocumentOrder /\ RisingLine(new[p])
            /\ (\A b \in Shown, c \in ShownIn(new[p]) : b < c)
            => InDocumentOrder'
<1> DEFINE m == Len(lines)
           n == Len(new)
<1>1. m \in Nat /\ n \in Nat /\ DOMAIN lines = 1..m /\ DOMAIN new = 1..n
  BY LenProperties
<1>2. /\ lines' \in Seq(Lines) /\ Len(lines') = m + n /\ DOMAIN lines' = 1..(m + n)
      /\ \A i \in 1..(m + n) : lines'[i] = IF i <= m THEN lines[i] ELSE new[i - m]
  BY ConcatProperties, LenProperties
<1> HIDE DEF m, n
<1>3. /\ \A i \in 1..m : i \in 1..(m + n) /\ lines'[i] = lines[i]
      /\ \A i \in 1..n : m + i \in 1..(m + n) /\ lines'[m + i] = new[i]
  <2>1. ASSUME NEW i \in 1..m PROVE i \in 1..(m + n) /\ lines'[i] = lines[i]
    BY <1>1, <1>2
  <2>2. ASSUME NEW i \in 1..n PROVE m + i \in 1..(m + n) /\ lines'[m + i] = new[i]
    <3>1. m + i \in 1..(m + n) /\ ~(m + i <= m) /\ (m + i) - m = i
      BY <1>1
    <3>2. QED
      BY <1>2, <3>1
  <2>3. QED
    BY <2>1, <2>2
<1>4. ASSUME NEW i \in 1..(m + n)
      PROVE  \/ i \in 1..m
             \/ i = m + p /\ lines'[i] = new[p]
             \/ i # m + p /\ lines'[i] = Blank
  <2>1. CASE i <= m
    BY <1>1, <2>1
  <2>2. CASE i > m
    <3>1. i - m \in 1..n /\ m + (i - m) = i /\ (i - m = p <=> i = m + p)
      BY <1>1, <2>2
    <3>2. lines'[i] = new[i - m]
      BY <1>3, <3>1
    <3>3. QED
      BY <1>1, <3>1, <3>2
  <2>3. QED
    BY <1>1, <2>1, <2>2
<1>5. Shown = UNION {ShownIn(lines[i]) : i \in 1..m} /\ Shown' = UNION {ShownIn(lines'[i]) : i \in 1..(m + n)}
  BY <1>1, <1>2 DEF Shown, ShownIn
<1>6. \A i \in 1..m : ShownIn(lines[i]) \subseteq Shown
  BY <1>5
<1>7. Shown' = Shown \cup ShownIn(new[p])
  <2>1. ASSUME NEW b \in Shown' PROVE b \in Shown \cup ShownIn(new[p])
    <3>1. PICK i \in 1..(m + n) : b \in ShownIn(lines'[i])
      BY <1>5
    <3>2. QED
      BY <1>3, <1>4, <1>6, <3>1, BlankShowsNothing
  <2>2. ASSUME NEW b \in Shown PROVE b \in Shown'
    <3>1. PICK i \in 1..m : b \in ShownIn(lines[i])
      BY <1>5
    <3>2. QED
      BY <1>3, <1>5, <3>1
  <2>3. ASSUME NEW b \in ShownIn(new[p]) PROVE b \in Shown'
    BY <1>1, <1>3, <1>5
  <2>4. QED
    BY <2>1, <2>2, <2>3
<1>8. ASSUME InDocumentOrder, RisingLine(new[p]), \A b \in Shown, c \in ShownIn(new[p]) : b < c
      PROVE  InDocumentOrder'
  <2>1. ASSUME NEW i \in 1..(m + n) PROVE RisingLine(lines'[i])
    <3>1. \A k \in 1..m : RisingLine(lines[k])
      BY <1>1, <1>8 DEF InDocumentOrder
    <3>2. QED
      BY <1>3, <1>4, <1>8, <3>1, BlankShowsNothing
  <2>2. ASSUME NEW i \in 1..(m + n), NEW j \in 1..(m + n), i < j,
               NEW b \in ShownIn(lines'[i]), NEW c \in ShownIn(lines'[j])
        PROVE  b < c
    <3>1. CASE i \in 1..m /\ j \in 1..m
      BY <1>1, <1>3, <1>8, <2>2, <3>1 DEF InDocumentOrder
    <3>2. CASE i \in 1..m /\ j = m + p /\ lines'[j] = new[p]
      <4>1. b \in Shown
        BY <1>3, <1>6, <3>2
      <4>2. QED
        BY <1>8, <3>2, <4>1
    <3>3. CASE i \notin 1..m
      <4>1. i = m + p
        BY <1>4, <3>3, BlankShowsNothing
      <4>2. j \notin 1..m /\ j # m + p
        BY <1>1, <2>2, <4>1
      <4>3. QED
        BY <1>4, <4>2, BlankShowsNothing
    <3>4. QED
      BY <1>4, <3>1, <3>2, <3>3, BlankShowsNothing
  <2>3. QED
    BY <1>2, <2>1, <2>2 DEF InDocumentOrder
<1>9. QED
  BY <1>1, <1>2, <1>3, <1>7, <1>8 DEF m, n

LEMMA TextAdded ==
  ASSUME ParserTypeOK, NEW line \in Lines, AddText(line)
  PROVE  /\ lines' \in Seq(Lines) /\ inList' = FALSE
         /\ Shown' = Shown \cup ShownIn(line)
         /\ InDocumentOrder /\ RisingLine(line)
            /\ (\A b \in Shown, c \in ShownIn(line) : b < c)
            => InDocumentOrder'
<1> DEFINE pre == IF inList /\ ~LastIsBlank THEN <<Blank>> ELSE <<>>
           new == pre \o <<line, Blank>>
           p   == Len(pre) + 1
<1>1. lines \in Seq(Lines) /\ Blank \in Lines
  BY BlankShowsNothing DEF ParserTypeOK
<1>2. pre \in Seq(Lines) /\ <<line, Blank>> \in Seq(Lines)
  BY <1>1
<1>3. (lines \o pre) \o <<line, Blank>> = lines \o new
  <2> HIDE DEF pre
  <2>1. QED
    BY <1>1, <1>2, ConcatAssociative
<1>4. lines' = lines \o new
  BY <1>3 DEF AddText
<1>5. /\ new \in Seq(Lines) /\ p \in DOMAIN new /\ new[p] = line
      /\ \A i \in DOMAIN new : i # p => new[i] = Blank
  <2>1. CASE pre = <<Blank>>
    BY <1>1, <2>1
  <2>2. CASE pre = <<>>
    BY <1>1, <2>2
  <2>3. QED
    BY <2>1, <2>2
<1> HIDE DEF new, p
<1>6. QED
  BY <1>1, <1>4, <1>5, Grown DEF AddText

LEMMA ItemAdded ==
  ASSUME ParserTypeOK, NEW line \in Lines, line.shape = "item", AddItem(line)
  PROVE  /\ lines' \in Seq(Lines) /\ inList' = TRUE
         /\ lines' # <<>> /\ lines'[Len(lines')].shape = "item"
         /\ Shown' = Shown \cup ShownIn(line)
         /\ InDocumentOrder /\ RisingLine(line)
            /\ (\A b \in Shown, c \in ShownIn(line) : b < c)
            => InDocumentOrder'
<1> DEFINE pre == IF ~inList /\ ~LastIsBlank THEN <<Blank>> ELSE <<>>
           new == pre \o <<line>>
           p   == Len(pre) + 1
<1>1. lines \in Seq(Lines) /\ Blank \in Lines /\ Len(lines) \in Nat
  BY BlankShowsNothing, LenProperties DEF ParserTypeOK
<1>2. pre \in Seq(Lines) /\ <<line>> \in Seq(Lines)
  BY <1>1
<1>3. (lines \o pre) \o <<line>> = lines \o new
  <2> HIDE DEF pre
  <2>1. QED
    BY <1>1, <1>2, ConcatAssociative
<1>4. lines' = lines \o new
  BY <1>3 DEF AddItem
<1>5. /\ new \in Seq(Lines) /\ p \in DOMAIN new /\ new[p] = line /\ Len(new) = p /\ p \in Nat \ {0}
      /\ \A i \in DOMAIN new : i # p => new[i] = Blank
  <2>1. CASE pre = <<Blank>>
    BY <1>1, <2>1
  <2>2. CASE pre = <<>>
    BY <1>1, <2>2
  <2>3. QED
    BY <2>1, <2>2
<1> HIDE DEF new, p
<1>6. /\ lines' \in Seq(Lines) /\ Len(lines') = Len(lines) + p /\ lines'[Len(lines) + p] = line
      /\ Shown' = Shown \cup ShownIn(line)
      /\ InDocumentOrder /\ RisingLine(line)
         /\ (\A b \in Shown, c \in ShownIn(line) : b < c)
         => InDocumentOrder'
  BY <1>1, <1>4, <1>5, Grown
<1>7. lines' # <<>>
  BY <1>1, <1>5, <1>6, EmptySeq
<1>8. QED
  BY <1>6, <1>7 DEF AddItem
-----------------------------------------------------------------------------
(* What the lines show.                                                    *)

LEMMA OneBlockLines ==
  ASSUME NEW b \in Blocks, NEW indent \in Nat
  PROVE  /\ Text(<<<<b>>>>) \in Lines /\ ShownIn(Text(<<<<b>>>>)) = {b}
         /\ RisingLine(Text(<<<<b>>>>))
         /\ Item(b, indent) \in Lines /\ ShownIn(Item(b, indent)) = {b}
         /\ RisingLine(Item(b, indent)) /\ Item(b, indent).shape = "item"
         /\ Text(<<>>) \in Lines /\ ShownIn(Text(<<>>)) = {} /\ RisingLine(Text(<<>>))
<1>1. <<b>> \in Seq(Blocks) /\ <<<<b>>>> \in Seq(Seq(Blocks)) /\ <<>> \in Seq(Seq(Blocks))
  OBVIOUS
<1>2. DOMAIN <<<<b>>>> = {1} /\ DOMAIN <<<<b>>>>[1] = {1} /\ <<<<b>>>>[1][1] = b
  OBVIOUS
<1>3. Text(<<<<b>>>>) \in Lines /\ Item(b, indent) \in Lines /\ Text(<<>>) \in Lines
  BY <1>1 DEF Text, Item, Lines
<1>4. /\ Text(<<<<b>>>>).shows = <<<<b>>>> /\ Item(b, indent).shows = <<<<b>>>>
      /\ Text(<<>>).shows = <<>> /\ Item(b, indent).shape = "item"
  BY DEF Text, Item
<1>5. ASSUME NEW line, line.shows = <<<<b>>>>
      PROVE  ShownIn(line) = {b} /\ RisingLine(line)
  <2>1. ASSUME NEW c \in Blocks PROVE c \in ShownIn(line) <=> c = b
    BY <1>2, <1>5 DEF ShownIn
  <2>2. ShownIn(line) \subseteq Blocks
    BY DEF ShownIn
  <2>3. RisingLine(line)
    BY <1>2, <1>5 DEF RisingLine, Rising
  <2>4. QED
    BY <2>1, <2>2, <2>3
<1>6. ShownIn(Text(<<>>)) = {} /\ RisingLine(Text(<<>>))
  BY <1>4 DEF ShownIn, RisingLine
<1>7. QED
  BY <1>3, <1>4, <1>5, <1>6

(* The texts in the cells of a table.                                      *)
InCellsShown(b) ==
  {c \in Blocks : \E cell \in Blocks : parent[c] = cell /\ parent[cell] = b /\ kind[c] \in {"text", "item"}}

LEMMA TableLine ==
  ASSUME ParserTypeOK, InDocumentNumbers, NEW b \in Blocks
  PROVE  LET line == Text(<<<<b>>>> \o TextsInCells(b))
         IN  line \in Lines /\ RisingLine(line) /\ ShownIn(line) = {b} \cup InCellsShown(b)
<1> DEFINE cs == ChildrenOf(b)
           n  == Len(cs)
           T  == TextsInCells(b)
           shows == <<<<b>>>> \o T
           line  == Text(shows)
           own(cell) == {c \in Blocks : parent[c] = cell /\ kind[c] \in {"text", "item"}}
<1>1. /\ cs \in Seq(Blocks) /\ n \in Nat /\ DOMAIN cs = 1..n /\ Rising(cs)
      /\ \A i \in 1..n : cs[i] \in Blocks /\ parent[cs[i]] = b
      /\ \A c \in Blocks : parent[c] = b => \E i \in 1..n : cs[i] = c
  BY ChildrenRise, LenProperties
<1>2. ASSUME NEW cell \in Blocks
      PROVE  /\ CellText(cell) \in Seq(own(cell)) /\ Rising(CellText(cell))
             /\ \A s \in own(cell) : \E i \in DOMAIN CellText(cell) : CellText(cell)[i] = s
  BY InOrderRises DEF CellText
<1>3. ASSUME NEW cell \in Blocks
      PROVE  /\ CellText(cell) \in Seq(Blocks)
             /\ \A i \in DOMAIN CellText(cell) : CellText(cell)[i] \in own(cell)
  <2>1. own(cell) \subseteq Blocks
    OBVIOUS
  <2>2. CellText(cell) \in Seq(own(cell))
    BY <1>2
  <2> HIDE DEF own
  <2>3. CellText(cell) \in Seq(Blocks)
    BY <2>1, <2>2, SeqMonotonic
  <2>4. \A i \in DOMAIN CellText(cell) : CellText(cell)[i] \in own(cell)
    BY <2>2
  <2>5. QED
    BY <2>3, <2>4
<1>4. T = [k \in 1..n |-> CellText(cs[k])]
  BY <1>1 DEF TextsInCells
<1> HIDE DEF n, cs, T
<1>5. T \in Seq(Seq(Blocks)) /\ Len(T) = n
  <2>1. T \in [1..n -> Seq(Blocks)]
    BY <1>1, <1>3, <1>4
  <2>2. QED
    BY <1>1, <2>1, SeqDef
<1>6. /\ shows \in Seq(Seq(Blocks)) /\ DOMAIN shows = 1..(n + 1)
      /\ shows[1] = <<b>>
      /\ \A k \in 2..(n + 1) : shows[k] = CellText(cs[k - 1])
  <2>1. <<<<b>>>> \in Seq(Seq(Blocks)) /\ Len(<<<<b>>>>) = 1 /\ <<<<b>>>>[1] = <<b>>
    OBVIOUS
  <2>2. /\ shows \in Seq(Seq(Blocks)) /\ Len(shows) = 1 + n
        /\ \A i \in 1..(1 + n) : shows[i] = IF i <= 1 THEN <<<<b>>>>[i] ELSE T[i - 1]
    BY <1>5, <2>1, ConcatProperties
  <2> HIDE DEF shows
  <2>3. DOMAIN shows = 1..(n + 1)
    BY <1>1, <2>2, LenProperties
  <2>4. shows[1] = <<b>>
    BY <1>1, <2>1, <2>2
  <2>5. ASSUME NEW k \in 2..(n + 1) PROVE shows[k] = CellText(cs[k - 1])
    <3>1. k \in 1..(1 + n) /\ ~(k <= 1) /\ k - 1 \in 1..n
      BY <1>1
    <3>2. QED
      BY <1>4, <2>2, <3>1
  <2>6. QED
    BY <2>2, <2>3, <2>4, <2>5
<1> HIDE DEF shows
<1>7. line \in Lines /\ line.shows = shows
  BY <1>6 DEF Text, Lines
<1> HIDE DEF line
<1>8. DOMAIN <<b>> = {1} /\ <<b>>[1] = b
  OBVIOUS
<1>9. \A c \in Blocks : c \in Nat /\ parent[c] \in Nat /\ parent[c] < c
  BY ParentTypes, ParserAssumption DEF InDocumentNumbers
<1>10. ASSUME NEW k \in 2..(n + 1), NEW m \in DOMAIN shows[k]
       PROVE  /\ k - 1 \in 1..n /\ shows[k][m] \in Blocks
              /\ parent[shows[k][m]] = cs[k - 1] /\ kind[shows[k][m]] \in {"text", "item"}
  <2>1. k - 1 \in 1..n
    BY <1>1
  <2>2. shows[k] = CellText(cs[k - 1]) /\ cs[k - 1] \in Blocks
    BY <1>1, <1>6, <2>1
  <2>3. shows[k][m] \in own(cs[k - 1])
    BY <1>3, <2>2
  <2>4. QED
    BY <2>1, <2>3
<1>11. ShownIn(line) = {b} \cup InCellsShown(b)
  <2>1. ASSUME NEW c \in ShownIn(line) PROVE c \in {b} \cup InCellsShown(b)
    <3>1. PICK k \in 1..(n + 1) : \E m \in DOMAIN shows[k] : shows[k][m] = c
      BY <1>6, <1>7 DEF ShownIn
    <3>2. CASE k = 1
      BY <1>6, <1>8, <3>1, <3>2
    <3>3. CASE k # 1
      <4>1. k \in 2..(n + 1)
        BY <1>1, <3>3
      <4>2. PICK m \in DOMAIN shows[k] : shows[k][m] = c
        BY <3>1
      <4>3. c \in Blocks /\ parent[c] = cs[k - 1] /\ kind[c] \in {"text", "item"} /\ k - 1 \in 1..n
        BY <1>10, <4>1, <4>2
      <4>4. cs[k - 1] \in Blocks /\ parent[cs[k - 1]] = b
        BY <1>1, <4>3
      <4>5. QED
        BY <4>3, <4>4 DEF InCellsShown
    <3>4. QED
      BY <3>2, <3>3
  <2>2. b \in ShownIn(line)
    <3>1. 1 \in 1..(n + 1) /\ 1 \in DOMAIN shows[1] /\ shows[1][1] = b
      BY <1>1, <1>6, <1>8
    <3>2. QED
      BY <1>6, <1>7, <3>1 DEF ShownIn
  <2>3. ASSUME NEW c \in InCellsShown(b) PROVE c \in ShownIn(line)
    <3>1. PICK cell \in Blocks : c \in own(cell) /\ parent[cell] = b
      BY DEF InCellsShown
    <3>2. PICK i \in 1..n : cs[i] = cell
      BY <1>1, <3>1
    <3>3. i + 1 \in 2..(n + 1) /\ i + 1 \in 1..(n + 1) /\ (i + 1) - 1 = i
      BY <1>1
    <3>4. shows[i + 1] = CellText(cell)
      BY <1>6, <3>2, <3>3
    <3>5. PICK m \in DOMAIN CellText(cell) : CellText(cell)[m] = c
      BY <1>2, <3>1
    <3>6. c \in Blocks
      BY DEF InCellsShown
    <3>7. QED
      BY <1>6, <1>7, <3>3, <3>4, <3>5, <3>6 DEF ShownIn
  <2>4. QED
    BY <2>1, <2>2, <2>3
<1>12. RisingLine(line)
  <2>1. ASSUME NEW k \in 1..(n + 1) PROVE Rising(shows[k])
    <3>1. CASE k = 1
      BY <1>6, <1>8, <3>1 DEF Rising
    <3>2. CASE k # 1
      <4>1. k \in 2..(n + 1) /\ k - 1 \in 1..n
        BY <1>1, <3>2
      <4>2. QED
        BY <1>1, <1>2, <1>6, <4>1
    <3>3. QED
      BY <3>1, <3>2
  <2>2. ASSUME NEW k \in 1..(n + 1), NEW l \in 1..(n + 1), k < l,
               NEW i \in DOMAIN shows[k], NEW j \in DOMAIN shows[l]
        PROVE  shows[k][i] < shows[l][j]
    <3>1. l \in 2..(n + 1) /\ l - 1 \in 1..n
      BY <1>1, <2>2
    <3>2. PICK d \in Blocks : d = shows[l][j] /\ parent[d] = cs[l - 1]
      BY <1>10, <3>1
    <3>3. PICK y \in Blocks : y = cs[l - 1] /\ parent[y] = b
      BY <1>1, <3>1
    <3>4. CASE k = 1
      <4>1. shows[k][i] = b
        BY <1>6, <1>8, <3>4
      <4>2. b < y /\ y < d
        BY <1>9, <3>2, <3>3
      <4>3. b < d
        BY <1>9, <4>2
      <4>4. QED
        BY <3>2, <4>1, <4>3
    <3>5. CASE k # 1
      <4>1. k \in 2..(n + 1) /\ k - 1 \in 1..n /\ k - 1 < l - 1
        BY <1>1, <2>2, <3>5
      <4>2. PICK c \in Blocks : c = shows[k][i] /\ parent[c] = cs[k - 1]
        BY <1>10, <4>1
      <4>3. PICK x \in Blocks : x = cs[k - 1] /\ parent[x] = b
        BY <1>1, <4>1
      <4>4. x < y
        BY <1>1, <3>1, <3>3, <4>1, <4>3 DEF Rising
      <4>5. b < x /\ y < d /\ parent[c] = x /\ parent[y] = b
        BY <1>9, <3>2, <3>3, <4>2, <4>3
      <4>6. ~(y < c) /\ c # y
        BY <1>9, <4>4, <4>5 DEF InDocumentNumbers
      <4>7. c < d
        BY <1>9, <4>5, <4>6
      <4>8. QED
        BY <3>2, <4>2, <4>7
    <3>6. QED
      BY <3>4, <3>5
  <2>3. QED
    BY <1>6, <1>7, <2>1, <2>2 DEF RisingLine
<1>13. QED
  BY <1>7, <1>11, <1>12 DEF line, shows, T
-----------------------------------------------------------------------------
(* The steps.                                                              *)

(* The document does not change.                                           *)
LEMMA SameDocument ==
  ASSUME UNCHANGED <<kind, parent>>
  PROVE  /\ Document => Document'
         /\ \A b : KindOf(b)' = KindOf(b)
         /\ \A b : (InTable(b))' <=> InTable(b)
         /\ \A b : (PassedTable(b))' <=> \E t \in Above(b) : KindOf(t) = "table" /\ t < Front'
         /\ \A b : (HasShow(b))' <=> HasShow(b)
         /\ \A b : (CellShow(b))' <=> CellShow(b)
BY DEF Document, InDocumentNumbers, WellFormed, KindOf, InTable, PassedTable, Above, HasShow, CellShow

(* What is rendered is not in a table, and nothing that comes after it is  *)
(* shown.                                                                  *)
LEMMA OutsideTables ==
  ASSUME ParserInv, calls # <<>>, Block \notin consumed
  PROVE  ~InTable(Block) /\ \A s \in Shown : s \in Blocks /\ s < Block
<1>1. Block \in Blocks \cup {Page} /\ Front = Block /\ 1 \in DOMAIN calls /\ Block \in Int
  BY NextCall, ParserAssumption DEF ParserInv
<1>2. ~InTable(Block)
  <2>1. CASE Block = Page
    BY <2>1 DEF InTable, Above, Page
  <2>2. CASE Block # Page
    <3>1. ~InTable(parent[Block]) /\ KindOf(parent[Block]) # "table"
      BY <1>1, <2>2 DEF ParserInv, CallsAreOutside, Block, Call
    <3>2. Above(Block) \subseteq Above(parent[Block]) \cup {parent[Block]}
      BY <1>1, <2>2, AboveParent DEF ParserInv, Document
    <3>3. QED
      BY <3>1, <3>2 DEF InTable
  <2>3. QED
    BY <2>1, <2>2
<1>3. ASSUME NEW s \in Shown PROVE s \in Blocks /\ s < Block
  <2>1. s \in Blocks /\ s \in Int
    BY ParserAssumption DEF Shown, ShownIn, Blocks
  <2>2. SUFFICES ASSUME ~(s < Block) PROVE FALSE
    BY <2>1
  <2>3. PICK t \in Above(s) : KindOf(t) = "table" /\ t < Block
    BY <1>1, <2>2 DEF ParserInv, ShownIsPassed, PassedTable
  <2>4. Block \in Blocks
    BY <1>1, <2>3 DEF Page, Above
  <2>5. t \in Above(Block)
    BY <1>1, <2>1, <2>2, <2>3, <2>4, AboveBetween
  <2>6. QED
    BY <1>2, <2>3, <2>5 DEF InTable
<1>4. QED
  BY <1>2, <1>3

(* A block is rendered; what else it consumes and shows is in it, if it is *)
(* a table.                                                                *)
LEMMA Rendered ==
  ASSUME ParserInv, calls # <<>>, Block \notin consumed, UNCHANGED <<kind, parent>>,
         NEW level \in Nat, WalkInto(level),
         NEW extra \in SUBSET Blocks, consumed' = consumed \cup {Block} \cup extra,
         \A x \in extra : Block \in Above(x) /\ KindOf(Block) = "table",
         KindOf(Block) = "table" => \A c \in Blocks : parent[c] = Block => c \in extra,
         NEW new \in SUBSET Blocks, Shown' = Shown \cup new,
         \A x \in new : x = Block \/ (Block \in Above(x) /\ KindOf(Block) = "table"),
         Block \in Blocks /\ HasShow(Block) => Block \in new,
         KindOf(Block) = "table" =>
           \A c \in Blocks : CellShow(c) /\ parent[parent[c]] = Block => c \in new,
         lines' \in Seq(Lines), inList' \in BOOLEAN,
         inList' => lines' # <<>> /\ lines'[Len(lines')].shape = "item",
         InDocumentOrder'
  PROVE  ParserInv'
<1> USE DEF ParserInv
<1>1. /\ Block \in Blocks \cup {Page} /\ Front = Block /\ Block \in Nat
      /\ \A i \in 2..Len(calls) : calls[i].block \in Blocks /\ i \in DOMAIN calls
  BY NextCall
<1>2. /\ calls' \in Seq(CallTypes) /\ CallsRise' /\ CallsAreHanging' /\ Front' = Block + 1
      /\ \A i \in DOMAIN calls' :
            \/ calls'[i].block \in Blocks /\ parent[calls'[i].block] = Block
            \/ \E j \in 2..Len(calls) : calls'[i] = calls[j]
  BY Walked DEF Document
<1>3. ~InTable(Block)
  BY OutsideTables
<1>4. \A b \in Blocks : b \in Nat /\ parent[b] \in Blocks \cup {Page} /\ parent[b] \in Nat /\ parent[b] < b
  BY ParentTypes, ParserAssumption DEF Document, InDocumentNumbers, ParserTypeOK
<1>5. ParserTypeOK'
  BY <1>1, <1>2 DEF ParserTypeOK, CallTypes
<1>6. Document'
  BY SameDocument
<1>7. CallsAreOutside'
  <2>1. SUFFICES ASSUME NEW i \in DOMAIN calls', NEW c, c = calls'[i].block, c # Page
                 PROVE  ~InTable(parent[c]) /\ (KindOf(parent[c]) = "table" => c \in consumed')
    BY SameDocument DEF CallsAreOutside, InTable, Above, KindOf
  <2>2. CASE c \in Blocks /\ parent[c] = Block
    BY <1>3, <2>2
  <2>3. CASE \E j \in 2..Len(calls) : calls'[i] = calls[j]
    BY <1>1, <2>1, <2>3 DEF CallsAreOutside
  <2>4. QED
    BY <1>2, <2>1, <2>2, <2>3
<1>8. ConsumedIsPassed'
  <2>1. SUFFICES ASSUME NEW b \in consumed' PROVE b < Front' \/ (b # Page /\ InTable(b))
    BY SameDocument DEF ConsumedIsPassed
  <2>2. CASE b \in consumed
    <3>1. b \in Nat
      BY <1>4, <2>2 DEF ParserTypeOK, Page
    <3>2. QED
      BY <1>1, <1>2, <2>2, <3>1 DEF ConsumedIsPassed
  <2>3. CASE b = Block
    BY <1>1, <1>2, <2>3
  <2>4. CASE b \in extra
    BY <2>4 DEF InTable, Blocks, Page
  <2>5. QED
    BY <2>2, <2>3, <2>4
<1>9. ShownIsPassed'
  <2>1. SUFFICES ASSUME NEW b \in Shown'
                 PROVE  b < Front' \/ \E t \in Above(b) : KindOf(t) = "table" /\ t < Front'
    BY SameDocument DEF ShownIsPassed
  <2>2. CASE b \in Shown
    <3>1. b \in Blocks /\ b < Block
      BY <2>2, OutsideTables
    <3>2. QED
      BY <1>1, <1>2, <1>4, <3>1
  <2>3. CASE b \in new
    BY <1>1, <1>2, <2>3
  <2>4. QED
    BY <2>1, <2>2, <2>3
<1>10. PassedIsShown'
  <2>1. SUFFICES ASSUME NEW b \in Blocks
                 PROVE  /\ b < Front' /\ ~InTable(b) /\ HasShow(b) => b \in Shown'
                        /\ CellShow(b) /\ parent[parent[b]] < Front' /\ ~InTable(parent[parent[b]])
                           => b \in Shown'
    BY SameDocument DEF PassedIsShown
  <2>2. ASSUME b < Front', ~InTable(b), HasShow(b) PROVE b \in Shown'
    <3>1. CASE b = Block
      BY <2>2, <3>1
    <3>2. CASE b < Block
      BY <1>1, <2>2, <3>2 DEF PassedIsShown
    <3>3. QED
      BY <1>1, <1>2, <1>4, <2>2, <3>1, <3>2
  <2>3. ASSUME CellShow(b), parent[parent[b]] < Front', ~InTable(parent[parent[b]]) PROVE b \in Shown'
    <3>1. parent[b] \in Blocks /\ KindOf(parent[parent[b]]) = "table"
      BY <1>4, <2>3 DEF CellShow, KindOf, Document, WellFormed
    <3>2. parent[parent[b]] \in Nat
      BY <1>4, <3>1
    <3>3. CASE parent[parent[b]] = Block
      BY <2>3, <3>1, <3>3
    <3>4. CASE parent[parent[b]] < Block
      BY <1>1, <2>3, <3>4 DEF PassedIsShown
    <3>5. QED
      BY <1>1, <1>2, <2>3, <3>2, <3>3, <3>4
  <2>4. QED
    BY <2>2, <2>3
<1>11. QED
  BY <1>2, <1>5, <1>6, <1>7, <1>8, <1>9, <1>10
(* A block that a table has shown is skipped, and what hangs below it.     *)
LEMMA SkipStep ==
  ASSUME ParserInv, SkipConsumed
  PROVE  ParserInv'
<1> USE DEF ParserInv
<1>1. /\ Block \in Blocks \cup {Page} /\ Front = Block /\ Block \in Nat
      /\ \A i \in 2..Len(calls) : calls[i].block \in Blocks /\ i \in DOMAIN calls
  BY NextCall DEF SkipConsumed
<1>2. Block \in Blocks /\ InTable(Block)
  <2>1. Block # Page
    BY <1>1 DEF SkipConsumed, CallsAreHanging
  <2>2. QED
    BY <1>1, <2>1 DEF SkipConsumed, ConsumedIsPassed
<1>3. /\ calls' \in Seq(CallTypes) /\ CallsRise' /\ CallsAreHanging'
      /\ Front' \in Nat /\ Front' > Block
      /\ \A c \in Blocks : Block < c /\ c < Front' => Block \in Above(c)
      /\ \A i \in DOMAIN calls' : \E j \in 2..Len(calls) : calls'[i] = calls[j]
  <2>1. Block # Page
    BY <1>2, ParserAssumption DEF Blocks, Page
  <2>2. QED
    BY <2>1, Skipped DEF SkipConsumed, Document
<1>4. \A b \in Blocks : b \in Nat /\ parent[b] \in Blocks \cup {Page} /\ parent[b] \in Nat /\ parent[b] < b
  BY ParentTypes, ParserAssumption DEF Document, InDocumentNumbers, ParserTypeOK
<1>5. UNCHANGED <<kind, parent, consumed, lines, inList>> /\ Shown' = Shown
  BY DEF SkipConsumed, Shown, ShownIn
<1>6. ParserTypeOK'
  BY <1>3, <1>5 DEF ParserTypeOK, CallTypes
<1>7. Document'
  BY <1>5, SameDocument
<1>8. InDocumentOrder'
  BY <1>5 DEF InDocumentOrder
<1>9. \A c \in Blocks : c < Front' => c < Block \/ InTable(c)
  <2>1. SUFFICES ASSUME NEW c \in Blocks, c < Front', ~(c < Block) PROVE InTable(c)
    OBVIOUS
  <2>2. CASE c = Block
    BY <1>2, <2>2
  <2>3. CASE c # Block
    <3>1. Block \in Above(c)
      BY <1>1, <1>3, <1>4, <2>1, <2>3
    <3>2. QED
      BY <1>2, <3>1, InTableBelow
  <2>4. QED
    BY <2>2, <2>3
<1>10. CallsAreOutside'
  <2>1. SUFFICES ASSUME NEW i \in DOMAIN calls', NEW c, c = calls'[i].block, c # Page
                 PROVE  ~InTable(parent[c]) /\ (KindOf(parent[c]) = "table" => c \in consumed)
    BY <1>5, SameDocument DEF CallsAreOutside, InTable, Above, KindOf
  <2>2. PICK j \in 2..Len(calls) : calls'[i] = calls[j]
    BY <1>3
  <2>3. QED
    BY <1>1, <2>1, <2>2 DEF CallsAreOutside
<1>11. ConsumedIsPassed'
  <2>1. SUFFICES ASSUME NEW b \in consumed PROVE b < Front' \/ (b # Page /\ InTable(b))
    BY <1>5, SameDocument DEF ConsumedIsPassed
  <2>2. b \in Nat
    <3>1. consumed \subseteq Blocks \cup {Page}
      BY DEF ParserTypeOK
    <3>2. QED
      BY <1>4, <3>1 DEF Page
  <2>3. QED
    BY <1>1, <1>3, <2>2 DEF ConsumedIsPassed
<1>12. ShownIsPassed'
  <2>1. SUFFICES ASSUME NEW b \in Shown
                 PROVE  b < Front' \/ \E t \in Above(b) : KindOf(t) = "table" /\ t < Front'
    BY <1>5, SameDocument DEF ShownIsPassed
  <2>2. b \in Blocks /\ b \in Nat
    BY <1>4 DEF Shown, ShownIn
  <2>3. CASE b < Block
    BY <1>1, <1>3, <2>2, <2>3
  <2>4. CASE ~(b < Block)
    <3>1. PICK t \in Above(b) : KindOf(t) = "table" /\ t < Block
      BY <1>1, <2>4 DEF ShownIsPassed, PassedTable
    <3>2. t \in Int
      BY DEF Above
    <3>3. QED
      BY <1>1, <1>3, <3>1, <3>2
  <2>5. QED
    BY <2>3, <2>4
<1>13. PassedIsShown'
  <2>1. SUFFICES ASSUME NEW b \in Blocks
                 PROVE  /\ b < Front' /\ ~InTable(b) /\ HasShow(b) => b \in Shown
                        /\ CellShow(b) /\ parent[parent[b]] < Front' /\ ~InTable(parent[parent[b]])
                           => b \in Shown
    BY <1>5, SameDocument DEF PassedIsShown
  <2>2. ASSUME b < Front', ~InTable(b), HasShow(b) PROVE b \in Shown
    BY <1>1, <1>9, <2>2 DEF PassedIsShown
  <2>3. ASSUME CellShow(b), parent[parent[b]] < Front', ~InTable(parent[parent[b]]) PROVE b \in Shown
    <3>1. parent[b] \in Blocks /\ KindOf(parent[parent[b]]) = "table"
      BY <1>4, <2>3 DEF CellShow, KindOf, Document, WellFormed
    <3>2. parent[parent[b]] \in Blocks
      BY <1>4, <3>1 DEF KindOf
    <3>3. parent[parent[b]] < Block
      BY <1>9, <2>3, <3>2
    <3>4. QED
      BY <1>1, <2>3, <3>3 DEF PassedIsShown
  <2>4. QED
    BY <2>2, <2>3
<1>14. QED
  BY <1>3, <1>6, <1>7, <1>8, <1>10, <1>11, <1>12, <1>13

(* A step that shows at most the block itself, which is no table.          *)
LEMMA PlainStep ==
  ASSUME ParserInv, calls # <<>>, Block \notin consumed, UNCHANGED <<kind, parent>>,
         NEW level \in Nat, WalkInto(level), Consume({Block}),
         KindOf(Block) # "table",
         NEW line \in Lines, RisingLine(line), ShownIn(line) \subseteq {Block},
         Block \in Blocks /\ HasShow(Block) => ShownIn(line) = {Block},
         \/ AddText(line)
         \/ AddItem(line) /\ line.shape = "item"
         \/ UNCHANGED <<lines, inList>> /\ ShownIn(line) = {}
  PROVE  ParserInv'
<1> DEFINE new == ShownIn(line)
<1>1. ParserTypeOK /\ InDocumentOrder
  BY DEF ParserInv
<1>2. \A b \in Shown, c \in new : b < c
  BY OutsideTables
<1>3. new \in SUBSET Blocks
  BY DEF ShownIn
<1>4. /\ lines' \in Seq(Lines) /\ inList' \in BOOLEAN
      /\ inList' => lines' # <<>> /\ lines'[Len(lines')].shape = "item"
      /\ Shown' = Shown \cup new /\ InDocumentOrder'
  <2>1. CASE AddText(line)
    BY <1>1, <1>2, <2>1, TextAdded
  <2>2. CASE AddItem(line) /\ line.shape = "item"
    BY <1>1, <1>2, <2>2, ItemAdded
  <2>3. CASE UNCHANGED <<lines, inList>> /\ ShownIn(line) = {}
    <3>1. Shown' = Shown \cup new /\ InDocumentOrder'
      BY <1>1, <2>3 DEF Shown, ShownIn, InDocumentOrder
    <3>2. QED
      BY <1>1, <2>3, <3>1 DEF ParserTypeOK
  <2>4. QED
    BY <2>1, <2>2, <2>3
<1>5. /\ {} \in SUBSET Blocks /\ consumed' = consumed \cup {Block} \cup {}
      /\ \A x \in {} : Block \in Above(x) /\ KindOf(Block) = "table"
  BY DEF Consume
<1>6. \A x \in new : x = Block
  OBVIOUS
<1>7. Block \in Blocks /\ HasShow(Block) => Block \in new
  OBVIOUS
<1> HIDE DEF new
<1>8. QED
  BY <1>3, <1>4, <1>5, <1>6, <1>7, Rendered

LEMMA LevelTypes ==
  ASSUME ParserInv, calls # <<>>
  PROVE  Call.level \in Nat /\ NextLevel \in Nat /\ ListIndent(Call) \in Nat /\ ListIndent(Call) + 1 \in Nat
<1>1. Call \in CallTypes
  <2>1. calls \in Seq(CallTypes) /\ 1 \in 1..Len(calls)
    BY EmptySeq DEF ParserInv, ParserTypeOK, CallTypes
  <2>2. QED
    BY <2>1, ElementOfSeq DEF Call
<1>2. QED
  BY <1>1 DEF CallTypes, NextLevel, ListIndent

LEMMA ParserStep ==
  ASSUME ParserInv, [ParserNext]_parserState
  PROVE  ParserInv'
<1>1. CASE SkipConsumed
  BY <1>1, SkipStep
<1>2. CASE RenderPage
  <2>1. KindOf(Block) # "table" /\ Block \notin Blocks
    BY <1>2, ParserAssumption DEF RenderPage, Pending, KindOf, Blocks, Page
  <2>2. Blank \in Lines /\ RisingLine(Blank) /\ ShownIn(Blank) = {}
    BY BlankShowsNothing
  <2>3. QED
    BY <1>2, <2>1, <2>2, PlainStep DEF RenderPage, Pending
<1>3. ASSUME NEW b \in Blocks,
             \/ RenderText(b) \/ RenderPlaceholder(b) \/ RenderBox(b) \/ RenderItem(b)
             \/ RenderTable(b) \/ RenderGrid(b) \/ RenderColumn(b)
      PROVE  ParserInv'
  <2>1. /\ calls # <<>> /\ b = Block /\ Block \notin consumed /\ UNCHANGED <<kind, parent>>
        /\ KindOf(Block) = kind[b]
    BY <1>3, ParserAssumption
    DEF RenderText, RenderPlaceholder, RenderBox, RenderItem, RenderTable, RenderGrid, RenderColumn,
        Pending, KindOf, Blocks, Page
  <2>2. /\ Call.level \in Nat /\ NextLevel \in Nat
        /\ ListIndent(Call) \in Nat /\ ListIndent(Call) + 1 \in Nat
    BY <2>1, LevelTypes
  <2>3. /\ Text(<<<<b>>>>) \in Lines /\ ShownIn(Text(<<<<b>>>>)) = {b}
        /\ RisingLine(Text(<<<<b>>>>))
        /\ Text(<<>>) \in Lines /\ ShownIn(Text(<<>>)) = {} /\ RisingLine(Text(<<>>))
        /\ \A i \in Nat : /\ Item(b, i) \in Lines /\ ShownIn(Item(b, i)) = {b}
                          /\ RisingLine(Item(b, i)) /\ Item(b, i).shape = "item"
    BY OneBlockLines
  <2>4. Blank \in Lines /\ RisingLine(Blank) /\ ShownIn(Blank) = {}
    BY BlankShowsNothing
  <2>5. CASE RenderText(b)
    BY <2>1, <2>2, <2>3, <2>5, PlainStep DEF RenderText
  <2>6. CASE RenderPlaceholder(b)
    BY <2>1, <2>2, <2>3, <2>6, PlainStep DEF RenderPlaceholder
  <2>7. CASE RenderBox(b)
    BY <2>1, <2>2, <2>4, <2>7, PlainStep DEF RenderBox, HasShow
  <2>8. CASE RenderItem(b)
    <3>1. CASE kind[b] = "item"
      BY <2>1, <2>2, <2>3, <2>8, <3>1, PlainStep DEF RenderItem
    <3>2. CASE kind[b] = "hollow"
      BY <2>1, <2>2, <2>4, <2>8, <3>2, PlainStep DEF RenderItem, HasShow
    <3>3. QED
      BY <2>8, <3>1, <3>2 DEF RenderItem, Lists
  <2>9. CASE RenderTable(b)
    <3> DEFINE line  == Text(<<<<b>>>> \o TextsInCells(b))
               new   == {b} \cup InCellsShown(b)
               extra == {cell \in Blocks : parent[cell] = b} \cup InCells(b)
    <3>1. ParserTypeOK /\ InDocumentNumbers /\ InDocumentOrder
      BY DEF ParserInv, Document
    <3>2. line \in Lines /\ RisingLine(line) /\ ShownIn(line) = new
      BY <3>1, TableLine
    <3>3. ASSUME NEW x, x \in extra \/ x \in InCellsShown(b) PROVE x \in Blocks /\ b \in Above(x)
      <4>1. CASE x \in Blocks /\ parent[x] = b
        BY <3>1, <4>1, AboveParent
      <4>2. CASE x \in Blocks /\ \E cell \in Blocks : parent[x] = cell /\ parent[cell] = b
        <5>1. PICK cell \in Blocks : parent[x] = cell /\ parent[cell] = b
          BY <4>2
        <5>2. b \in Above(cell) /\ cell \in Above(x)
          BY <3>1, <4>2, <5>1, AboveParent
        <5>3. QED
          BY <3>1, <4>2, <5>2, AboveAbove
      <4>3. QED
        BY <3>3, <4>1, <4>2 DEF InCells, InCellsShown
    <3>4. kind[b] = "table" /\ AddText(line) /\ WalkInto(NextLevel)
          /\ consumed' = consumed \cup {Block} \cup extra
      BY <2>1, <2>9 DEF RenderTable, Consume, ConsumedByTable
    <3>5. \A s \in Shown, c \in new : s < c
      <4>1. \A s \in Shown : s \in Int /\ s < b
        BY <2>1, OutsideTables, ParserAssumption DEF Blocks
      <4>2. \A c \in InCellsShown(b) : b < c /\ c \in Int /\ b \in Int
        BY <3>1, <3>3, AboveAbove, ParserAssumption DEF Blocks
      <4>3. QED
        BY <4>1, <4>2
    <3>6. /\ lines' \in Seq(Lines) /\ inList' = FALSE
          /\ Shown' = Shown \cup new /\ InDocumentOrder'
      BY <3>1, <3>2, <3>4, <3>5, TextAdded
    <3>7. ASSUME NEW c \in Blocks, CellShow(c), parent[parent[c]] = b PROVE c \in new
      <4>1. parent[c] \in Blocks /\ kind[c] \in {"text", "item"}
        BY <3>1, <3>7 DEF CellShow, KindOf, ParserTypeOK
      <4>2. QED
        BY <3>7, <4>1 DEF InCellsShown
    <3>8. extra \in SUBSET Blocks /\ new \in SUBSET Blocks
      BY DEF InCells, InCellsShown
    <3>9. \A x \in extra : Block \in Above(x) /\ KindOf(Block) = "table"
      BY <2>1, <3>3, <3>4
    <3>10. \A x \in new : x = Block \/ (Block \in Above(x) /\ KindOf(Block) = "table")
      BY <2>1, <3>3, <3>4
    <3>11. Block \in new /\ \A c \in Blocks : parent[c] = Block => c \in extra
      BY <2>1
    <3> HIDE DEF line, new, extra
    <3>12. QED
      BY <2>1, <2>2, <3>4, <3>6, <3>7, <3>8, <3>9, <3>10, <3>11, Rendered
  <2>10. CASE RenderGrid(b)
    BY <2>1, <2>2, <2>4, <2>10, PlainStep DEF RenderGrid, HasShow
  <2>11. CASE RenderColumn(b)
    BY <2>1, <2>2, <2>3, <2>11, PlainStep DEF RenderColumn, HasShow
  <2>12. QED
    BY <1>3, <2>5, <2>6, <2>7, <2>8, <2>9, <2>10, <2>11
<1>4. CASE UNCHANGED parserState
  <2>1. UNCHANGED <<kind, parent, calls, consumed, lines, inList>>
    BY <1>4 DEF parserState
  <2>2. Front' = Front /\ Shown' = Shown /\ Hanging' = Hanging
    BY <2>1 DEF Front, Shown, ShownIn, Hanging
  <2>3. ParserTypeOK' /\ Document' /\ InDocumentOrder'
    BY <2>1, SameDocument DEF ParserInv, ParserTypeOK, InDocumentOrder
  <2>4. CallsRise' /\ CallsAreHanging' /\ CallsAreOutside'
    BY <2>1, <2>2 DEF ParserInv, CallsRise, CallsAreHanging, CallsAreOutside, InTable, Above, KindOf
  <2>5. ConsumedIsPassed'
    BY <2>1, <2>2, SameDocument DEF ParserInv, ConsumedIsPassed
  <2>6. ShownIsPassed' /\ PassedIsShown'
    BY <2>1, <2>2 DEF ParserInv, ShownIsPassed, PassedIsShown, PassedTable, InTable, Above, KindOf,
       HasShow, CellShow
  <2>7. QED
    BY <2>3, <2>4, <2>5, <2>6 DEF ParserInv
<1>5. QED
  BY <1>1, <1>2, <1>3, <1>4 DEF ParserNext

LEMMA ParserInitial == ASSUME ParserInit PROVE ParserInv
<1>1. /\ calls \in Seq(CallTypes) /\ Len(calls) = 1 /\ DOMAIN calls = {1} /\ calls # <<>>
      /\ calls[1].block = Page
  BY DEF ParserInit, CallTypes, Page
<1>2. lines = <<>> /\ lines \in Seq(Lines) /\ DOMAIN lines = {} /\ consumed = {} /\ inList = FALSE
  BY DEF ParserInit
<1>3. Front = Page
  BY <1>1 DEF Front
<1>4. ParserTypeOK
  BY <1>1, <1>2 DEF ParserInit, ParserTypeOK, CallTypes
<1>5. Shown = {}
  BY <1>2 DEF Shown
<1>6. \A b \in Blocks : parent[b] \in Nat /\ (parent[b] \in Blocks \/ parent[b] = Page) /\ b > 0
  BY <1>4, ParentTypes, ParserAssumption DEF ParserTypeOK
<1>7. PassedIsShown
  <2>1. \A b \in Blocks : ~(b < Front) /\ (CellShow(b) => ~(parent[parent[b]] < Front))
    <3>1. ASSUME NEW b \in Blocks PROVE ~(b < Front)
      BY <1>3, <1>6, ParserAssumption DEF Page, Blocks
    <3>2. ASSUME NEW b \in Blocks, CellShow(b) PROVE ~(parent[parent[b]] < Front)
      <4>1. parent[b] \in Blocks
        BY <1>6, <3>2 DEF CellShow, KindOf
      <4>2. QED
        BY <1>3, <1>6, <4>1 DEF Page
    <3>3. QED
      BY <3>1, <3>2
  <2>2. QED
    BY <2>1 DEF PassedIsShown
<1>8. QED
  BY <1>1, <1>2, <1>3, <1>4, <1>5, <1>7
  DEF ParserInit, ParserInv, Document, CallsRise, CallsAreHanging, CallsAreOutside,
      ConsumedIsPassed, ShownIsPassed, InDocumentOrder
-----------------------------------------------------------------------------
(* The theorems.                                                           *)

LEMMA ParserAlways == ParserSpec => []ParserInv
<1>1. ParserInit => ParserInv
  BY ParserInitial
<1>2. ParserInv /\ [ParserNext]_parserState => ParserInv'
  BY ParserStep
<1>3. QED
  BY <1>1, <1>2, PTL DEF ParserSpec

(* The variables of the translation keep their types, whatever the         *)
(* document: a list is open only while its last line is an item of it.     *)
THEOREM ParserTypeCorrect == ParserSpec => []ParserTypeOK
<1>1. ParserInv => ParserTypeOK
  BY DEF ParserInv
<1>2. QED
  BY <1>1, ParserAlways, PTL

(* What the walk leaves out in the end is in a table.                      *)
LEMMA EndedWalk == ASSUME ParserInv PROVE NothingLost
<1>1. SUFFICES ASSUME calls = <<>>, NEW b \in Blocks, b \notin Shown, HasShow(b)
               PROVE  /\ InTable(b)
                      /\ \/ kind[b] \notin {"text", "item"}
                         \/ KindOf(parent[b]) # "cell"
                         \/ InTable(parent[parent[b]])
  BY DEF NothingLost, HasShow
<1>2. Front = BlockCount + 1
  BY <1>1 DEF Front
<1>3. \A c \in Blocks : c < Front /\ (parent[c] \in Blocks \/ parent[c] = Page) /\ Page < Front
  BY <1>2, ParentTypes, ParserAssumption DEF ParserInv, ParserTypeOK, Page
<1>4. InTable(b)
  BY <1>1, <1>3 DEF ParserInv, PassedIsShown
<1>5. ASSUME CellShow(b) PROVE InTable(parent[parent[b]])
  <2>1. parent[b] \in Blocks
    BY <1>3, <1>5 DEF CellShow, KindOf
  <2>2. parent[parent[b]] < Front
    BY <1>3, <2>1
  <2>3. QED
    BY <1>1, <1>5, <2>2 DEF ParserInv, PassedIsShown
<1>6. QED
  BY <1>4, <1>5 DEF CellShow

(* Whatever the document, its text is rendered in its order and none of it *)
(* twice, though tables show blocks that the walk meets again, and in the  *)
(* end none of it is left out but what a table has no place for.           *)
THEOREM TextIsWhole == ParserSpec => []TextComesThrough
<1>1. ParserInv => TextComesThrough
  BY EndedWalk DEF ParserInv, TextComesThrough
<1>2. QED
  BY <1>1, ParserAlways, PTL

LEMMA StepGoesOn ==
  ASSUME ParserInv, ParserNext
  PROVE  Front \in 0..BlockCount /\ Front' \in 1..(BlockCount + 1) /\ Front < Front'
<1>1. calls # <<>>
  BY DEF ParserNext, SkipConsumed, RenderPage, RenderText, RenderPlaceholder, RenderBox, RenderItem,
         RenderTable, RenderGrid, RenderColumn, Pending
<1>2. Front = Block /\ Block \in 0..BlockCount
  BY <1>1, NextCall DEF ParserInv
<1>3. CASE SkipConsumed
  <2>1. Block # Page
    BY <1>2, <1>3 DEF ParserInv, CallsAreHanging, SkipConsumed
  <2>2. Front' \in 1..(BlockCount + 1) /\ Front' > Block
    BY <1>3, <2>1, Skipped, ParserAssumption DEF ParserInv, Document, SkipConsumed
  <2>3. QED
    BY <1>2, <2>2, ParserAssumption
<1>4. CASE ~SkipConsumed
  <2>1. UNCHANGED <<kind, parent>> /\ \E level \in Nat : WalkInto(level)
    BY <1>1, <1>4, LevelTypes
    DEF ParserNext, RenderPage, RenderText, RenderPlaceholder, RenderBox, RenderItem,
        RenderTable, RenderGrid, RenderColumn
  <2>2. Front' = Block + 1
    BY <1>1, <2>1, Walked DEF ParserInv, Document
  <2>3. QED
    BY <1>2, <2>2, ParserAssumption
<1>5. QED
  BY <1>3, <1>4

(* Why the recursion ends: every call is of a later block than the one     *)
(* before it, so that no block is called twice and a document takes at     *)
(* most one call for each of its blocks and one for the page.              *)
THEOREM WalkGoesOn ==
  ParserSpec => [][Front' \in 1..(BlockCount + 1) /\ Front < Front']_parserState
<1>1. ParserInv /\ [ParserNext]_parserState
        => [Front' \in 1..(BlockCount + 1) /\ Front < Front']_parserState
  BY StepGoesOn
<1>2. QED
  BY <1>1, ParserAlways, PTL DEF ParserSpec
=============================================================================
