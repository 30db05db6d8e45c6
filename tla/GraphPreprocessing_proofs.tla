----------------------- MODULE GraphPreprocessing_proofs -----------------------
(***************************************************************************)
(* Proofs about GraphPreprocessing, for every number of nodes and every    *)
(* finite set of connections.                                              *)
(***************************************************************************)
EXTENDS GraphPreprocessingInv, TLAPS, FiniteSetTheorems, SequenceTheorems, WellFoundedInduction

(***************************************************************************)
(* Numbers and sequences.                                                  *)
(***************************************************************************)

LessThan == {p \in Nat \X Nat : p[1] < p[2]}

(* Every set of natural numbers has a least one. *)
LEMMA LeastNumber ==
  ASSUME NEW T \in SUBSET Nat, T # {}
  PROVE  \E x \in T : \A y \in T : x <= y
<1>1. IsWellFoundedOn(LessThan, Nat)
  BY NatLessThanWellFounded DEF LessThan, OpToRel
<1>2. PICK x \in T : \A y \in T : <<y, x>> \notin LessThan
  BY <1>1, WFMin
<1>3. ASSUME NEW y \in T PROVE x <= y
  <2>1. <<y, x>> \notin LessThan
    BY <1>2
  <2>2. <<y, x>> \in Nat \X Nat
    OBVIOUS
  <2>3. ~ (y < x)
    BY <2>1, <2>2 DEF LessThan
  <2>. QED BY <2>3
<1>. QED BY <1>3

LEMMA MinOfTwo ==
  ASSUME NEW a \in Nat, NEW b \in Nat
  PROVE  /\ Min({a, b}) \in Nat
         /\ Min({a, b}) <= a /\ Min({a, b}) <= b
         /\ Min({a, b}) \in {a, b}
BY DEF Min

LEMMA FrontLast ==
  ASSUME NEW S, NEW s \in Seq(S), s # <<>>
  PROVE  /\ Len(s) \in Nat \ {0}
         /\ Front(s) \in Seq(S)
         /\ Len(Front(s)) = Len(s) - 1
         /\ \A i \in 1 .. Len(s) - 1 : Front(s)[i] = s[i]
         /\ Last(s) = s[Len(s)] /\ Last(s) \in S
<1>1. Len(s) \in Nat \ {0} /\ \A i \in 1 .. Len(s) : s[i] \in S
  BY EmptySeq, ElementOfSeq
<1>. DEFINE t == SubSeq(s, 1, Len(s) - 1)
<1>2. /\ t \in Seq(S)
      /\ Len(t) = IF 1 <= Len(s) - 1 THEN Len(s) - 1 - 1 + 1 ELSE 0
      /\ \A i \in 1 .. Len(s) - 1 - 1 + 1 : t[i] = s[1 + i - 1]
  <2>1. 1 \in Int /\ Len(s) - 1 \in Int /\ \A i \in 1 .. Len(s) - 1 : s[i] \in S
    BY <1>1
  <2>. QED BY <2>1, SubSeqProperties
<1>3. Front(s) = t
  BY DEF Front
<1>. HIDE DEF t
<1>4. Len(t) = Len(s) - 1
  <2>1. Len(s) \in Nat /\ Len(s) >= 1
    BY <1>1
  <2>2. Len(t) = IF 1 <= Len(s) - 1 THEN Len(s) - 1 - 1 + 1 ELSE 0
    BY <1>2
  <2>. DEFINE l == Len(s)
              k == Len(t)
  <2>3. l \in Nat /\ l >= 1 /\ k = IF 1 <= l - 1 THEN l - 1 - 1 + 1 ELSE 0
    BY <2>1, <2>2
  <2>. HIDE DEF l, k
  <2>4. k = l - 1
    BY <2>3
  <2>. QED BY <2>4 DEF l, k
<1>5. ASSUME NEW i \in 1 .. Len(s) - 1 PROVE t[i] = s[i]
  <2>1. i \in 1 .. Len(s) - 1 - 1 + 1 /\ 1 + i - 1 = i
    BY <1>1
  <2>. QED BY <2>1, <1>2
<1>. QED BY <1>1, <1>2, <1>3, <1>4, <1>5 DEF Last

(***************************************************************************)
(* Reachability.                                                           *)
(***************************************************************************)

LEMMA AdjacentType ==
  ASSUME TypeInv, ListInv, NEW n \in Node
  PROVE  AdjacentNodes(n) \subseteq Node
BY DEF ListInv, AdjacentNodes

LEMMA ReachesNext ==
  ASSUME NEW a \in Node, NEW b \in AdjacentNodes(a)
  PROVE  Reaches(a, b)
BY DEF Reaches

LEMMA ReachesTransitive ==
  ASSUME NEW a, NEW b, NEW c, Reaches(a, b), Reaches(b, c)
  PROVE  Reaches(a, c)
BY DEF Reaches

(* What is reached lies in every closed set with what one may begin with. *)
LEMMA ReachesInside ==
  ASSUME NEW a, NEW b, Reaches(a, b), NEW S \in SUBSET Node,
         AdjacentNodes(a) \subseteq S, \A n \in S : AdjacentNodes(n) \subseteq S
  PROVE  b \in S
BY DEF Reaches

LEMMA LeadsTransitive ==
  ASSUME NEW a, NEW b, NEW c, Leads(a, b), Leads(b, c)
  PROVE  Leads(a, c)
BY ReachesTransitive DEF Leads

LEMMA GraphKept ==
  ASSUME UNCHANGED connections
  PROVE  /\ \A n : AdjacentNodes(n)' = AdjacentNodes(n)
         /\ \A a, b : Reaches(a, b)' <=> Reaches(a, b)
         /\ \A a, b : Leads(a, b)' <=> Leads(a, b)
<1>1. \A n : AdjacentNodes(n)' = AdjacentNodes(n)
  BY DEF AdjacentNodes
<1>2. \A a, b : Reaches(a, b)' <=> Reaches(a, b)
  BY <1>1 DEF Reaches
<1>. QED BY <1>1, <1>2 DEF Leads

(***************************************************************************)
(* A call of strongConnect.  Below it are the calls there were, the last   *)
(* of which is past the connection to the new node.                        *)
(***************************************************************************)

CallRecord == [node : Node, left : SUBSET Node]

IsBelow(below, n) ==
  /\ below \in Seq(CallRecord)
  /\ Len(below) = Len(calls)
  /\ \A k \in 1 .. Len(calls) :
       /\ below[k].node = Caller(k)
       /\ below[k].left = IF k = Len(calls) THEN calls[k].left \ {n} ELSE calls[k].left
  /\ Len(calls) # 0 => n \in calls[Len(calls)].left

LEMMA VisitedCount ==
  ASSUME TypeInv
  PROVE  /\ IsFiniteSet(DOMAIN indices)
         /\ Cardinality(DOMAIN indices) \in Nat
         /\ \A n \in Node \ DOMAIN indices :
              Cardinality(DOMAIN indices \cup {n}) = Cardinality(DOMAIN indices) + 1
<1>1. IsFiniteSet(Node)
  BY FS_Interval, GraphPreprocessingAssumption DEF Node
<1>2. IsFiniteSet(DOMAIN indices)
  BY <1>1, FS_Subset DEF TypeInv
<1>. QED BY <1>2, FS_CardinalityType, FS_AddElement

(* What a call does to the state. *)
LEMMA ConnectFacts ==
  ASSUME IInv, Defined, NEW n \in Node, n \notin DOMAIN indices,
         NEW below, IsBelow(below, n), StrongConnect(n, below)
  PROVE  /\ DOMAIN indices' = DOMAIN indices \cup {n}
         /\ indices' \in [DOMAIN indices' -> Nat] /\ lowLinks' \in [DOMAIN indices' -> Nat]
         /\ indices'[n] = Cardinality(DOMAIN indices)
         /\ lowLinks'[n] = Cardinality(DOMAIN indices)
         /\ \A m \in DOMAIN indices :
              /\ indices'[m] = indices[m] /\ lowLinks'[m] = lowLinks[m]
              /\ indices[m] < indices'[n]
         /\ onStack' = onStack \cup {n}
         /\ stack' \in Seq(Node) /\ Len(stack') = Len(stack) + 1
         /\ \A i \in 1 .. Len(stack) : stack'[i] = stack[i]
         /\ stack'[Len(stack) + 1] = n
         /\ calls' \in Seq(CallRecord) /\ Len(calls') = Len(calls) + 1
         /\ \A k \in 1 .. Len(calls) :
              /\ calls'[k].node = calls[k].node
              /\ calls'[k].left = IF k = Len(calls) THEN calls[k].left \ {n} ELSE calls[k].left
         /\ calls'[Len(calls) + 1].node = n
         /\ calls'[Len(calls) + 1].left = AdjacentNodes(n)
         /\ UNCHANGED <<graph, connections, definitions, components>>
<1>. USE DEF IInv
<1>0. TypeInv /\ ListInv /\ IndexInv
  OBVIOUS
<1>1. /\ UNCHANGED <<graph, connections, definitions, components>>
      /\ onStack' = onStack \cup {n}
      /\ indices' = With(indices, n, Cardinality(DOMAIN indices))
      /\ lowLinks' = With(lowLinks, n, Cardinality(DOMAIN indices))
      /\ stack' = Append(stack, n)
      /\ calls' = Append(below, [node |-> n, left |-> AdjacentNodes(n)])
  BY DEF StrongConnect
<1>2. DOMAIN lowLinks = DOMAIN indices
  BY DEF TypeInv
<1>3. /\ DOMAIN indices' = DOMAIN indices \cup {n} /\ DOMAIN lowLinks' = DOMAIN indices \cup {n}
      /\ indices'[n] = Cardinality(DOMAIN indices) /\ lowLinks'[n] = Cardinality(DOMAIN indices)
      /\ \A m \in DOMAIN indices : indices'[m] = indices[m] /\ lowLinks'[m] = lowLinks[m]
  BY <1>1, <1>2 DEF With
<1>13. indices' \in [DOMAIN indices' -> Nat] /\ lowLinks' \in [DOMAIN indices' -> Nat]
  <2>1. Cardinality(DOMAIN indices) \in Nat
    BY <1>0, VisitedCount
  <2>2. /\ indices' = [m \in DOMAIN indices' |-> indices'[m]]
        /\ lowLinks' = [m \in DOMAIN indices' |-> lowLinks'[m]]
    BY <1>1, <1>2 DEF With
  <2>3. \A m \in DOMAIN indices : indices[m] \in Nat /\ lowLinks[m] \in Nat
    BY DEF TypeInv
  <2>. QED BY <2>1, <2>2, <2>3, <1>3
<1>4. \A m \in DOMAIN indices : indices[m] < indices'[n]
  BY <1>0, <1>3 DEF IndexInv
<1>5. /\ stack' \in Seq(Node) /\ Len(stack') = Len(stack) + 1
      /\ \A i \in 1 .. Len(stack) : stack'[i] = stack[i]
      /\ stack'[Len(stack) + 1] = n
  BY <1>1, AppendProperties DEF TypeInv
<1>6. [node |-> n, left |-> AdjacentNodes(n)] \in CallRecord
  BY <1>0, AdjacentType DEF CallRecord
<1>7. /\ calls' \in Seq(CallRecord) /\ Len(calls') = Len(calls) + 1
      /\ \A k \in 1 .. Len(calls) : calls'[k] = below[k]
      /\ calls'[Len(calls) + 1] = [node |-> n, left |-> AdjacentNodes(n)]
  <2>1. below \in Seq(CallRecord) /\ Len(below) = Len(calls)
    BY DEF IsBelow
  <2>. DEFINE call == [node |-> n, left |-> AdjacentNodes(n)]
  <2>2. call \in CallRecord /\ calls' = Append(below, call)
    BY <1>1, <1>6
  <2>. HIDE DEF call
  <2>3. /\ Append(below, call) \in Seq(CallRecord)
        /\ Len(Append(below, call)) = Len(below) + 1
        /\ \A k \in 1 .. Len(below) : Append(below, call)[k] = below[k]
        /\ Append(below, call)[Len(below) + 1] = call
    BY <2>1, <2>2, AppendProperties
  <2>4. calls'[Len(calls) + 1] = call
    BY <2>1, <2>2, <2>3
  <2>. QED BY <2>1, <2>2, <2>3, <2>4 DEF call
<1>8. ASSUME NEW k \in 1 .. Len(calls)
      PROVE  /\ calls'[k].node = calls[k].node
             /\ calls'[k].left = IF k = Len(calls) THEN calls[k].left \ {n} ELSE calls[k].left
  BY <1>7 DEF IsBelow, Caller
<1>9. Len(calls') = Len(calls) + 1
  BY <1>7 DEF IsBelow
<1>10. calls'[Len(calls) + 1] = [node |-> n, left |-> AdjacentNodes(n)]
  BY <1>7
<1>11. calls'[Len(calls) + 1].node = n /\ calls'[Len(calls) + 1].left = AdjacentNodes(n)
  BY <1>10
<1>12. calls' \in Seq(CallRecord)
  BY <1>7
<1>. HIDE DEF IInv
<1>. QED BY <1>1, <1>3, <1>13, <1>4, <1>5, <1>8, <1>9, <1>11, <1>12

(* The calls and the numbers of the nodes, in the terms of the invariant. *)
LEMMA CallersType ==
  ASSUME TypeInv, StackInv, CallInv
  PROVE  /\ Len(calls) \in Nat /\ DOMAIN calls = 1 .. Len(calls)
         /\ \A k \in DOMAIN calls :
              /\ calls[k] \in CallRecord
              /\ Caller(k) \in Node /\ Caller(k) \in onStack /\ Caller(k) \in DOMAIN indices
         /\ \A m \in DOMAIN indices : m \in Node /\ indices[m] \in Nat /\ lowLinks[m] \in Nat
         /\ \A m \in onStack : m \in DOMAIN indices
         /\ \A a, b \in onStack : indices[a] = indices[b] => a = b
<1>1. Len(calls) \in Nat /\ DOMAIN calls = 1 .. Len(calls)
  BY LenProperties DEF TypeInv
<1>2. \A k \in DOMAIN calls : calls[k] \in CallRecord
  BY <1>1, ElementOfSeq DEF TypeInv, CallRecord
<1>3. \A m \in onStack : m \in DOMAIN indices
  BY DEF TypeInv
<1>4. \A m \in DOMAIN indices : m \in Node /\ indices[m] \in Nat /\ lowLinks[m] \in Nat
  BY DEF TypeInv
<1>5. \A k \in DOMAIN calls : Caller(k) \in onStack
  BY DEF CallInv
<1>6. ASSUME NEW a \in onStack, NEW b \in onStack, indices[a] = indices[b] PROVE a = b
  <2>1. PICK i \in DOMAIN stack : a = stack[i]
    BY DEF StackInv
  <2>2. PICK j \in DOMAIN stack : b = stack[j]
    BY DEF StackInv
  <2>3. i \in Int /\ j \in Int
    BY LenProperties DEF TypeInv
  <2>4. ~ (i < j) /\ ~ (j < i)
    BY <1>3, <1>4, <1>6, <2>1, <2>2 DEF StackInv
  <2>. QED BY <2>1, <2>2, <2>3, <2>4
<1>. QED BY <1>1, <1>2, <1>3, <1>4, <1>5, <1>6

(* Every caller reaches a node that the last one has a connection to. *)
LEMMA CallersReach ==
  ASSUME TypeInv, StackInv, CallInv, DownInv,
         NEW k \in DOMAIN calls, NEW m \in calls[Len(calls)].left
  PROVE  Reaches(Caller(k), m)
<1>1. k \in 1 .. Len(calls) /\ Len(calls) \in Nat /\ Len(calls) \in DOMAIN calls
  BY CallersType
<1>2. Reaches(Caller(Len(calls)), m)
  <2>1. Caller(Len(calls)) \in Node /\ m \in AdjacentNodes(Caller(Len(calls)))
    BY <1>1, CallersType DEF CallInv
  <2>. QED BY <2>1, ReachesNext
<1>3. CASE k = Len(calls)
  BY <1>2, <1>3
<1>4. CASE k < Len(calls)
  <2>1. indices[Caller(k)] < indices[Caller(Len(calls))] /\ Caller(Len(calls)) \in onStack
    BY <1>1, <1>4 DEF CallInv
  <2>2. Reaches(Caller(k), Caller(Len(calls)))
    BY <2>1 DEF DownInv
  <2>. QED BY <2>2, <1>2, ReachesTransitive
<1>. QED BY <1>1, <1>3, <1>4

(* A call keeps the invariant. *)
LEMMA ConnectStep ==
  ASSUME IInv, Defined, NEW n \in Node, n \notin DOMAIN indices,
         NEW below, IsBelow(below, n), StrongConnect(n, below)
  PROVE  IInv'
<1>. DEFINE N == Len(calls)
            index == Cardinality(DOMAIN indices)
<1>0. /\ TypeInv /\ ListInv /\ PortInv /\ PhaseInv /\ IndexInv /\ StackInv /\ CallInv
      /\ SeenInv /\ DownInv /\ UpInv /\ LowInv /\ BoundInv /\ ComponentInv
  BY DEF IInv
<1>1. /\ DOMAIN indices' = DOMAIN indices \cup {n}
      /\ indices' \in [DOMAIN indices' -> Nat] /\ lowLinks' \in [DOMAIN indices' -> Nat]
      /\ indices'[n] = index /\ lowLinks'[n] = index
      /\ \A m \in DOMAIN indices : /\ indices'[m] = indices[m] /\ lowLinks'[m] = lowLinks[m]
                                   /\ indices[m] < indices'[n]
      /\ onStack' = onStack \cup {n}
      /\ UNCHANGED <<graph, connections, definitions, components>>
  BY ConnectFacts
<1>2. /\ stack' \in Seq(Node) /\ Len(stack') = Len(stack) + 1
      /\ \A i \in 1 .. Len(stack) : stack'[i] = stack[i]
      /\ stack'[Len(stack) + 1] = n
  BY ConnectFacts
<1>3. /\ calls' \in Seq(CallRecord) /\ Len(calls') = N + 1
      /\ \A k \in 1 .. N :
              /\ calls'[k].node = calls[k].node
              /\ calls'[k].left = IF k = N THEN calls[k].left \ {n} ELSE calls[k].left
      /\ calls'[N + 1].node = n
      /\ calls'[N + 1].left = AdjacentNodes(n)
  BY ConnectFacts
<1>4. /\ N \in Nat /\ DOMAIN calls = 1 .. N
      /\ \A k \in DOMAIN calls :
           /\ calls[k] \in CallRecord
           /\ Caller(k) \in Node /\ Caller(k) \in onStack /\ Caller(k) \in DOMAIN indices
      /\ \A m \in DOMAIN indices : m \in Node /\ indices[m] \in Nat /\ lowLinks[m] \in Nat
      /\ \A m \in onStack : m \in DOMAIN indices
  BY <1>0, CallersType
<1>23. PICK top \in Nat : top = N + 1
  BY <1>4
<1>5. DOMAIN calls' = 1 .. top /\ top \in Nat
  BY <1>3, <1>4, <1>23, LenProperties
<1>6. (\A k \in DOMAIN calls : Caller(k)' = Caller(k)) /\ Caller(top)' = n
  <2>1. \A k \in DOMAIN calls : Caller(k)' = Caller(k)
    BY <1>3, <1>4 DEF Caller
  <2>2. Caller(top)' = n
    BY <1>3, <1>23 DEF Caller
  <2>. QED BY <2>1, <2>2
<1>7. /\ \A m : AdjacentNodes(m)' = AdjacentNodes(m)
      /\ \A a, b : Reaches(a, b)' <=> Reaches(a, b)
      /\ \A a, b : Leads(a, b)' <=> Leads(a, b)
  BY <1>1, GraphKept
<1>8. \A k \in DOMAIN calls : Reaches(Caller(k), n)
  <2>1. ASSUME NEW k \in DOMAIN calls PROVE n \in calls[N].left
    BY <1>4 DEF IsBelow
  <2>. QED BY <1>0, <2>1, CallersReach
<1>9. ASSUME NEW m \in DOMAIN indices PROVE Seen(m)' \subseteq Seen(m) \cup {n}
  <2>. SUFFICES ASSUME NEW b \in Seen(m)', b # n PROVE b \in Seen(m)
    OBVIOUS
  <2>1. b \in AdjacentNodes(m)
    BY <1>7 DEF Seen
  <2>2. ASSUME NEW k \in DOMAIN calls, Caller(k) = m PROVE b \notin calls[k].left
    <3>1. k \in DOMAIN calls' /\ Caller(k)' = m
      BY <1>23, <1>4, <1>5, <1>6, <2>2
    <3>2. b \notin calls'[k].left
      BY <3>1 DEF Seen
    <3>. QED BY <3>2, <1>3, <1>4
  <2>. QED BY <2>1, <2>2 DEF Seen
<1>10. Seen(n)' = {}
  <2>1. top \in DOMAIN calls'
    BY <1>4, <1>5, <1>23
  <2>2. calls'[top].left = AdjacentNodes(n)
    BY <1>3, <1>23
  <2>. QED BY <2>1, <2>2, <1>6, <1>7 DEF Seen
<1>. HIDE DEF N, index
<1>11. n \notin onStack /\ \A k \in DOMAIN calls : Caller(k) # n
  BY <1>4
<1>12. TypeInv'
  BY <1>0, <1>1, <1>2, <1>3 DEF TypeInv, CallRecord
<1>13. ListInv' /\ PortInv' /\ PhaseInv'
  BY <1>0, <1>1 DEF ListInv, PortInv, PhaseInv, Defined
<1>14. IndexInv'
  <2>1. Cardinality(DOMAIN indices') = index + 1 /\ index \in Nat
    BY <1>0, <1>1, VisitedCount DEF index
  <2>2. \A m \in DOMAIN indices : indices[m] < index
    BY <1>0 DEF IndexInv, index
  <2>. QED BY <2>1, <2>2, <1>1, <1>4 DEF IndexInv
<1>15. StackInv'
  <2>1. Len(stack) \in Nat /\ DOMAIN stack = 1 .. Len(stack) /\ DOMAIN stack' = 1 .. Len(stack) + 1
    BY <1>0, <1>2, LenProperties DEF TypeInv
  <2>2. onStack = {stack[i] : i \in DOMAIN stack}
    BY <1>0 DEF StackInv
  <2>3. onStack' = {stack'[i] : i \in DOMAIN stack'}
    <3>1. ASSUME NEW m \in onStack' PROVE \E i \in DOMAIN stack' : m = stack'[i]
      BY <1>1, <1>2, <2>1, <2>2
    <3>2. ASSUME NEW i \in DOMAIN stack' PROVE stack'[i] \in onStack'
      BY <1>1, <1>2, <2>1, <2>2
    <3>. QED BY <3>1, <3>2
  <2>4. ASSUME NEW i \in DOMAIN stack', NEW j \in DOMAIN stack', i < j
        PROVE  indices'[stack'[i]] < indices'[stack'[j]]
    <3>1. i \in DOMAIN stack /\ stack'[i] = stack[i] /\ stack[i] \in DOMAIN indices
      BY <2>1, <2>2, <2>4, <1>2, <1>4
    <3>2. CASE j = Len(stack) + 1
      BY <3>1, <3>2, <1>1, <1>2
    <3>3. CASE j # Len(stack) + 1
      <4>1. j \in DOMAIN stack /\ stack'[j] = stack[j] /\ stack[j] \in DOMAIN indices
        BY <2>1, <2>2, <3>3, <1>2, <1>4
      <4>2. indices[stack[i]] < indices[stack[j]]
        BY <1>0, <2>4, <3>1, <4>1 DEF StackInv
      <4>. QED BY <3>1, <4>1, <4>2, <1>1
    <3>. QED BY <3>2, <3>3
  <2>. QED BY <2>3, <2>4 DEF StackInv
<1>16. CallInv'
  <2>1. ASSUME NEW k \in DOMAIN calls'
        PROVE  Caller(k)' \in onStack' /\ calls'[k].left \subseteq AdjacentNodes(Caller(k)')
    <3>1. CASE k = top
      <4>1. Caller(k)' = n /\ calls'[k].left = AdjacentNodes(n)
        BY <3>1, <1>3, <1>6, <1>23
      <4>. QED BY <4>1, <1>1
    <3>2. CASE k \in DOMAIN calls
      <4>1. Caller(k) \in onStack /\ calls[k].left \subseteq AdjacentNodes(Caller(k))
        BY <1>0, <3>2 DEF CallInv
      <4>. QED BY <4>1, <3>2, <1>1, <1>3, <1>4, <1>6
    <3>. QED BY <3>1, <3>2, <1>4, <1>5, <1>23
  <2>2. ASSUME NEW k \in DOMAIN calls', NEW l \in DOMAIN calls', k < l
        PROVE  indices'[Caller(k)'] < indices'[Caller(l)']
    <3>1. k \in DOMAIN calls
      BY <2>2, <1>4, <1>5, <1>23
    <3>2. CASE l = top
      BY <3>1, <3>2, <1>1, <1>4, <1>6
    <3>3. CASE l \in DOMAIN calls
      <4>1. indices[Caller(k)] < indices[Caller(l)]
        BY <1>0, <2>2, <3>1, <3>3 DEF CallInv
      <4>. QED BY <4>1, <3>1, <3>3, <1>1, <1>4, <1>6
    <3>. QED BY <3>2, <3>3, <1>4, <1>5, <1>23
  <2>. QED BY <2>1, <2>2, <1>7 DEF CallInv
<1>17. SeenInv'
  BY <1>0, <1>1, <1>9, <1>10 DEF SeenInv
<1>18. DownInv'
  <2>1. ASSUME NEW k \in DOMAIN calls', NEW m \in onStack', indices'[Caller(k)'] < indices'[m]
        PROVE  Reaches(Caller(k)', m)
    <3>1. k # top
      BY <2>1, <1>1, <1>4, <1>6
    <3>2. k \in DOMAIN calls
      BY <3>1, <1>4, <1>5, <1>23
    <3>3. CASE m = n
      BY <3>2, <3>3, <1>6, <1>8
    <3>4. CASE m \in onStack
      <4>1. indices[Caller(k)] < indices[m]
        BY <2>1, <3>2, <3>4, <1>1, <1>4, <1>6
      <4>. QED BY <4>1, <3>2, <3>4, <1>0, <1>6 DEF DownInv
    <3>. QED BY <3>3, <3>4, <1>1
  <2>. QED BY <2>1, <1>7 DEF DownInv
<1>19. UpInv'
  <2>1. ASSUME NEW m \in onStack'
        PROVE  \E k \in DOMAIN calls' : indices'[Caller(k)'] <= indices'[m] /\ Leads(m, Caller(k)')
    <3>1. CASE m = n
      <4>0. indices'[n] \in Nat
        BY <1>1
      <4>1. top \in DOMAIN calls' /\ indices'[n] <= indices'[n] /\ Leads(n, n)
        BY <4>0, <1>4, <1>5, <1>23 DEF Leads
      <4>. QED BY <4>1, <3>1, <1>6
    <3>2. CASE m \in onStack
      <4>1. PICK k \in DOMAIN calls : indices[Caller(k)] <= indices[m] /\ Leads(m, Caller(k))
        BY <1>0, <3>2 DEF UpInv
      <4>2. k \in DOMAIN calls' /\ Caller(k)' = Caller(k)
        BY <1>4, <1>5, <1>23, <1>6
      <4>3. indices'[Caller(k)'] <= indices'[m] /\ Leads(m, Caller(k)')
        BY <4>1, <4>2, <3>2, <1>1, <1>4
      <4>. QED BY <4>2, <4>3
    <3>. QED BY <3>1, <3>2, <1>1
  <2>. QED BY <2>1, <1>7 DEF UpInv
<1>20. LowInv'
  <2>1. ASSUME NEW k \in DOMAIN calls'
        PROVE  /\ lowLinks'[Caller(k)'] <= indices'[Caller(k)']
               /\ \E m \in onStack' : indices'[m] = lowLinks'[Caller(k)'] /\ Leads(Caller(k)', m)
    <3>1. CASE k = top
      <4>1. Caller(k)' = n /\ n \in onStack' /\ indices'[n] = lowLinks'[n] /\ Leads(n, n)
        BY <3>1, <1>1, <1>6 DEF Leads
      <4>2. indices'[n] \in Nat
        BY <1>1
      <4>. QED BY <4>1, <4>2
    <3>2. CASE k \in DOMAIN calls
      <4>1. lowLinks[Caller(k)] <= indices[Caller(k)]
        BY <1>0, <3>2 DEF LowInv
      <4>2. PICK m \in onStack : indices[m] = lowLinks[Caller(k)] /\ Leads(Caller(k), m)
        BY <1>0, <3>2 DEF LowInv
      <4>3. Caller(k)' = Caller(k) /\ Caller(k) \in DOMAIN indices /\ m \in DOMAIN indices
        BY <3>2, <1>4, <1>6
      <4>4. m \in onStack' /\ indices'[m] = lowLinks'[Caller(k)'] /\ Leads(Caller(k)', m)
        BY <4>2, <4>3, <1>1
      <4>. QED BY <4>1, <4>3, <4>4, <1>1
    <3>. QED BY <3>1, <3>2, <1>4, <1>5, <1>23
  <2>. QED BY <2>1, <1>7 DEF LowInv
<1>21. BoundInv'
  <2>1. ASSUME NEW k \in DOMAIN calls', NEW m \in onStack',
               indices'[Caller(k)'] <= indices'[m],
               k < Len(calls') => indices'[m] < indices'[Caller(k + 1)'],
               NEW b \in Seen(m)', b \in onStack'
        PROVE  lowLinks'[Caller(k)'] <= indices'[b]
    <3>1. m # n /\ m \in onStack
      BY <2>1, <1>1, <1>10
    <3>2. k # top /\ k \in DOMAIN calls
      BY <2>1, <3>1, <1>1, <1>4, <1>5, <1>23, <1>6
    <3>3. /\ indices[Caller(k)] <= indices[m]
          /\ k < N => indices[m] < indices[Caller(k + 1)]
      <4>1. indices[Caller(k)] <= indices[m]
        BY <2>1, <3>1, <3>2, <1>1, <1>4, <1>6
      <4>2. ASSUME k < N PROVE indices[m] < indices[Caller(k + 1)]
        <5>1. k + 1 \in DOMAIN calls /\ k < Len(calls')
          <6>1. k \in 1 .. N /\ N \in Nat /\ Len(calls') = N + 1 /\ DOMAIN calls = 1 .. N
            BY <3>2, <1>3, <1>4
          <6>. QED BY <4>2, <6>1
        <5>2. indices'[m] < indices'[Caller(k + 1)]
          BY <5>1, <2>1, <1>6
        <5>. QED BY <5>1, <5>2, <3>1, <1>1, <1>4
      <4>. QED BY <4>1, <4>2
    <3>4. Caller(k)' = Caller(k) /\ Caller(k) \in DOMAIN indices
      BY <3>2, <1>4, <1>6
    <3>5. CASE b = n
      <4>1. lowLinks[Caller(k)] <= indices[Caller(k)] /\ indices[Caller(k)] < indices'[n]
        BY <1>0, <1>1, <3>2, <3>4 DEF LowInv
      <4>. QED BY <4>1, <3>4, <3>5, <1>1, <1>4
    <3>6. CASE b # n
      <4>1. b \in Seen(m) /\ b \in onStack
        BY <3>1, <3>6, <2>1, <1>1, <1>4, <1>9
      <4>2. lowLinks[Caller(k)] <= indices[b]
        BY <4>1, <3>1, <3>2, <3>3, <1>0 DEF BoundInv, N
      <4>. QED BY <4>1, <4>2, <3>4, <1>1, <1>4
    <3>. QED BY <3>5, <3>6
  <2>. QED BY <2>1 DEF BoundInv
<1>22. ComponentInv'
  <2>1. DOMAIN indices' \ onStack' = DOMAIN indices \ onStack
    BY <1>1
  <2>. QED BY <2>1, <1>0, <1>1, <1>7 DEF ComponentInv
<1>. QED BY <1>12, <1>13, <1>14, <1>15, <1>16, <1>17, <1>18, <1>19, <1>20, <1>21, <1>22 DEF IInv

(* Past the connection to a node, only what is left of the last call is less. *)
LEMMA LookedAtFacts ==
  ASSUME TypeInv, calls # <<>>, NEW m
  PROVE  /\ Len(calls) \in Nat \ {0}
         /\ LookedAt(m) \in Seq(CallRecord)
         /\ Len(LookedAt(m)) = Len(calls)
         /\ \A k \in 1 .. Len(calls) :
              /\ LookedAt(m)[k].node = Caller(k)
              /\ LookedAt(m)[k].left = IF k = Len(calls) THEN calls[k].left \ {m} ELSE calls[k].left
         /\ Current = calls[Len(calls)] /\ Current \in CallRecord
<1>1. calls \in Seq(CallRecord)
  BY DEF TypeInv, CallRecord
<1>2. /\ Len(calls) \in Nat \ {0}
      /\ Front(calls) \in Seq(CallRecord)
      /\ Len(Front(calls)) = Len(calls) - 1
      /\ \A k \in 1 .. Len(calls) - 1 : Front(calls)[k] = calls[k]
      /\ Current = calls[Len(calls)] /\ Current \in CallRecord
  BY <1>1, FrontLast DEF Current
<1>. DEFINE below == Front(calls)
            call == [Current EXCEPT !.left = @ \ {m}]
<1>3. call \in CallRecord /\ call.node = Current.node /\ call.left = Current.left \ {m}
  BY <1>2 DEF CallRecord
<1>4. below \in Seq(CallRecord) /\ Len(below) = Len(calls) - 1
  BY <1>2
<1>5. LookedAt(m) = Append(below, call)
  BY DEF LookedAt
<1>6. \A k \in 1 .. Len(calls) - 1 : below[k] = calls[k]
  BY <1>2
<1>. HIDE DEF below, call
<1>7. /\ Append(below, call) \in Seq(CallRecord)
      /\ Len(Append(below, call)) = Len(below) + 1
      /\ \A k \in 1 .. Len(below) : Append(below, call)[k] = below[k]
      /\ Append(below, call)[Len(below) + 1] = call
  BY <1>3, <1>4, AppendProperties
<1>8. Len(LookedAt(m)) = Len(calls)
  BY <1>2, <1>4, <1>5, <1>7
<1>9. ASSUME NEW k \in 1 .. Len(calls)
      PROVE  /\ LookedAt(m)[k].node = Caller(k)
             /\ LookedAt(m)[k].left = IF k = Len(calls) THEN calls[k].left \ {m} ELSE calls[k].left
  <2>1. CASE k = Len(calls)
    <3>1. LookedAt(m)[k] = call
      BY <1>2, <1>4, <1>5, <1>7, <2>1
    <3>. QED BY <3>1, <2>1, <1>2, <1>3 DEF Caller
  <2>2. CASE k # Len(calls)
    <3>1. k \in 1 .. Len(calls) - 1
      BY <1>2, <2>2
    <3>2. LookedAt(m)[k] = calls[k]
      BY <3>1, <1>4, <1>5, <1>6, <1>7
    <3>. QED BY <3>2, <2>2 DEF Caller
  <2>. QED BY <2>1, <2>2
<1>. QED BY <1>2, <1>5, <1>7, <1>8, <1>9

LEMMA NextRootStep ==
  ASSUME IInv, NextRoot
  PROVE  IInv'
<1>1. PICK n \in Node \ DOMAIN indices : StrongConnect(n, <<>>)
  BY DEF NextRoot
<1>2. Defined /\ calls = <<>>
  BY DEF NextRoot
<1>3. IsBelow(<<>>, n)
  BY <1>2 DEF IsBelow
<1>. QED BY <1>1, <1>2, <1>3, ConnectStep

LEMMA DescendStep ==
  ASSUME IInv, Descend
  PROVE  IInv'
<1>1. PICK n \in Current.left \ DOMAIN indices : StrongConnect(n, LookedAt(n))
  BY DEF Descend
<1>2. calls # <<>>
  BY DEF Descend
<1>3. Defined
  BY <1>2 DEF IInv, PhaseInv
<1>4. TypeInv
  BY DEF IInv
<1>5. n \in Node /\ n \in calls[Len(calls)].left
  BY <1>1, <1>2, <1>4, LookedAtFacts DEF CallRecord
<1>6. IsBelow(LookedAt(n), n)
  BY <1>2, <1>4, <1>5, LookedAtFacts DEF IsBelow
<1>. QED BY <1>1, <1>3, <1>5, <1>6, ConnectStep

(***************************************************************************)
(* A connection to a node that has an index.                               *)
(***************************************************************************)

LEMMA LookAtVisitedStep ==
  ASSUME IInv, LookAtVisited
  PROVE  IInv'
<1>. PICK N \in Nat : N = Len(calls)
  BY LenProperties DEF IInv, TypeInv
<1>0. /\ TypeInv /\ ListInv /\ PortInv /\ PhaseInv /\ IndexInv /\ StackInv /\ CallInv
      /\ SeenInv /\ DownInv /\ UpInv /\ LowInv /\ BoundInv /\ ComponentInv
  BY DEF IInv
<1>1. PICK m \in Current.left \cap DOMAIN indices :
        SeeVisited(m) /\ calls' = LookedAt(m)
  BY DEF LookAtVisited
<1>2. /\ calls # <<>>
      /\ UNCHANGED <<graph, connections, definitions, indices, stack, onStack, components>>
  BY DEF LookAtVisited
<1>3. /\ N \in Nat \ {0}
      /\ calls' \in Seq(CallRecord) /\ Len(calls') = N
      /\ \A k \in 1 .. N :
           /\ calls'[k].node = Caller(k)
           /\ calls'[k].left = IF k = N THEN calls[k].left \ {m} ELSE calls[k].left
      /\ Current = calls[N]
  BY <1>0, <1>1, <1>2, LookedAtFacts
<1>4. /\ DOMAIN calls = 1 .. N
      /\ \A k \in DOMAIN calls :
           /\ calls[k] \in CallRecord
           /\ Caller(k) \in Node /\ Caller(k) \in onStack /\ Caller(k) \in DOMAIN indices
      /\ \A x \in DOMAIN indices : x \in Node /\ indices[x] \in Nat /\ lowLinks[x] \in Nat
      /\ \A x \in onStack : x \in DOMAIN indices
  BY <1>0, CallersType
<1>5. DOMAIN calls' = 1 .. N
  BY <1>3, LenProperties
<1>6. \A k \in DOMAIN calls : Caller(k)' = Caller(k)
  BY <1>3, <1>4 DEF Caller
<1>7. /\ \A x : AdjacentNodes(x)' = AdjacentNodes(x)
      /\ \A a, b : Reaches(a, b)' <=> Reaches(a, b)
      /\ \A a, b : Leads(a, b)' <=> Leads(a, b)
  BY <1>2, GraphKept
<1>8. m \in calls[N].left /\ m \in DOMAIN indices /\ N \in DOMAIN calls
  BY <1>1, <1>3, <1>4
<1>9. \A k \in DOMAIN calls : k < N => indices[Caller(k)] < indices[Caller(N)]
  BY <1>0, <1>8 DEF CallInv
<1>10. \A k \in DOMAIN calls : k # N => Caller(k) # Caller(N)
  <2>1. ASSUME NEW k \in DOMAIN calls, k # N PROVE Caller(k) # Caller(N)
    <3>1. k < N
      BY <2>1, <1>4
    <3>2. indices[Caller(k)] < indices[Caller(N)] /\ indices[Caller(N)] \in Nat
      BY <3>1, <1>4, <1>8, <1>9
    <3>. QED BY <3>2
  <2>. QED BY <2>1
<1>11. \A x : Seen(x)' \subseteq Seen(x) \cup {m}
  <2>. SUFFICES ASSUME NEW x, NEW b \in Seen(x)', b # m PROVE b \in Seen(x)
    OBVIOUS
  <2>1. b \in AdjacentNodes(x)
    BY <1>7 DEF Seen
  <2>2. ASSUME NEW k \in DOMAIN calls, Caller(k) = x PROVE b \notin calls[k].left
    <3>1. k \in DOMAIN calls' /\ Caller(k)' = x
      BY <1>4, <1>5, <1>6, <2>2
    <3>2. b \notin calls'[k].left
      BY <3>1 DEF Seen
    <3>. QED BY <3>2, <1>3, <1>4
  <2>. QED BY <2>1, <2>2 DEF Seen
<1>12. \A x : x # Caller(N) => Seen(x)' \subseteq Seen(x)
  <2>. SUFFICES ASSUME NEW x, x # Caller(N), NEW b \in Seen(x)' PROVE b \in Seen(x)
    OBVIOUS
  <2>1. b \in AdjacentNodes(x)
    BY <1>7 DEF Seen
  <2>2. ASSUME NEW k \in DOMAIN calls, Caller(k) = x PROVE b \notin calls[k].left
    <3>1. k \in DOMAIN calls' /\ Caller(k)' = x /\ k # N
      BY <1>4, <1>5, <1>6, <2>2
    <3>2. b \notin calls'[k].left
      BY <3>1 DEF Seen
    <3>. QED BY <3>1, <3>2, <1>3, <1>4
  <2>. QED BY <2>1, <2>2 DEF Seen
<1>13. PICK c : c = Caller(N)
  OBVIOUS
<1>14. /\ lowLinks' \in [DOMAIN indices -> Nat]
       /\ \A x \in DOMAIN indices : x # c => lowLinks'[x] = lowLinks[x]
       /\ lowLinks'[c] <= lowLinks[c]
       /\ m \in onStack => lowLinks'[c] <= indices[m]
       /\ lowLinks'[c] = lowLinks[c] \/ (m \in onStack /\ lowLinks'[c] = indices[m])
  <2>1. c \in DOMAIN indices /\ Current.node = c /\ lowLinks[c] \in Nat /\ indices[m] \in Nat
    BY <1>3, <1>4, <1>8, <1>13 DEF Caller
  <2>2. lowLinks \in [DOMAIN indices -> Nat]
    BY <1>0 DEF TypeInv
  <2>3. CASE m \in onStack
    <3>1. lowLinks' = [lowLinks EXCEPT ![c] = Min({lowLinks[c], indices[m]})]
      BY <1>1, <2>1, <2>2, <2>3 DEF SeeVisited, Lowered
    <3>. DEFINE low == Min({lowLinks[c], indices[m]})
    <3>2. /\ low \in Nat /\ low <= lowLinks[c] /\ low <= indices[m]
          /\ low \in {lowLinks[c], indices[m]}
      BY <2>1, MinOfTwo
    <3>3. lowLinks' = [lowLinks EXCEPT ![c] = low]
      BY <3>1
    <3>. HIDE DEF low
    <3>. QED BY <3>2, <3>3, <2>1, <2>2, <2>3
  <2>4. CASE m \notin onStack
    <3>1. lowLinks' = lowLinks
      BY <1>1, <2>4 DEF SeeVisited
    <3>. QED BY <3>1, <2>1, <2>2, <2>4
  <2>. QED BY <2>3, <2>4
<1>15. TypeInv'
  BY <1>0, <1>2, <1>3, <1>14 DEF TypeInv, CallRecord
<1>16. ListInv' /\ PortInv' /\ PhaseInv' /\ IndexInv' /\ StackInv'
  BY <1>0, <1>2 DEF ListInv, PortInv, PhaseInv, Defined, IndexInv, StackInv
<1>17. CallInv'
  <2>1. ASSUME NEW k \in DOMAIN calls'
        PROVE  Caller(k)' \in onStack' /\ calls'[k].left \subseteq AdjacentNodes(Caller(k)')
    <3>1. Caller(k) \in onStack /\ calls[k].left \subseteq AdjacentNodes(Caller(k))
      BY <1>0, <1>4, <1>5 DEF CallInv
    <3>2. Caller(k)' = Caller(k) /\ calls'[k].left \subseteq calls[k].left
      BY <1>3, <1>4, <1>5, <1>6
    <3>. QED BY <3>1, <3>2, <1>2
  <2>2. \A k, l \in DOMAIN calls' : k < l => indices'[Caller(k)'] < indices'[Caller(l)']
    BY <1>0, <1>2, <1>4, <1>5, <1>6 DEF CallInv
  <2>. QED BY <2>1, <2>2, <1>7 DEF CallInv
<1>18. SeenInv'
  <2>1. \A x \in DOMAIN indices : Seen(x)' \subseteq DOMAIN indices
    BY <1>0, <1>8, <1>11 DEF SeenInv
  <2>. QED BY <2>1, <1>2 DEF SeenInv
<1>19. DownInv'
  BY <1>0, <1>2, <1>4, <1>5, <1>6, <1>7 DEF DownInv
<1>20. UpInv'
  BY <1>0, <1>2, <1>4, <1>5, <1>6, <1>7 DEF UpInv
<1>21. LowInv'
  <2>1. ASSUME NEW k \in DOMAIN calls
        PROVE  /\ lowLinks'[Caller(k)] <= indices[Caller(k)]
               /\ \E x \in onStack : indices[x] = lowLinks'[Caller(k)] /\ Leads(Caller(k), x)
    <3>1. lowLinks[Caller(k)] <= indices[Caller(k)] /\ Caller(k) \in DOMAIN indices
      BY <1>0, <1>4 DEF LowInv
    <3>2. PICK x \in onStack : indices[x] = lowLinks[Caller(k)] /\ Leads(Caller(k), x)
      BY <1>0 DEF LowInv
    <3>3. CASE k # N
      BY <3>1, <3>2, <3>3, <1>10, <1>13, <1>14
    <3>4. CASE k = N
      <4>1. Reaches(c, m)
        BY <1>0, <1>8, <1>13, CallersReach
      <4>2. Leads(c, m) /\ Caller(k) = c
        BY <4>1, <3>4, <1>13 DEF Leads
      <4>3. lowLinks'[c] <= indices[c]
        BY <4>2, <3>1, <1>4, <1>14
      <4>4. \E y \in onStack : indices[y] = lowLinks'[c] /\ Leads(c, y)
        BY <4>2, <3>2, <1>14
      <4>. QED BY <4>2, <4>3, <4>4
    <3>. QED BY <3>3, <3>4
  <2>2. DOMAIN calls' = DOMAIN calls
    BY <1>4, <1>5
  <2>. QED BY <2>1, <2>2, <1>2, <1>6, <1>7 DEF LowInv
<1>22. BoundInv'
  <2>1. ASSUME NEW k \in DOMAIN calls, NEW x \in onStack,
               indices[Caller(k)] <= indices[x],
               k < N => indices[x] < indices[Caller(k + 1)],
               NEW b \in Seen(x)', b \in onStack
        PROVE  lowLinks'[Caller(k)] <= indices[b]
    <3>1. b \in Seen(x) => lowLinks[Caller(k)] <= indices[b]
      BY <1>0, <2>1 DEF BoundInv
    <3>2. CASE k = N
      <4>1. b \in Seen(x) \/ b = m
        BY <1>11, <2>1
      <4>2. Caller(k) = c /\ lowLinks[c] \in Nat /\ lowLinks'[c] \in Nat /\ indices[b] \in Nat
        BY <3>2, <2>1, <1>4, <1>13, <1>14
      <4>. QED BY <4>1, <4>2, <3>1, <2>1, <1>14
    <3>3. CASE k # N
      <4>1. k + 1 \in DOMAIN calls /\ k < N /\ (k + 1 # N => k + 1 < N)
        BY <3>3, <1>4
      <4>2. indices[x] < indices[Caller(k + 1)] /\ indices[Caller(k + 1)] <= indices[Caller(N)]
        <5>1. indices[Caller(N)] \in Nat /\ indices[Caller(k + 1)] \in Nat
          BY <4>1, <1>4, <1>8
        <5>. QED BY <4>1, <5>1, <2>1, <1>9
      <4>3. x # Caller(N)
        <5>1. indices[x] \in Nat /\ indices[Caller(k + 1)] \in Nat /\ indices[Caller(N)] \in Nat
          BY <4>1, <1>4, <1>8
        <5>. QED BY <4>2, <5>1
      <4>4. b \in Seen(x)
        BY <4>3, <1>12, <2>1
      <4>5. lowLinks'[Caller(k)] = lowLinks[Caller(k)]
        BY <3>3, <1>4, <1>10, <1>13, <1>14
      <4>. QED BY <4>4, <4>5, <3>1
    <3>. QED BY <3>2, <3>3
  <2>2. DOMAIN calls' = DOMAIN calls /\ Len(calls') = N
    BY <1>3, <1>4, <1>5
  <2>3. ASSUME NEW k \in DOMAIN calls', NEW x \in onStack',
               indices'[Caller(k)'] <= indices'[x],
               k < Len(calls') => indices'[x] < indices'[Caller(k + 1)'],
               NEW b \in Seen(x)', b \in onStack'
        PROVE  lowLinks'[Caller(k)'] <= indices'[b]
    <3>1. k < N => indices[x] < indices[Caller(k + 1)]
      <4>1. ASSUME k < N PROVE k + 1 \in DOMAIN calls
        BY <4>1, <2>2, <1>4
      <4>. QED BY <4>1, <2>2, <2>3, <1>2, <1>6
    <3>. QED BY <3>1, <2>1, <2>2, <2>3, <1>2, <1>6
  <2>. QED BY <2>3 DEF BoundInv
<1>23. ComponentInv'
  BY <1>0, <1>2, <1>7 DEF ComponentInv
<1>. QED BY <1>15, <1>16, <1>17, <1>18, <1>19, <1>20, <1>21, <1>22, <1>23 DEF IInv

(***************************************************************************)
(* The end of a call.                                                      *)
(***************************************************************************)

(* What both ends have in common: one call less, nothing left in the last. *)
LEMMA ReturnFacts ==
  ASSUME IInv, Return, NEW N \in Nat, N = Len(calls)
  PROVE  /\ N # 0 /\ DOMAIN calls = 1 .. N /\ calls[N].left = {}
         /\ calls' \in Seq(CallRecord) /\ Len(calls') = N - 1 /\ DOMAIN calls' = 1 .. N - 1
         /\ \A k \in 1 .. N - 1 : Caller(k)' = Caller(k)
         /\ \A k \in 1 .. N - 1 : calls'[k] = calls[k]
         /\ \A x : Seen(x)' = Seen(x)
         /\ \A k \in 1 .. N - 1 : indices[Caller(k)] < indices[Caller(N)]
         /\ \A k \in 1 .. N - 1 : k # N - 1 =>
              Caller(k) # Caller(N - 1) /\ indices[Caller(k + 1)] <= indices[Caller(N - 1)]
         /\ N = 1 => lowLinks' = lowLinks
         /\ N # 1 => lowLinks' = [lowLinks EXCEPT ![Caller(N - 1)] = Min({@, lowLinks[Caller(N)]})]
         /\ UNCHANGED <<graph, connections, definitions, indices>>
<1>0. TypeInv /\ StackInv /\ CallInv
  BY DEF IInv
<1>1. /\ calls # <<>> /\ Current.left = {} /\ calls' = Front(calls)
      /\ lowLinks' = IF Len(calls) = 1 THEN lowLinks
                        ELSE Lowered(Last(Front(calls)).node, lowLinks[Current.node])
      /\ UNCHANGED <<graph, connections, definitions, indices>>
  BY DEF Return
<1>2. calls \in Seq(CallRecord)
  BY <1>0 DEF TypeInv, CallRecord
<1>3. /\ N # 0 /\ Current = calls[N]
      /\ Front(calls) \in Seq(CallRecord) /\ Len(Front(calls)) = N - 1
      /\ \A k \in 1 .. N - 1 : Front(calls)[k] = calls[k]
  BY <1>1, <1>2, FrontLast DEF Current
<1>4. DOMAIN calls = 1 .. N /\ DOMAIN calls' = 1 .. N - 1
  BY <1>1, <1>2, <1>3, LenProperties
<1>5. \A k \in 1 .. N - 1 : Caller(k)' = Caller(k)
  BY <1>1, <1>3 DEF Caller
<1>6. UNCHANGED connections
  BY <1>1
<1>7. ASSUME NEW x PROVE Seen(x)' = Seen(x)
  <2>1. AdjacentNodes(x)' = AdjacentNodes(x)
    BY <1>6, GraphKept
  <2>2. \A k \in 1 .. N - 1 : Caller(k)' = Caller(k) /\ calls'[k] = calls[k]
    BY <1>1, <1>3, <1>5
  <2>3. \A b : b \notin calls[N].left
    BY <1>1, <1>3
  <2>4. \A k \in DOMAIN calls : k = N \/ k \in 1 .. N - 1
    BY <1>3, <1>4
  <2>5. \A k \in DOMAIN calls' : k \in DOMAIN calls
    BY <1>3, <1>4
  <2>. QED BY <2>1, <2>2, <2>3, <2>4, <2>5, <1>4 DEF Seen
<1>8. \A k \in 1 .. N - 1 : indices[Caller(k)] < indices[Caller(N)]
  BY <1>0, <1>3, <1>4 DEF CallInv
<1>9. ASSUME NEW k \in 1 .. N - 1, k # N - 1
      PROVE  Caller(k) # Caller(N - 1) /\ indices[Caller(k + 1)] <= indices[Caller(N - 1)]
  <2>1. k \in DOMAIN calls /\ k + 1 \in DOMAIN calls /\ N - 1 \in DOMAIN calls /\ k < N - 1
    BY <1>3, <1>4, <1>9
  <2>2. indices[Caller(k)] < indices[Caller(N - 1)]
    BY <1>0, <2>1 DEF CallInv
  <2>3. k + 1 < N - 1 => indices[Caller(k + 1)] < indices[Caller(N - 1)]
    BY <1>0, <2>1 DEF CallInv
  <2>4. /\ indices[Caller(k)] \in Nat /\ indices[Caller(k + 1)] \in Nat
        /\ indices[Caller(N - 1)] \in Nat
    BY <1>0, <2>1, CallersType
  <2>. QED BY <2>1, <2>2, <2>3, <2>4
<1>10. ASSUME N # 1 PROVE Last(Front(calls)).node = Caller(N - 1)
  <2>1. Front(calls) # <<>>
    BY <1>3, <1>10
  <2>2. Last(Front(calls)) = Front(calls)[N - 1]
    BY <2>1, <1>3, FrontLast
  <2>3. N - 1 \in 1 .. N - 1
    BY <1>3, <1>10
  <2>. QED BY <2>2, <2>3, <1>3 DEF Caller
<1>11. /\ N = 1 => lowLinks' = lowLinks
       /\ N # 1 => lowLinks' = [lowLinks EXCEPT ![Caller(N - 1)] = Min({@, lowLinks[Caller(N)]})]
  BY <1>1, <1>3, <1>10 DEF Lowered, Caller
<1>. QED BY <1>1, <1>3, <1>4, <1>5, <1>7, <1>8, <1>9, <1>11

(* The low links after a return. *)
LEMMA ReturnLow ==
  ASSUME IInv, Return, NEW N \in Nat, N = Len(calls)
  PROVE  /\ lowLinks' \in [DOMAIN indices -> Nat]
         /\ \A k \in 1 .. N - 1 : k # N - 1 => lowLinks'[Caller(k)] = lowLinks[Caller(k)]
         /\ N # 1 => /\ lowLinks'[Caller(N - 1)] <= lowLinks[Caller(N - 1)]
                     /\ lowLinks'[Caller(N - 1)] <= lowLinks[Caller(N)]
                     /\ lowLinks'[Caller(N - 1)] \in {lowLinks[Caller(N - 1)], lowLinks[Caller(N)]}
<1>1. TypeInv /\ StackInv /\ CallInv
  BY DEF IInv
<1>2. lowLinks \in [DOMAIN indices -> Nat]
  BY <1>1 DEF TypeInv
<1>3. CASE N = 1
  BY <1>2, <1>3, ReturnFacts
<1>4. CASE N # 1
  <2>1. N \in 1 .. N /\ N - 1 \in 1 .. N /\ DOMAIN calls = 1 .. N
    <3>1. N # 0 /\ DOMAIN calls = 1 .. N
      BY ReturnFacts
    <3>. QED BY <3>1, <1>4
  <2>2. PICK c : c = Caller(N)
    OBVIOUS
  <2>3. PICK p : p = Caller(N - 1)
    OBVIOUS
  <2>4. p \in DOMAIN indices /\ c \in DOMAIN indices /\ lowLinks[p] \in Nat /\ lowLinks[c] \in Nat
    BY <1>1, <2>1, <2>2, <2>3, CallersType
  <2>. DEFINE low == Min({lowLinks[p], lowLinks[c]})
  <2>5. lowLinks' = [lowLinks EXCEPT ![p] = low]
    BY <1>2, <1>4, <2>2, <2>3, <2>4, ReturnFacts
  <2>6. low \in Nat /\ low <= lowLinks[p] /\ low <= lowLinks[c] /\ low \in {lowLinks[p], lowLinks[c]}
    BY <2>4, MinOfTwo
  <2>7. \A k \in 1 .. N - 1 : k # N - 1 => Caller(k) # p
    BY <2>3, ReturnFacts
  <2>8. \A k \in 1 .. N - 1 : Caller(k) \in DOMAIN indices
    BY <1>1, <2>1, CallersType
  <2>. HIDE DEF low
  <2>. QED BY <1>2, <2>2, <2>3, <2>4, <2>5, <2>6, <2>7, <2>8
<1>. QED BY <1>3, <1>4

(* A return in the middle of a component: its node is left to the caller. *)
LEMMA ReturnInside ==
  ASSUME IInv, Return, lowLinks[Current.node] # indices[Current.node]
  PROVE  IInv'
<1>. PICK N \in Nat : N = Len(calls)
  BY LenProperties DEF IInv, TypeInv
<1>0. /\ TypeInv /\ ListInv /\ PortInv /\ PhaseInv /\ IndexInv /\ StackInv /\ CallInv
      /\ SeenInv /\ DownInv /\ UpInv /\ LowInv /\ BoundInv /\ ComponentInv
  BY DEF IInv
<1>1. /\ N # 0 /\ DOMAIN calls = 1 .. N
      /\ calls' \in Seq(CallRecord) /\ Len(calls') = N - 1 /\ DOMAIN calls' = 1 .. N - 1
      /\ \A k \in 1 .. N - 1 : Caller(k)' = Caller(k) /\ calls'[k] = calls[k]
      /\ \A x : Seen(x)' = Seen(x)
      /\ \A k \in 1 .. N - 1 : indices[Caller(k)] < indices[Caller(N)]
      /\ UNCHANGED <<graph, connections, definitions, indices>>
  BY ReturnFacts
<1>2. UNCHANGED <<components, stack, onStack>>
  BY DEF Return
<1>3. /\ lowLinks' \in [DOMAIN indices -> Nat]
      /\ \A k \in 1 .. N - 1 : k # N - 1 => lowLinks'[Caller(k)] = lowLinks[Caller(k)]
      /\ N # 1 => /\ lowLinks'[Caller(N - 1)] <= lowLinks[Caller(N - 1)]
                  /\ lowLinks'[Caller(N - 1)] <= lowLinks[Caller(N)]
                  /\ lowLinks'[Caller(N - 1)] \in {lowLinks[Caller(N - 1)], lowLinks[Caller(N)]}
  BY ReturnLow
<1>4. /\ \A k \in DOMAIN calls : Caller(k) \in onStack /\ Caller(k) \in DOMAIN indices
      /\ \A x \in DOMAIN indices : indices[x] \in Nat /\ lowLinks[x] \in Nat
      /\ \A x \in onStack : x \in DOMAIN indices
  BY <1>0, CallersType
<1>5. /\ \A x : AdjacentNodes(x)' = AdjacentNodes(x)
      /\ \A a, b : Reaches(a, b)' <=> Reaches(a, b)
      /\ \A a, b : Leads(a, b)' <=> Leads(a, b)
  BY <1>1, GraphKept
<1>6. \A k \in 1 .. N - 1 : k \in DOMAIN calls /\ k < N
  BY <1>1
<1>7. N \in DOMAIN calls
  BY <1>1
<1>8. PICK c : c = Caller(N)
  OBVIOUS
(* It leads to a caller before it. *)
<1>9. PICK m \in onStack : indices[m] = lowLinks[c] /\ Leads(c, m) /\ lowLinks[c] < indices[c]
  <2>1. Current.node = c
    <3>1. calls # <<>>
      BY DEF Return
    <3>. QED BY <3>1, <1>0, <1>8, LookedAtFacts DEF Caller
  <2>2. PICK m \in onStack : indices[m] = lowLinks[c] /\ Leads(c, m)
    BY <1>0, <1>7, <1>8 DEF LowInv
  <2>3. lowLinks[c] <= indices[c] /\ lowLinks[c] # indices[c]
    BY <1>0, <1>7, <1>8, <2>1 DEF LowInv
  <2>4. indices[c] \in Nat /\ lowLinks[c] \in Nat
    BY <1>4, <1>7, <1>8
  <2>. QED BY <2>2, <2>3, <2>4
<1>10. PICK back \in 1 .. N - 1 : indices[Caller(back)] <= indices[m] /\ Leads(m, Caller(back))
  <2>1. PICK k \in DOMAIN calls : indices[Caller(k)] <= indices[m] /\ Leads(m, Caller(k))
    BY <1>0 DEF UpInv
  <2>2. k # N
    BY <2>1, <1>4, <1>7, <1>8, <1>9
  <2>. QED BY <2>1, <2>2, <1>1
<1>11. N # 1 /\ N - 1 \in 1 .. N - 1
  BY <1>10
<1>12. PICK p : p = Caller(N - 1)
  OBVIOUS
<1>13. Reaches(p, c) /\ indices[p] < indices[c] /\ p \in DOMAIN indices
  BY <1>0, <1>1, <1>4, <1>6, <1>7, <1>8, <1>11, <1>12 DEF DownInv
<1>14. TypeInv'
  BY <1>0, <1>1, <1>2, <1>3 DEF TypeInv, CallRecord
<1>15. ListInv' /\ PortInv' /\ IndexInv' /\ StackInv'
  BY <1>0, <1>1, <1>2 DEF ListInv, PortInv, IndexInv, StackInv
<1>16. PhaseInv'
  <2>1. Defined /\ Defined'
    BY <1>0, <1>1, <1>7 DEF PhaseInv, Defined
  <2>. QED BY <2>1 DEF PhaseInv
<1>17. CallInv'
  <2>1. ASSUME NEW k \in DOMAIN calls'
        PROVE  Caller(k)' \in onStack' /\ calls'[k].left \subseteq AdjacentNodes(Caller(k)')
    <3>1. Caller(k) \in onStack /\ calls[k].left \subseteq AdjacentNodes(Caller(k))
      BY <1>0, <1>1, <1>6 DEF CallInv
    <3>. QED BY <3>1, <1>1, <1>2
  <2>2. ASSUME NEW k \in DOMAIN calls', NEW l \in DOMAIN calls', k < l
        PROVE  indices'[Caller(k)'] < indices'[Caller(l)']
    <3>1. indices[Caller(k)] < indices[Caller(l)]
      BY <2>2, <1>0, <1>1, <1>6 DEF CallInv
    <3>. QED BY <3>1, <2>2, <1>1
  <2>. QED BY <2>1, <2>2, <1>5 DEF CallInv
<1>18. SeenInv'
  BY <1>0, <1>1 DEF SeenInv
<1>19. DownInv'
  BY <1>0, <1>1, <1>2, <1>5, <1>6 DEF DownInv
<1>20. UpInv'
  <2>1. ASSUME NEW x \in onStack
        PROVE  \E k \in 1 .. N - 1 : indices[Caller(k)] <= indices[x] /\ Leads(x, Caller(k))
    <3>1. PICK k \in DOMAIN calls : indices[Caller(k)] <= indices[x] /\ Leads(x, Caller(k))
      BY <1>0 DEF UpInv
    <3>2. CASE k = N
      <4>1. Leads(x, m)
        BY <3>1, <3>2, <1>8, <1>9, LeadsTransitive
      <4>2. Leads(x, Caller(back))
        BY <4>1, <1>10, LeadsTransitive
      <4>3. /\ indices[Caller(back)] \in Nat /\ indices[m] \in Nat
            /\ indices[c] \in Nat /\ indices[x] \in Nat
        BY <1>4, <1>6, <1>7, <1>8
      <4>4. indices[Caller(back)] <= indices[x]
        BY <4>3, <3>1, <3>2, <1>8, <1>9, <1>10
      <4>. QED BY <4>2, <4>4
    <3>3. CASE k # N
      BY <3>1, <3>3, <1>1
    <3>. QED BY <3>2, <3>3
  <2>. QED BY <2>1, <1>1, <1>2, <1>5 DEF UpInv
<1>21. LowInv'
  <2>1. ASSUME NEW k \in 1 .. N - 1
        PROVE  /\ lowLinks'[Caller(k)] <= indices[Caller(k)]
               /\ \E x \in onStack : indices[x] = lowLinks'[Caller(k)] /\ Leads(Caller(k), x)
    <3>1. lowLinks[Caller(k)] <= indices[Caller(k)] /\ Caller(k) \in DOMAIN indices
      BY <1>0, <1>4, <1>6 DEF LowInv
    <3>2. PICK x \in onStack : indices[x] = lowLinks[Caller(k)] /\ Leads(Caller(k), x)
      BY <1>0, <1>6 DEF LowInv
    <3>3. CASE k # N - 1
      BY <3>1, <3>2, <3>3, <1>3
    <3>4. CASE k = N - 1
      <4>1. lowLinks'[p] <= indices[p]
        <5>1. lowLinks'[p] <= lowLinks[p] /\ lowLinks[p] <= indices[p]
          BY <3>1, <3>4, <1>3, <1>11, <1>12
        <5>2. lowLinks'[p] \in Nat /\ lowLinks[p] \in Nat /\ indices[p] \in Nat
          BY <1>3, <1>4, <1>13
        <5>. QED BY <5>1, <5>2
      <4>2. CASE lowLinks'[p] = lowLinks[p]
        BY <4>1, <4>2, <3>2, <3>4, <1>12
      <4>3. CASE lowLinks'[p] = lowLinks[c]
        <5>1. Leads(p, c)
          BY <1>13 DEF Leads
        <5>2. Leads(p, m)
          BY <5>1, <1>9, LeadsTransitive
        <5>. QED BY <5>2, <4>1, <4>3, <3>4, <1>9, <1>12
      <4>. QED BY <4>2, <4>3, <1>3, <1>8, <1>11, <1>12
    <3>. QED BY <3>3, <3>4
  <2>. QED BY <2>1, <1>1, <1>2, <1>5 DEF LowInv
<1>22. BoundInv'
  <2>1. ASSUME NEW k \in 1 .. N - 1, NEW x \in onStack,
               indices[Caller(k)] <= indices[x],
               k < N - 1 => indices[x] < indices[Caller(k + 1)],
               NEW b \in Seen(x), b \in onStack
        PROVE  lowLinks'[Caller(k)] <= indices[b]
    <3>1. CASE k # N - 1
      <4>1. k < N - 1 /\ k < N
        BY <3>1
      <4>2. lowLinks[Caller(k)] <= indices[b]
        BY <4>1, <2>1, <1>0, <1>1, <1>6 DEF BoundInv
      <4>. QED BY <4>2, <3>1, <1>3
    <3>2. CASE k = N - 1
      <4>1. /\ lowLinks'[p] \in Nat /\ lowLinks[p] \in Nat /\ lowLinks[c] \in Nat
            /\ indices[b] \in Nat /\ indices[x] \in Nat /\ indices[c] \in Nat
        BY <1>3, <1>4, <1>7, <1>8, <1>13, <2>1
      <4>2. CASE indices[x] < indices[c]
        <5>1. k + 1 = N
          BY <3>2
        <5>2. k < Len(calls) => indices[x] < indices[Caller(k + 1)]
          BY <4>2, <5>1, <1>8
        <5>3. lowLinks[p] <= indices[b]
          BY <5>2, <2>1, <3>2, <1>0, <1>6, <1>12 DEF BoundInv
        <5>. QED BY <5>3, <4>1, <3>2, <1>3, <1>11, <1>12
      <4>3. CASE indices[c] <= indices[x]
        <5>1. lowLinks[c] <= indices[b]
          BY <4>3, <2>1, <1>0, <1>7, <1>8 DEF BoundInv
        <5>. QED BY <5>1, <4>1, <3>2, <1>3, <1>8, <1>11, <1>12
      <4>. QED BY <4>1, <4>2, <4>3
    <3>. QED BY <3>1, <3>2
  <2>2. ASSUME NEW k \in DOMAIN calls', NEW x \in onStack',
               indices'[Caller(k)'] <= indices'[x],
               k < Len(calls') => indices'[x] < indices'[Caller(k + 1)'],
               NEW b \in Seen(x)', b \in onStack'
        PROVE  lowLinks'[Caller(k)'] <= indices'[b]
    <3>1. k < N - 1 => indices[x] < indices[Caller(k + 1)]
      <4>1. ASSUME k < N - 1 PROVE k + 1 \in 1 .. N - 1 /\ k < Len(calls')
        BY <4>1, <2>2, <1>1
      <4>. QED BY <4>1, <2>2, <1>1
    <3>. QED BY <3>1, <2>1, <2>2, <1>1, <1>2
  <2>. QED BY <2>2 DEF BoundInv
<1>23. ComponentInv'
  BY <1>0, <1>1, <1>2, <1>5 DEF ComponentInv
<1>. QED BY <1>14, <1>15, <1>16, <1>17, <1>18, <1>19, <1>20, <1>21, <1>22, <1>23 DEF IInv

Pops(c, C, length) ==
  /\ C = {x \in onStack : indices[c] <= indices[x]}
  /\ onStack' = onStack \ C
  /\ components' = Append(components, C)
  /\ length <= Len(stack)
  /\ stack' \in Seq(Node) /\ Len(stack') = length
  /\ \A i \in 1 .. length : stack'[i] = stack[i]
  /\ onStack' = {stack[i] : i \in 1 .. length}

(* A return at the end of a component: it is all from the node upwards. *)
LEMMA PopFacts ==
  ASSUME IInv, Return, NEW c, c = Current.node, lowLinks[c] = indices[c]
  PROVE  \E C \in SUBSET Node, length \in Nat : Pops(c, C, length)
<1>. PICK top \in Nat : top = Len(stack)
  BY LenProperties DEF IInv, TypeInv
<1>0. TypeInv /\ StackInv /\ CallInv
  BY DEF IInv
<1>1. DOMAIN stack = 1 .. top /\ stack \in Seq(Node)
  BY <1>0, LenProperties DEF TypeInv
<1>2. onStack = {stack[i] : i \in 1 .. top}
  BY <1>0, <1>1 DEF StackInv
<1>3. \A i, j \in 1 .. top : i < j => indices[stack[i]] < indices[stack[j]]
  BY <1>0, <1>1 DEF StackInv
<1>4. \A x \in onStack : indices[x] \in Nat /\ x \in Node
  BY <1>0, CallersType
<1>5. c \in onStack
  <2>1. calls # <<>>
    BY DEF Return
  <2>2. Len(calls) \in Nat \ {0} /\ Current = calls[Len(calls)]
    BY <1>0, <2>1, LookedAtFacts
  <2>3. Len(calls) \in DOMAIN calls
    BY <1>0, <2>2, CallersType
  <2>. QED BY <1>0, <2>2, <2>3 DEF CallInv, Caller
<1>. DEFINE first == CHOOSE i \in DOMAIN stack : stack[i] = c
<1>6. first \in 1 .. top /\ stack[first] = c
  <2>1. \E i \in DOMAIN stack : stack[i] = c
    BY <1>1, <1>2, <1>5
  <2>. QED BY <2>1, <1>1
<1>. PICK at : at = first
  OBVIOUS
<1>7. at \in 1 .. top /\ stack[at] = c
  BY <1>6
<1>. DEFINE C == {stack[i] : i \in at .. top}
<1>8. /\ components' = Append(components, C)
      /\ stack' = SubSeq(stack, 1, at - 1)
      /\ onStack' = onStack \ C
  BY DEF Return, PopComponent
<1>. HIDE DEF first
<1>9. \A i \in 1 .. top : stack[i] \in onStack /\ indices[stack[i]] \in Nat
  BY <1>2, <1>4
<1>10. \A i \in 1 .. top : i < at => indices[stack[i]] < indices[c]
  BY <1>3, <1>7
<1>11. \A i \in 1 .. top : at < i => indices[c] < indices[stack[i]]
  BY <1>3, <1>7
<1>12. indices[c] \in Nat
  BY <1>4, <1>5
<1>13. C = {x \in onStack : indices[c] <= indices[x]}
  <2>1. ASSUME NEW x \in C PROVE x \in onStack /\ indices[c] <= indices[x]
    <3>1. PICK i \in at .. top : x = stack[i]
      OBVIOUS
    <3>2. i \in 1 .. top /\ (i = at \/ at < i)
      BY <1>7
    <3>. QED BY <3>1, <3>2, <1>7, <1>9, <1>11, <1>12
  <2>2. ASSUME NEW x \in onStack, indices[c] <= indices[x] PROVE x \in C
    <3>1. PICK i \in 1 .. top : x = stack[i]
      BY <1>2
    <3>2. ~ (i < at)
      BY <2>2, <3>1, <1>9, <1>10, <1>12
    <3>3. i \in at .. top
      BY <3>2, <1>7
    <3>. QED BY <3>1, <3>3
  <2>. QED BY <2>1, <2>2
<1>14. onStack' = {stack[i] : i \in 1 .. at - 1}
  <2>1. ASSUME NEW x \in onStack' PROVE x \in {stack[i] : i \in 1 .. at - 1}
    <3>1. x \in onStack /\ x \notin C
      BY <1>8
    <3>2. PICK i \in 1 .. top : x = stack[i]
      BY <3>1, <1>2
    <3>3. i \notin at .. top
      BY <3>1, <3>2
    <3>4. i \in 1 .. at - 1
      BY <3>3, <1>7
    <3>. QED BY <3>2, <3>4
  <2>2. ASSUME NEW i \in 1 .. at - 1 PROVE stack[i] \in onStack'
    <3>1. i \in 1 .. top /\ i < at
      BY <1>7
    <3>2. stack[i] \in onStack /\ indices[stack[i]] < indices[c] /\ indices[stack[i]] \in Nat
      BY <3>1, <1>9, <1>10
    <3>3. stack[i] \notin C
      BY <3>2, <1>12, <1>13
    <3>. QED BY <3>2, <3>3, <1>8
  <2>. QED BY <2>1, <2>2
<1>15. stack' \in Seq(Node) /\ Len(stack') = at - 1 /\ \A i \in 1 .. at - 1 : stack'[i] = stack[i]
  <2>. PICK last : last = at - 1
    OBVIOUS
  <2>1. /\ last \in Nat /\ last <= top /\ stack' = SubSeq(stack, 1, last)
        /\ last \in Int /\ 1 \in Int
        /\ \A i \in 1 .. last : stack[i] \in Node
    BY <1>4, <1>7, <1>8, <1>9
  <2>2. /\ stack' \in Seq(Node)
        /\ Len(stack') = IF 1 <= last THEN last - 1 + 1 ELSE 0
        /\ \A i \in 1 .. last - 1 + 1 : stack'[i] = stack[1 + i - 1]
    BY <2>1, SubSeqProperties
  <2>3. Len(stack') = last
    BY <2>1, <2>2
  <2>4. ASSUME NEW i \in 1 .. last PROVE stack'[i] = stack[i]
    <3>1. i \in 1 .. last - 1 + 1 /\ 1 + i - 1 = i
      BY <2>1
    <3>. QED BY <3>1, <2>2
  <2>. QED BY <2>2, <2>3, <2>4
<1>16. C \in SUBSET Node
  BY <1>4, <1>13
<1>17. at - 1 \in Nat /\ at - 1 <= Len(stack)
  BY <1>7
<1>. HIDE DEF C
<1>18. Pops(c, C, at - 1)
  BY <1>8, <1>13, <1>14, <1>15, <1>17 DEF Pops
<1>. QED BY <1>16, <1>17, <1>18

LEMMA ReturnDone ==
  ASSUME IInv, Return, lowLinks[Current.node] = indices[Current.node]
  PROVE  IInv'
<1>. PICK N \in Nat : N = Len(calls)
  BY LenProperties DEF IInv, TypeInv
<1>0. /\ TypeInv /\ ListInv /\ PortInv /\ PhaseInv /\ IndexInv /\ StackInv /\ CallInv
      /\ SeenInv /\ DownInv /\ UpInv /\ LowInv /\ BoundInv /\ ComponentInv
  BY DEF IInv
<1>1. /\ N # 0 /\ DOMAIN calls = 1 .. N /\ calls[N].left = {}
      /\ calls' \in Seq(CallRecord) /\ Len(calls') = N - 1 /\ DOMAIN calls' = 1 .. N - 1
      /\ \A k \in 1 .. N - 1 : Caller(k)' = Caller(k) /\ calls'[k] = calls[k]
      /\ \A x : Seen(x)' = Seen(x)
      /\ \A k \in 1 .. N - 1 : indices[Caller(k)] < indices[Caller(N)]
      /\ UNCHANGED <<graph, connections, definitions, indices>>
  BY ReturnFacts
<1>2. \A k \in 1 .. N - 1 : k # N - 1 => indices[Caller(k + 1)] <= indices[Caller(N - 1)]
  BY ReturnFacts
<1>3. /\ lowLinks' \in [DOMAIN indices -> Nat]
      /\ \A k \in 1 .. N - 1 : k # N - 1 => lowLinks'[Caller(k)] = lowLinks[Caller(k)]
      /\ N # 1 => lowLinks'[Caller(N - 1)] \in {lowLinks[Caller(N - 1)], lowLinks[Caller(N)]}
      /\ N # 1 => lowLinks'[Caller(N - 1)] <= lowLinks[Caller(N - 1)]
  BY ReturnLow
<1>4. /\ \A k \in DOMAIN calls : Caller(k) \in onStack /\ Caller(k) \in DOMAIN indices
      /\ \A x \in DOMAIN indices : indices[x] \in Nat /\ lowLinks[x] \in Nat /\ x \in Node
      /\ \A x \in onStack : x \in DOMAIN indices
      /\ \A a, b \in onStack : indices[a] = indices[b] => a = b
  BY <1>0, CallersType
<1>5. /\ \A x : AdjacentNodes(x)' = AdjacentNodes(x)
      /\ \A a, b : Reaches(a, b)' <=> Reaches(a, b)
      /\ \A a, b : Leads(a, b)' <=> Leads(a, b)
  BY <1>1, GraphKept
<1>6. (\A k \in 1 .. N - 1 : k \in DOMAIN calls /\ k < N) /\ N \in DOMAIN calls
  BY <1>1
<1>7. PICK c : c = Caller(N)
  OBVIOUS
<1>8. c = Current.node /\ lowLinks[c] = indices[c] /\ c \in onStack /\ indices[c] \in Nat
  <2>1. calls # <<>>
    BY DEF Return
  <2>. QED BY <2>1, <1>0, <1>4, <1>6, <1>7, LookedAtFacts DEF Caller
<1>31. PICK C \in SUBSET Node, length \in Nat : Pops(c, C, length)
  BY <1>8, PopFacts
<1>9. /\ C = {x \in onStack : indices[c] <= indices[x]}
      /\ onStack' = onStack \ C
      /\ components' = Append(components, C)
      /\ length <= Len(stack)
      /\ stack' \in Seq(Node) /\ Len(stack') = length
      /\ \A i \in 1 .. length : stack'[i] = stack[i]
      /\ onStack' = {stack[i] : i \in 1 .. length}
  BY <1>31 DEF Pops
<1>10. /\ onStack' = {x \in onStack : indices[x] < indices[c]}
  <2>1. \A x \in onStack : indices[x] < indices[c] <=> ~ (indices[c] <= indices[x])
    BY <1>4, <1>8
  <2>. QED BY <2>1, <1>9
<1>11. \A k \in 1 .. N - 1 : Caller(k) \in onStack'
  BY <1>1, <1>4, <1>6, <1>7, <1>10
(* The low links of the callers stay: the one of the node is too high. *)
<1>12. \A k \in 1 .. N - 1 : lowLinks'[Caller(k)] = lowLinks[Caller(k)]
  <2>1. ASSUME N # 1 PROVE lowLinks'[Caller(N - 1)] = lowLinks[Caller(N - 1)]
    <3>1. N - 1 \in 1 .. N - 1
      BY <1>1, <2>1
    <3>2. lowLinks[Caller(N - 1)] <= indices[Caller(N - 1)]
      BY <1>0, <1>6, <3>1 DEF LowInv
    <3>3. indices[Caller(N - 1)] < lowLinks[c]
      BY <1>1, <1>7, <1>8, <3>1
    <3>4. /\ lowLinks[Caller(N - 1)] \in Nat /\ indices[Caller(N - 1)] \in Nat
          /\ lowLinks[c] \in Nat
      BY <1>4, <1>6, <1>8, <3>1
    <3>. QED BY <2>1, <3>2, <3>3, <3>4, <1>3, <1>7
  <2>2. ASSUME NEW k \in 1 .. N - 1 PROVE lowLinks'[Caller(k)] = lowLinks[Caller(k)]
    <3>1. N # 1
      BY <1>1
    <3>. QED BY <3>1, <2>1, <1>3
  <2>. QED BY <2>2
<1>13. components \in Seq(SUBSET Node)
  BY <1>0 DEF TypeInv
<1>14. /\ components' \in Seq(SUBSET Node)
       /\ Len(components') = Len(components) + 1 /\ Len(components) \in Nat
       /\ \A i \in 1 .. Len(components) : components'[i] = components[i]
       /\ components'[Len(components) + 1] = C
  BY <1>9, <1>13, AppendProperties, LenProperties
<1>15. DOMAIN components = 1 .. Len(components) /\ DOMAIN components' = 1 .. Len(components) + 1
  BY <1>13, <1>14, LenProperties
<1>16. TypeInv'
  <2>1. onStack' \subseteq DOMAIN indices
    BY <1>4, <1>10
  <2>. QED BY <2>1, <1>0, <1>1, <1>3, <1>9, <1>14 DEF TypeInv, CallRecord
<1>17. ListInv' /\ PortInv' /\ IndexInv'
  BY <1>0, <1>1 DEF ListInv, PortInv, IndexInv
<1>18. PhaseInv'
  <2>1. Defined /\ Defined'
    BY <1>0, <1>1, <1>6 DEF PhaseInv, Defined
  <2>. QED BY <2>1 DEF PhaseInv
<1>19. StackInv'
  <2>1. DOMAIN stack' = 1 .. length /\ DOMAIN stack = 1 .. Len(stack) /\ Len(stack) \in Nat
    BY <1>0, <1>9, LenProperties DEF TypeInv
  <2>2. onStack' = {stack'[i] : i \in DOMAIN stack'}
    <3>1. /\ DOMAIN stack' = 1 .. length
          /\ onStack' = {stack[i] : i \in 1 .. length}
          /\ \A i \in 1 .. length : stack'[i] = stack[i]
      BY <2>1, <1>9
    <3>2. {stack[i] : i \in 1 .. length} = {stack'[i] : i \in 1 .. length}
      BY <3>1
    <3>. QED BY <3>1, <3>2
  <2>3. ASSUME NEW i \in DOMAIN stack', NEW j \in DOMAIN stack', i < j
        PROVE  indices'[stack'[i]] < indices'[stack'[j]]
    <3>1. i \in DOMAIN stack /\ j \in DOMAIN stack /\ stack'[i] = stack[i] /\ stack'[j] = stack[j]
      BY <2>1, <1>9
    <3>2. indices[stack[i]] < indices[stack[j]]
      BY <2>3, <3>1, <1>0 DEF StackInv
    <3>. QED BY <3>1, <3>2, <1>1
  <2>. QED BY <2>2, <2>3 DEF StackInv
<1>20. CallInv'
  <2>1. ASSUME NEW k \in DOMAIN calls'
        PROVE  Caller(k)' \in onStack' /\ calls'[k].left \subseteq AdjacentNodes(Caller(k)')
    <3>1. calls[k].left \subseteq AdjacentNodes(Caller(k))
      BY <1>0, <1>1, <1>6 DEF CallInv
    <3>. QED BY <3>1, <1>1, <1>11
  <2>2. ASSUME NEW k \in DOMAIN calls', NEW l \in DOMAIN calls', k < l
        PROVE  indices'[Caller(k)'] < indices'[Caller(l)']
    <3>1. indices[Caller(k)] < indices[Caller(l)]
      BY <2>2, <1>0, <1>1, <1>6 DEF CallInv
    <3>. QED BY <3>1, <2>2, <1>1
  <2>. QED BY <2>1, <2>2, <1>5 DEF CallInv
<1>21. SeenInv'
  BY <1>0, <1>1 DEF SeenInv
<1>22. DownInv'
  BY <1>0, <1>1, <1>5, <1>6, <1>10 DEF DownInv
<1>23. UpInv'
  <2>1. ASSUME NEW x \in onStack'
        PROVE  \E k \in 1 .. N - 1 : indices[Caller(k)] <= indices[x] /\ Leads(x, Caller(k))
    <3>1. PICK k \in DOMAIN calls : indices[Caller(k)] <= indices[x] /\ Leads(x, Caller(k))
      BY <1>0, <1>10 DEF UpInv
    <3>2. k # N
      <4>1. indices[x] \in Nat /\ indices[x] < indices[c]
        BY <1>4, <1>10
      <4>2. ASSUME k = N PROVE FALSE
        <5>1. indices[c] <= indices[x]
          BY <4>2, <3>1, <1>7
        <5>2. indices[c] \in Nat
          BY <1>8
        <5>. QED BY <5>1, <5>2, <4>1
      <4>. QED BY <4>2
    <3>. QED BY <3>1, <3>2, <1>1
  <2>. QED BY <2>1, <1>1, <1>5 DEF UpInv
<1>24. LowInv'
  <2>1. ASSUME NEW k \in 1 .. N - 1
        PROVE  /\ lowLinks'[Caller(k)] <= indices[Caller(k)]
               /\ \E x \in onStack' : indices[x] = lowLinks'[Caller(k)] /\ Leads(Caller(k), x)
    <3>1. lowLinks[Caller(k)] <= indices[Caller(k)] /\ Caller(k) \in DOMAIN indices
      BY <1>0, <1>4, <1>6 DEF LowInv
    <3>2. PICK x \in onStack : indices[x] = lowLinks[Caller(k)] /\ Leads(Caller(k), x)
      BY <1>0, <1>6 DEF LowInv
    <3>3. indices[x] < indices[c]
      <4>1. indices[Caller(k)] < indices[c] /\ indices[x] <= indices[Caller(k)]
        BY <3>1, <3>2, <1>1, <1>7
      <4>2. indices[x] \in Nat /\ indices[Caller(k)] \in Nat
        BY <3>1, <1>4
      <4>. QED BY <4>1, <4>2, <1>8
    <3>. QED BY <3>1, <3>2, <3>3, <1>10, <1>12
  <2>. QED BY <2>1, <1>1, <1>5 DEF LowInv
<1>25. BoundInv'
  <2>1. ASSUME NEW k \in DOMAIN calls', NEW x \in onStack',
               indices'[Caller(k)'] <= indices'[x],
               k < Len(calls') => indices'[x] < indices'[Caller(k + 1)'],
               NEW b \in Seen(x)', b \in onStack'
        PROVE  lowLinks'[Caller(k)'] <= indices'[b]
    <3>1. k \in 1 .. N - 1 /\ k \in DOMAIN calls /\ b \in Seen(x)
      BY <2>1, <1>1, <1>6
    <3>2. x \in onStack /\ b \in onStack /\ indices[x] < indices[c]
      BY <2>1, <1>10
    <3>3. indices[Caller(k)] <= indices[x]
      BY <2>1, <3>1, <1>1
    <3>4. k < Len(calls) => indices[x] < indices[Caller(k + 1)]
      <4>1. CASE k = N - 1
        <5>1. k + 1 = N
          BY <4>1
        <5>. QED BY <5>1, <3>2, <1>7
      <4>2. CASE k # N - 1
        <5>1. k + 1 \in 1 .. N - 1 /\ k < Len(calls')
          BY <4>2, <3>1, <1>1
        <5>. QED BY <5>1, <2>1, <1>1
      <4>. QED BY <4>1, <4>2
    <3>5. lowLinks[Caller(k)] <= indices[b]
      BY <3>1, <3>2, <3>3, <3>4, <1>0 DEF BoundInv
    <3>. QED BY <3>1, <3>5, <1>1, <1>12
  <2>. QED BY <2>1 DEF BoundInv
(* The component is closed but for earlier ones, and all of it leads to all. *)
<1>26. ASSUME NEW a \in C PROVE Leads(a, c) /\ Leads(c, a)
  <2>1. a \in onStack /\ indices[c] <= indices[a] /\ indices[a] \in Nat
    BY <1>4, <1>9
  <2>2. Leads(c, a)
    <3>1. CASE a = c
      BY <3>1 DEF Leads
    <3>2. CASE a # c
      <4>1. indices[c] < indices[a]
        BY <3>2, <2>1, <1>4, <1>8
      <4>2. Reaches(c, a)
        BY <4>1, <2>1, <1>0, <1>6, <1>7 DEF DownInv
      <4>. QED BY <4>2 DEF Leads
    <3>. QED BY <3>1, <3>2
  <2>3. PICK k \in DOMAIN calls : Leads(a, Caller(k))
    BY <2>1, <1>0 DEF UpInv
  <2>4. Leads(Caller(k), c)
    <3>1. CASE k = N
      BY <3>1, <1>7 DEF Leads
    <3>2. CASE k # N
      <4>1. indices[Caller(k)] < indices[c]
        BY <3>2, <1>1, <1>7
      <4>. QED BY <4>1, <1>0, <1>8 DEF DownInv, Leads
    <3>. QED BY <3>1, <3>2
  <2>. QED BY <2>2, <2>3, <2>4, LeadsTransitive
<1>27. ASSUME NEW a \in C, NEW b \in AdjacentNodes(a)
       PROVE  b \in C \/ \E i \in DOMAIN components : b \in components[i]
  <2>1. a \in onStack /\ indices[c] <= indices[a] /\ indices[a] \in Nat /\ a \in DOMAIN indices
    BY <1>4, <1>9
  <2>2. ASSUME NEW k \in DOMAIN calls, Caller(k) = a PROVE calls[k].left = {}
    <3>1. CASE k = N
      BY <3>1, <1>1
    <3>2. CASE k # N
      <4>1. indices[a] < indices[c]
        BY <2>2, <3>2, <1>1, <1>7
      <4>. QED BY <4>1, <2>1, <1>8
    <3>. QED BY <3>1, <3>2
  <2>3. b \in Seen(a)
    BY <2>2 DEF Seen
  <2>4. b \in DOMAIN indices
    BY <2>1, <2>3, <1>0 DEF SeenInv
  <2>5. CASE b \in onStack
    <3>1. lowLinks[c] <= indices[b]
      BY <2>1, <2>3, <2>5, <1>0, <1>6, <1>7 DEF BoundInv
    <3>. QED BY <3>1, <2>5, <1>8, <1>9
  <2>6. CASE b \notin onStack
    <3>1. b \in UNION {components[i] : i \in DOMAIN components}
      BY <2>4, <2>6, <1>0 DEF ComponentInv
    <3>. QED BY <3>1
  <2>. QED BY <2>5, <2>6
<1>28. PICK last \in Nat : last = Len(components) + 1
  BY <1>14
<1>29. /\ DOMAIN components' = 1 .. last /\ DOMAIN components = 1 .. last - 1
       /\ \A i \in 1 .. last - 1 : components'[i] = components[i]
       /\ components'[last] = C /\ last # 0
       /\ \A i \in 1 .. last : i = last \/ i \in 1 .. last - 1
       /\ \A i \in 1 .. last - 1 : i \in 1 .. last
       /\ last \in 1 .. last
  BY <1>14, <1>15, <1>28
<1>30. ComponentInv'
  <2>1. DOMAIN indices' \ onStack' = UNION {components'[i] : i \in DOMAIN components'}
    <3>1. DOMAIN indices' \ onStack' = (DOMAIN indices \ onStack) \cup C
      BY <1>1, <1>4, <1>9
    <3>2. DOMAIN indices \ onStack = UNION {components[i] : i \in 1 .. last - 1}
      BY <1>0, <1>29 DEF ComponentInv
    <3>3. UNION {components'[i] : i \in 1 .. last} = (UNION {components[i] : i \in 1 .. last - 1}) \cup C
      <4>1. \A i \in 1 .. last - 1 : i \in 1 .. last /\ components'[i] = components[i]
        BY <1>29
      <4>2. \A i \in 1 .. last : i = last \/ i \in 1 .. last - 1
        BY <1>29
      <4>3. last \in 1 .. last /\ components'[last] = C
        BY <1>29
      <4>. QED BY <4>1, <4>2, <4>3, ZenonT(30)
    <3>. QED BY <3>1, <3>2, <3>3, <1>29
  <2>2. ASSUME NEW i \in DOMAIN components, NEW x \in components[i] PROVE x \notin C
    <3>1. x \notin onStack
      BY <1>0 DEF ComponentInv
    <3>. QED BY <3>1, <1>9
  <2>3. \A i, j \in DOMAIN components' : i # j => components'[i] \cap components'[j] = {}
    <3>. SUFFICES ASSUME NEW i \in 1 .. last, NEW j \in 1 .. last, i # j
                  PROVE  components'[i] \cap components'[j] = {}
      BY <1>29
    <3>1. CASE i = last
      <4>1. j \in 1 .. last - 1 /\ components'[j] = components[j]
        BY <3>1, <1>29
      <4>. QED BY <4>1, <3>1, <2>2, <1>29
    <3>2. CASE j = last
      <4>1. i \in 1 .. last - 1 /\ components'[i] = components[i]
        BY <3>2, <1>29
      <4>. QED BY <4>1, <3>2, <2>2, <1>29
    <3>3. CASE i # last /\ j # last
      <4>1. i \in DOMAIN components /\ j \in DOMAIN components
        BY <3>3, <1>29
      <4>2. components[i] \cap components[j] = {}
        BY <4>1, <1>0 DEF ComponentInv
      <4>. QED BY <4>1, <4>2, <1>29
    <3>. QED BY <3>1, <3>2, <3>3
  <2>4. \A i \in DOMAIN components' : \A a, b \in components'[i] : Leads(a, b)
    <3>. SUFFICES ASSUME NEW i \in 1 .. last, NEW a \in components'[i], NEW b \in components'[i]
                  PROVE  Leads(a, b)
      BY <1>29
    <3>1. CASE i = last
      <4>1. a \in C /\ b \in C
        BY <3>1, <1>29
      <4>. QED BY <4>1, <1>26, LeadsTransitive
    <3>2. CASE i # last
      <4>1. i \in DOMAIN components /\ a \in components[i] /\ b \in components[i]
        BY <3>2, <1>29
      <4>. QED BY <4>1, <1>0 DEF ComponentInv
    <3>. QED BY <3>1, <3>2
  <2>5. \A i \in DOMAIN components' : \A a \in components'[i] : \A b \in AdjacentNodes(a) :
          \E j \in 1 .. i : b \in components'[j]
    <3>. SUFFICES ASSUME NEW i \in 1 .. last, NEW a \in components'[i], NEW b \in AdjacentNodes(a)
                  PROVE  \E j \in 1 .. i : b \in components'[j]
      BY <1>29
    <3>1. CASE i = last
      <4>1. a \in C
        BY <3>1, <1>29
      <4>2. b \in C \/ \E j \in 1 .. last - 1 : b \in components[j]
        BY <4>1, <1>27, <1>29
      <4>3. ASSUME b \in C PROVE \E j \in 1 .. last : b \in components'[j]
        BY <4>3, <1>29
      <4>4. ASSUME NEW j \in 1 .. last - 1, b \in components[j]
            PROVE  \E l \in 1 .. last : b \in components'[l]
        BY <4>4, <1>29
      <4>. QED BY <4>2, <4>3, <4>4, <3>1
    <3>2. CASE i # last
      <4>1. i \in DOMAIN components /\ a \in components[i]
        BY <3>2, <1>29
      <4>2. PICK j \in 1 .. i : b \in components[j]
        BY <4>1, <1>0 DEF ComponentInv
      <4>3. j \in 1 .. last - 1
        BY <4>1, <1>29
      <4>. QED BY <4>2, <4>3, <1>29
    <3>. QED BY <3>1, <3>2
  <2>. QED BY <2>1, <2>3, <2>4, <2>5, <1>5 DEF ComponentInv
<1>. QED BY <1>16, <1>17, <1>18, <1>19, <1>20, <1>21, <1>22, <1>23, <1>24, <1>25, <1>30 DEF IInv

LEMMA ReturnStep ==
  ASSUME IInv, Return
  PROVE  IInv'
BY ReturnInside, ReturnDone

(***************************************************************************)
(* The definitions of the ports, and the beginning.                        *)
(***************************************************************************)

(* Every finite set of numbers has a highest one. *)
LEMMA HighestNumber ==
  ASSUME NEW T \in SUBSET Nat, T # {}, IsFiniteSet(T)
  PROVE  Max(T) \in T
<1>. DEFINE HasHighest(S) == \E x \in S : \A y \in S : x >= y
            Without == {S \in SUBSET T : S # {} /\ ~ HasHighest(S)}
            Sizes == {Cardinality(S) : S \in Without}
<1>1. Without = {}
  <2>1. SUFFICES ASSUME Without # {} PROVE FALSE
    OBVIOUS
  <2>2. \A S \in Without : IsFiniteSet(S) /\ Cardinality(S) \in Nat
    BY FS_Subset, FS_CardinalityType
  <2>3. Sizes \in SUBSET Nat /\ Sizes # {}
    BY <2>1, <2>2
  <2>4. PICK least \in Sizes : \A size \in Sizes : least <= size
    <3>. HIDE DEF Sizes
    <3>. QED BY <2>3, LeastNumber
  <2>5. PICK S \in Without : least = Cardinality(S)
    OBVIOUS
  <2>6. PICK x \in S : TRUE
    OBVIOUS
  <2>7. PICK y \in S : ~ (x >= y)
    BY <2>6
  <2>8. x \in Nat /\ y \in Nat /\ y \in S \ {x}
    BY <2>6, <2>7
  <2>9. IsFiniteSet(S \ {x}) /\ Cardinality(S \ {x}) = Cardinality(S) - 1
    BY <2>2, <2>6, FS_RemoveElement
  <2>10. S \ {x} \notin Without
    <3>1. Cardinality(S) \in Nat
      BY <2>2
    <3>2. ASSUME S \ {x} \in Without PROVE FALSE
      <4>1. Cardinality(S \ {x}) \in Sizes
        BY <3>2
      <4>2. Cardinality(S) <= Cardinality(S) - 1
        BY <4>1, <2>4, <2>5, <2>9
      <4>. QED BY <4>2, <3>1
    <3>. QED BY <3>2
  <2>11. PICK z \in S \ {x} : \A v \in S \ {x} : z >= v
    BY <2>8, <2>10
  <2>12. z \in Nat /\ z >= x
    <3>1. z >= y /\ z \in Nat
      BY <2>8, <2>11
    <3>. QED BY <3>1, <2>7, <2>8
  <2>13. \A v \in S : z >= v
    BY <2>11, <2>12
  <2>. QED BY <2>11, <2>13
<1>2. HasHighest(T)
  BY <1>1
<1>. QED BY <1>2 DEF Max

LEMMA DefinitionType ==
  ASSUME TypeInv, NEW n \in Node
  PROVE  DefinitionOf(n) \in [inputs : Nat, outputs : Nat]
<1>. DEFINE T == {c.in : c \in {d \in connections[n] : d.to = n}} \cup {0}
<1>1. graph \in Graphs /\ connections[n] \subseteq graph
  BY DEF TypeInv
<1>2. IsFiniteSet(graph) /\ \A c \in graph : c.in \in Nat
  BY <1>1, GraphPreprocessingAssumption
<1>3. T \subseteq Nat /\ T # {}
  BY <1>1, <1>2
<1>4. IsFiniteSet(T)
  <2>. DEFINE D == {d \in connections[n] : d.to = n}
              In == {c.in : c \in D}
  <2>1. IsFiniteSet(D)
    BY <1>1, <1>2, FS_Subset
  <2>2. IsFiniteSet(In)
    <3>. DEFINE input == [c \in D |-> c.in]
    <3>1. input \in Surjection(D, In)
      <4>. HIDE DEF D
      <4>. QED BY DEF Surjection
    <3>. HIDE DEF D, In, input
    <3>. QED BY <2>1, <3>1, FS_Surjection
  <2>3. T = In \cup {0}
    OBVIOUS
  <2>. HIDE DEF In
  <2>. QED BY <2>2, <2>3, FS_AddElement
<1>5. HighestInput(n) \in Nat
  <2>1. HighestInput(n) = Max(T)
    BY DEF HighestInput
  <2>. HIDE DEF T
  <2>. QED BY <2>1, <1>3, <1>4, HighestNumber
<1>. QED BY <1>5 DEF DefinitionOf

(* Asking a node keeps the invariant: the search has not begun. *)
LEMMA DefineNodeStep ==
  ASSUME IInv, DefineNode
  PROVE  IInv'
<1>. PICK n : n = Len(definitions) + 1
  OBVIOUS
<1>. PICK definition : definition = DefinitionOf(n)
  OBVIOUS
<1>0. /\ TypeInv /\ ListInv /\ PortInv /\ PhaseInv /\ IndexInv /\ StackInv /\ CallInv
      /\ SeenInv /\ DownInv /\ UpInv /\ LowInv /\ BoundInv /\ ComponentInv
  BY DEF IInv
<1>1. /\ n \in Node
      /\ definitions' = Append(definitions, definition)
      /\ connections' = WithoutInvalid(n, InvalidAt(n, definition))
      /\ UNCHANGED <<graph, indices, lowLinks, stack, onStack, calls, components>>
  BY DEF DefineNode, search
<1>2. NodeCount \in Nat /\ Len(definitions) \in Nat /\ n <= NodeCount
  BY <1>0, <1>1, GraphPreprocessingAssumption, LenProperties DEF TypeInv, Node
<1>3. /\ DOMAIN indices = {} /\ onStack = {}
      /\ calls = <<>> /\ stack = <<>> /\ components = <<>>
  <2>1. ~ Defined
    BY <1>2 DEF Defined
  <2>. QED BY <2>1, <1>0 DEF PhaseInv, TypeInv
<1>4. definition \in [inputs : Nat, outputs : Nat]
  BY <1>0, <1>1, DefinitionType
<1>5. /\ definitions' \in Seq([inputs : Nat, outputs : Nat])
      /\ Len(definitions') = n
      /\ \A m \in 1 .. n - 1 : definitions'[m] = definitions[m]
      /\ definitions'[n] = definition
  <2>1. definitions \in Seq([inputs : Nat, outputs : Nat])
    BY <1>0 DEF TypeInv
  <2>2. /\ Append(definitions, definition) \in Seq([inputs : Nat, outputs : Nat])
        /\ Len(Append(definitions, definition)) = Len(definitions) + 1
        /\ \A m \in 1 .. Len(definitions) : Append(definitions, definition)[m] = definitions[m]
        /\ Append(definitions, definition)[Len(definitions) + 1] = definition
    BY <2>1, <1>4, AppendProperties
  <2>3. n - 1 = Len(definitions)
    BY <1>2
  <2>. QED BY <2>2, <2>3, <1>1
<1>. DEFINE Gone == InvalidAt(n, definition)
<1>6. /\ connections' = [m \in Node |-> connections[m] \ Gone]
      /\ connections \in [Node -> SUBSET graph]
  BY <1>0, <1>1 DEF WithoutInvalid, TypeInv
<1>7. TypeInv'
  <2>1. connections' \in [Node -> SUBSET graph']
    <3>. HIDE DEF Gone
    <3>. QED BY <1>1, <1>6
  <2>. QED BY <2>1, <1>0, <1>1, <1>2, <1>5 DEF TypeInv
<1>8. ListInv'
  <2>. HIDE DEF Gone
  <2>1. ASSUME NEW m \in Node, NEW c \in connections'[m]
        PROVE  /\ c.from \in Node /\ c.to \in Node
               /\ m \in {c.from, c.to}
               /\ c \in connections'[c.from] /\ c \in connections'[c.to]
    <3>1. c \in connections[m] /\ c \notin Gone
      BY <2>1, <1>6
    <3>2. /\ c.from \in Node /\ c.to \in Node
          /\ m \in {c.from, c.to}
          /\ c \in connections[c.from] /\ c \in connections[c.to]
      BY <3>1, <1>0 DEF ListInv
    <3>. QED BY <3>1, <3>2, <1>6
  <2>. QED BY <2>1 DEF ListInv
<1>9. PortInv'
  <2>1. ASSUME NEW m \in 1 .. n, NEW c \in connections'[m]
        PROVE  /\ c.to = m => c.in <= definitions'[m].inputs
               /\ c.from = m /\ c.to # m => c.out <= definitions'[m].outputs
    <3>1. m \in Node /\ c \in connections[m] /\ c \notin Gone /\ c \in graph
      <4>1. m \in Node
        BY <1>2 DEF Node
      <4>. HIDE DEF Gone
      <4>. QED BY <4>1, <2>1, <1>6
    <3>2. CASE m \in 1 .. n - 1
      <4>1. m \in 1 .. Len(definitions) /\ definitions'[m] = definitions[m]
        BY <3>2, <1>2, <1>5
      <4>. QED BY <4>1, <3>1, <1>0 DEF PortInv
    <3>3. CASE m = n
      <4>1. c.in \in Nat /\ c.out \in Nat
        BY <3>1, <1>0, GraphPreprocessingAssumption DEF TypeInv
      <4>2. definition.inputs \in Nat /\ definition.outputs \in Nat
        BY <1>4
      <4>3. ~ (IF c.to = n THEN c.in > definition.inputs ELSE c.out > definition.outputs)
        BY <3>1, <3>3 DEF InvalidAt
      <4>. QED BY <4>1, <4>2, <4>3, <3>3, <1>5
    <3>. QED BY <3>2, <3>3, <1>2
  <2>. QED BY <2>1, <1>5 DEF PortInv
<1>10. PhaseInv'
  BY <1>1, <1>3 DEF PhaseInv
<1>. HIDE DEF Gone
<1>11. /\ DOMAIN indices' = {} /\ onStack' = {} /\ DOMAIN calls' = {} /\ DOMAIN components' = {}
       /\ stack' = stack /\ indices' = indices
  BY <1>1, <1>3
<1>12. StackInv'
  BY <1>0, <1>1 DEF StackInv
<1>13. IndexInv' /\ CallInv' /\ SeenInv' /\ DownInv' /\ UpInv' /\ LowInv' /\ BoundInv'
  BY <1>11 DEF IndexInv, CallInv, SeenInv, DownInv, UpInv, LowInv, BoundInv
<1>14. ComponentInv'
  BY <1>11 DEF ComponentInv
<1>. QED BY <1>7, <1>8, <1>9, <1>10, <1>12, <1>13, <1>14 DEF IInv

LEMMA InitIInv ==
  ASSUME Init
  PROVE  IInv
<1>1. /\ graph \in Graphs /\ connections = [n \in Node |-> Listed(n, graph)]
      /\ definitions = <<>> /\ indices = <<>> /\ lowLinks = <<>>
      /\ stack = <<>> /\ onStack = {} /\ calls = <<>> /\ components = <<>>
  BY DEF Init
<1>2. /\ DOMAIN indices = {} /\ DOMAIN calls = {} /\ DOMAIN stack = {} /\ DOMAIN components = {}
      /\ Len(definitions) = 0
  BY <1>1
<1>3. TypeInv
  <2>1. connections \in [Node -> SUBSET graph]
    BY <1>1 DEF Listed
  <2>2. indices \in [DOMAIN indices -> Nat] /\ lowLinks \in [DOMAIN indices -> Nat]
    BY <1>1, <1>2
  <2>3. /\ definitions \in Seq([inputs : Nat, outputs : Nat]) /\ stack \in Seq(Node)
        /\ calls \in Seq([node : Node, left : SUBSET Node]) /\ components \in Seq(SUBSET Node)
    BY <1>1
  <2>. QED BY <2>1, <2>2, <2>3, <1>1, <1>2, GraphPreprocessingAssumption DEF TypeInv
<1>4. ListInv
  BY <1>1 DEF ListInv, Listed
<1>5. PortInv
  BY <1>2 DEF PortInv
<1>6. PhaseInv
  BY <1>1, <1>2 DEF PhaseInv
<1>7. StackInv
  BY <1>1, <1>2 DEF StackInv
<1>8. IndexInv /\ CallInv /\ SeenInv /\ DownInv /\ UpInv /\ LowInv /\ BoundInv
  BY <1>1, <1>2 DEF IndexInv, CallInv, SeenInv, DownInv, UpInv, LowInv, BoundInv
<1>9. ComponentInv
  BY <1>1, <1>2 DEF ComponentInv
<1>. QED BY <1>3, <1>4, <1>5, <1>6, <1>7, <1>8, <1>9 DEF IInv

LEMMA StutterIInv ==
  ASSUME IInv, UNCHANGED vars
  PROVE  IInv'
<1>1. UNCHANGED <<graph, connections, definitions, indices, lowLinks, stack, onStack, calls, components>>
  BY DEF vars, search
<1>2. /\ \A x : AdjacentNodes(x)' = AdjacentNodes(x)
      /\ \A a, b : Reaches(a, b)' <=> Reaches(a, b)
      /\ \A a, b : Leads(a, b)' <=> Leads(a, b)
  BY <1>1, GraphKept
<1>3. (\A k : Caller(k)' = Caller(k)) /\ \A x : Seen(x)' = Seen(x)
  <2>1. \A k : Caller(k)' = Caller(k)
    BY <1>1 DEF Caller
  <2>. QED BY <2>1, <1>1, <1>2 DEF Seen
<1>4. TypeInv' /\ ListInv' /\ PortInv' /\ PhaseInv' /\ IndexInv' /\ StackInv'
  BY <1>1 DEF IInv, TypeInv, ListInv, PortInv, PhaseInv, Defined, IndexInv, StackInv
<1>5. CallInv' /\ SeenInv' /\ DownInv' /\ UpInv'
  BY <1>1, <1>2, <1>3 DEF IInv, CallInv, SeenInv, DownInv, UpInv
<1>6. LowInv' /\ BoundInv'
  BY <1>1, <1>2, <1>3 DEF IInv, LowInv, BoundInv
<1>7. ComponentInv'
  BY <1>1, <1>2 DEF IInv, ComponentInv
<1>. QED BY <1>4, <1>5, <1>6, <1>7 DEF IInv

(* The invariant holds in every state of the search. *)
THEOREM SearchInvariant == Spec => []IInv
<1>1. Init => IInv
  BY InitIInv
<1>2. IInv /\ [Next]_vars => IInv'
  BY DefineNodeStep, NextRootStep, DescendStep, LookAtVisitedStep, ReturnStep, StutterIInv
     DEF Next, Done
<1>. QED BY <1>1, <1>2, PTL DEF Spec

(***************************************************************************)
(* What the search finds.                                                  *)
(***************************************************************************)

(* Between calls no node is left on the stack. *)
LEMMA NoneLeft ==
  ASSUME IInv, Searched
  PROVE  \A n \in Node : \E i \in DOMAIN components : n \in components[i]
<1>1. calls = <<>> /\ DOMAIN indices = Node
  BY DEF Searched
<1>2. onStack = {}
  <2>1. \A n \in onStack : \E k \in DOMAIN calls : TRUE
    BY DEF IInv, UpInv
  <2>2. DOMAIN calls = {}
    BY <1>1
  <2>. QED BY <2>1, <2>2
<1>3. Node = UNION {components[i] : i \in DOMAIN components}
  BY <1>1, <1>2 DEF IInv, ComponentInv
<1>. QED BY <1>3

(* From a component one gets to earlier ones only. *)
LEMMA EarlierComponents ==
  ASSUME IInv, NEW i \in DOMAIN components, NEW a \in components[i], NEW b, Reaches(a, b)
  PROVE  \E j \in 1 .. i : j \in DOMAIN components /\ b \in components[j]
<1>1. components \in Seq(SUBSET Node)
  BY DEF IInv, TypeInv
<1>2. DOMAIN components = 1 .. Len(components) /\ Len(components) \in Nat
  BY <1>1, LenProperties
<1>. PICK top \in Nat : top = Len(components)
  BY <1>2
<1>3. i \in 1 .. top /\ \A j \in 1 .. i : j \in DOMAIN components /\ 1 .. j \subseteq 1 .. i
  BY <1>2
<1>4. \A j \in DOMAIN components : components[j] \subseteq Node
  BY <1>1, <1>2, ElementOfSeq
<1>. DEFINE S == UNION {components[j] : j \in 1 .. i}
<1>5. S \subseteq Node
  BY <1>3, <1>4
<1>6. \A j \in DOMAIN components : \A x \in components[j] : \A y \in AdjacentNodes(x) :
        \E l \in 1 .. j : y \in components[l]
  BY DEF IInv, ComponentInv
<1>7. ASSUME NEW j \in 1 .. i, NEW x \in components[j] PROVE AdjacentNodes(x) \subseteq S
  <2>. SUFFICES ASSUME NEW y \in AdjacentNodes(x) PROVE y \in S
    OBVIOUS
  <2>1. PICK l \in 1 .. j : y \in components[l]
    BY <1>3, <1>6, <1>7
  <2>2. l \in 1 .. i
    BY <1>3
  <2>. QED BY <2>1, <2>2
<1>8. \A x \in S : AdjacentNodes(x) \subseteq S
  BY <1>7
<1>9. AdjacentNodes(a) \subseteq S
  <2>1. i \in 1 .. i
    BY <1>3
  <2>. QED BY <2>1, <1>7
<1>10. b \in S
  <2>. HIDE DEF S
  <2>. QED BY <1>5, <1>8, <1>9, ReachesInside
<1>. QED BY <1>3, <1>10

LEMMA ComponentsFromInvariant ==
  ASSUME IInv
  PROVE  ComponentsAreCycles
<1>1. components \in Seq(SUBSET Node)
  BY DEF IInv, TypeInv
<1>2. DOMAIN components = 1 .. Len(components) /\ Len(components) \in Nat
  BY <1>1, LenProperties
<1>3. \A i, j \in DOMAIN components : i # j => components[i] \cap components[j] = {}
  BY DEF IInv, ComponentInv
<1>4. ASSUME NEW i \in DOMAIN components, NEW a \in components[i], NEW b \in Node
      PROVE  b \in components[i] <=> a = b \/ (Reaches(a, b) /\ Reaches(b, a))
  <2>1. ASSUME b \in components[i] PROVE a = b \/ (Reaches(a, b) /\ Reaches(b, a))
    <3>1. Leads(a, b) /\ Leads(b, a)
      BY <2>1 DEF IInv, ComponentInv
    <3>. QED BY <3>1 DEF Leads
  <2>2. ASSUME Reaches(a, b), Reaches(b, a) PROVE b \in components[i]
    <3>1. PICK j \in 1 .. i : j \in DOMAIN components /\ b \in components[j]
      BY <2>2, EarlierComponents
    <3>2. PICK l \in 1 .. j : l \in DOMAIN components /\ a \in components[l]
      BY <2>2, <3>1, EarlierComponents
    <3>3. l = i
      BY <3>2, <1>3
    <3>4. j = i
      BY <3>3, <1>2
    <3>. QED BY <3>1, <3>4
  <2>. QED BY <2>1, <2>2
<1>5. Searched => \A n \in Node : InSameCycle(n, n)
  BY NoneLeft DEF InSameCycle
<1>. QED BY <1>4, <1>5 DEF ComponentsAreCycles

(* For every number of nodes and every graph: whatever the order in which
   strongConnect takes nodes and connections, each component it has found
   holds just those nodes that reach one another, and in the end every node
   has one. *)
THEOREM SearchFindsCycles == Spec => []ComponentsAreCycles
BY SearchInvariant, ComponentsFromInvariant, PTL

(***************************************************************************)
(* The execution plan.                                                     *)
(***************************************************************************)

LEMMA PortsExist ==
  ASSUME IInv, Defined, NEW n \in Node, NEW c \in connections[n]
  PROVE  /\ c.to = n => c.in <= definitions[n].inputs
         /\ c.from = n /\ c.to # n => c.out <= definitions[n].outputs
         /\ c.from \in Node /\ c.to \in Node
         /\ c \in connections[c.from] /\ c \in connections[c.to]
<1>1. n \in 1 .. Len(definitions)
  BY DEF Defined, Node
<1>. QED BY <1>1 DEF IInv, PortInv, ListInv

LEMMA NeighboursFromInvariant ==
  ASSUME IInv
  PROVE  NeighboursAgree
<1>. SUFFICES ASSUME Searched, NEW a \in Node, NEW b \in Node
              PROVE  /\ a # b => (a \in InputNodesTo(b) <=> b \in OutputNodesFrom(a))
                     /\ InputNodesTo(b) = UnplannedDependencies(b)
                     /\ MissingRequiredInput(b) <=> UnplannedMissingInput(b)
  BY DEF NeighboursAgree
<1>1. Defined
  BY DEF Searched
<1>2. InputConnections(b) = {c \in connections[b] : c.to = b}
  BY <1>1, PortsExist DEF InputConnections
<1>3. ASSUME a # b, a \in InputNodesTo(b) PROVE b \in OutputNodesFrom(a)
  <2>1. PICK c \in connections[b] : c.to = b /\ c.from = a
    BY <1>2, <1>3 DEF InputNodesTo
  <2>2. c \in connections[a]
    BY <2>1, <1>1, PortsExist
  <2>3. c \in OutputConnections(a)
    BY <2>1, <2>2, <1>1, <1>3, PortsExist DEF OutputConnections
  <2>. QED BY <2>1, <2>3 DEF OutputNodesFrom
<1>4. ASSUME a # b, b \in OutputNodesFrom(a) PROVE a \in InputNodesTo(b)
  <2>1. PICK c \in connections[a] : c.from = a /\ c.to = b
    BY <1>4 DEF OutputNodesFrom, OutputConnections
  <2>2. c \in InputConnections(b)
    BY <2>1, <1>1, <1>2, PortsExist
  <2>. QED BY <2>1, <2>2 DEF InputNodesTo
<1>5. InputNodesTo(b) = UnplannedDependencies(b)
  BY <1>2 DEF InputNodesTo, UnplannedDependencies
<1>6. MissingRequiredInput(b) <=> UnplannedMissingInput(b)
  BY <1>2 DEF MissingRequiredInput, UnplannedMissingInput
<1>. QED BY <1>3, <1>4, <1>5, <1>6

(* Both ends of every connection agree in the end on whether it is there, for
   every graph, every choice of passthrough nodes and every order of asking
   them; and a processor without a plan sees the same inputs as one with it. *)
THEOREM PlanNeighboursAgree == Spec => []NeighboursAgree
BY SearchInvariant, NeighboursFromInvariant, PTL

(* The place of a node among the components, where each has one node. *)
Place(n) == CHOOSE i \in DOMAIN components : components[i] = {n}

(* Where the fast scheduler is chosen, connections lead to earlier places. *)
LEMMA FastPlaces ==
  ASSUME IInv, Searched, CanUseFastAcyclicScheduler
  PROVE  /\ \A n \in Node : Place(n) \in Nat
         /\ \A a \in Node : \A b \in AdjacentNodes(a) : b \in Node /\ Place(b) < Place(a)
<1>1. components \in Seq(SUBSET Node) /\ connections \in [Node -> SUBSET graph]
  BY DEF IInv, TypeInv
<1>2. DOMAIN components = 1 .. Len(components) /\ Len(components) \in Nat
  BY <1>1, LenProperties
<1>3. \A n \in Node : Place(n) \in DOMAIN components /\ components[Place(n)] = {n}
  <2>1. \A n \in Node : \E i \in DOMAIN components : components[i] = {n}
    BY DEF CanUseFastAcyclicScheduler, NodesNotInCycle
  <2>. QED BY <2>1 DEF Place
<1>4. ASSUME NEW a \in Node, NEW b \in AdjacentNodes(a)
      PROVE  b \in Node /\ Place(b) < Place(a)
  <2>1. PICK c \in connections[a] : c.from = a /\ c.to = b
    BY DEF AdjacentNodes
  <2>2. b \in Node
    BY <2>1 DEF IInv, ListInv
  <2>3. a # b
    BY <2>1, <1>1 DEF CanUseFastAcyclicScheduler
  <2>4. PICK j \in 1 .. Place(a) : b \in components[j]
    BY <1>3 DEF IInv, ComponentInv
  <2>5. j \in DOMAIN components /\ Place(a) \in 1 .. Len(components)
    BY <1>2, <1>3
  <2>6. j = Place(b)
    <3>1. \A i, l \in DOMAIN components : i # l => components[i] \cap components[l] = {}
      BY DEF IInv, ComponentInv
    <3>. QED BY <3>1, <2>2, <2>4, <2>5, <1>3
  <2>7. j # Place(a)
    BY <2>3, <2>4, <1>3
  <2>8. j \in Nat /\ Place(a) \in Nat /\ j <= Place(a)
    BY <2>4, <2>5, <1>2
  <2>. QED BY <2>2, <2>6, <2>7, <2>8
<1>5. \A n \in Node : Place(n) \in Nat
  BY <1>2, <1>3
<1>. QED BY <1>4, <1>5

LEMMA FastNodesFromInvariant ==
  ASSUME IInv
  PROVE  FastNodesNeverWaitInACircle
<1>. SUFFICES ASSUME Searched, CanUseFastAcyclicScheduler
              PROVE  /\ \A S \in (SUBSET Node) \ {{}} : \E n \in S : InputNodesTo(n) \cap S = {}
                     /\ \A n \in Node : \E s \in StartNodes : s = n \/ Reaches(n, s)
  BY DEF FastNodesNeverWaitInACircle
<1>1. Defined
  BY DEF Searched
<1>2. /\ \A n \in Node : Place(n) \in Nat
      /\ \A a \in Node : \A b \in AdjacentNodes(a) : b \in Node /\ Place(b) < Place(a)
  BY FastPlaces
<1>3. ASSUME NEW S \in SUBSET Node, S # {} PROVE \E n \in S : InputNodesTo(n) \cap S = {}
  <2>. PICK some \in S : TRUE
    BY <1>3
  <2>. DEFINE Above == {k \in Nat : \A n \in S : Place(n) <= k}
              top == Len(components)
  <2>1. Above # {}
    <3>1. components \in Seq(SUBSET Node)
      BY DEF IInv, TypeInv
    <3>2. DOMAIN components = 1 .. top /\ top \in Nat
      BY <3>1, LenProperties
    <3>3. \A n \in Node : Place(n) \in DOMAIN components
      <4>1. \A n \in Node : \E i \in DOMAIN components : components[i] = {n}
        BY DEF CanUseFastAcyclicScheduler, NodesNotInCycle
      <4>. QED BY <4>1 DEF Place
    <3>4. \A n \in S : Place(n) <= top
      BY <3>2, <3>3
    <3>. QED BY <3>2, <3>4
  <2>2. PICK high \in Above : \A k \in Above : high <= k
    <3>1. Above \in SUBSET Nat
      OBVIOUS
    <3>. HIDE DEF Above
    <3>. QED BY <2>1, <3>1, LeastNumber
  <2>3. PICK n \in S : Place(n) = high
    <3>1. SUFFICES ASSUME \A n \in S : Place(n) # high PROVE FALSE
      OBVIOUS
    <3>2. high \in Nat /\ \A n \in S : Place(n) <= high /\ Place(n) \in Nat
      BY <1>2
    <3>3. \A n \in S : Place(n) <= high - 1
      BY <3>1, <3>2
    <3>4. high - 1 \in Nat
      BY <3>2, <3>3
    <3>5. high <= high - 1
      BY <2>2, <3>3, <3>4
    <3>. QED BY <3>2, <3>5
  <2>4. ASSUME NEW a \in InputNodesTo(n), a \in S PROVE FALSE
    <3>1. PICK c \in connections[n] : c.to = n /\ c.from = a
      BY DEF InputNodesTo, InputConnections
    <3>2. n \in AdjacentNodes(a)
      BY <3>1, <1>1, PortsExist DEF AdjacentNodes
    <3>3. Place(n) < Place(a) /\ Place(a) <= high /\ Place(a) \in Nat /\ high \in Nat
      BY <3>2, <2>4, <1>2
    <3>. QED BY <3>3, <2>3
  <2>. QED BY <2>4
<1>4. ASSUME NEW n \in Node PROVE \E s \in StartNodes : s = n \/ Reaches(n, s)
  <2>. DEFINE Led == {m \in Node : Leads(n, m)}
              Places == {Place(m) : m \in Led}
  <2>1. n \in Led
    BY DEF Leads
  <2>2. Places \in SUBSET Nat /\ Places # {}
    BY <2>1, <1>2
  <2>3. PICK low \in Places : \A k \in Places : low <= k
    <3>. HIDE DEF Places
    <3>. QED BY <2>2, LeastNumber
  <2>4. PICK s \in Led : Place(s) = low
    OBVIOUS
  <2>5. ASSUME NEW b \in OutputNodesFrom(s) PROVE FALSE
    <3>1. b \in AdjacentNodes(s) /\ s \in Node
      BY DEF OutputNodesFrom, OutputConnections, AdjacentNodes
    <3>2. b \in Node /\ Place(b) < Place(s)
      BY <3>1, <1>2
    <3>3. Leads(s, b)
      BY <3>1, ReachesNext DEF Leads
    <3>4. Leads(n, b)
      BY <3>3, LeadsTransitive
    <3>5. Place(b) \in Places
      BY <3>2, <3>4
    <3>6. Place(s) <= Place(b) /\ Place(b) \in Nat /\ Place(s) \in Nat
      BY <3>1, <3>2, <3>5, <2>3, <2>4, <1>2
    <3>. QED BY <3>2, <3>6
  <2>6. s \in StartNodes /\ Leads(n, s)
    BY <2>5 DEF StartNodes
  <2>. QED BY <2>6 DEF Leads
<1>. QED BY <1>3, <1>4

(* The fast scheduler is chosen for no graph in which nodes wait for each
   other, however large: among any nodes one waits for none of the others, and
   from every node there is a way to a start node, so the walk finds it. *)
THEOREM FastNodesCanAllRun == Spec => []FastNodesNeverWaitInACircle
BY SearchInvariant, FastNodesFromInvariant, PTL
=============================================================================
