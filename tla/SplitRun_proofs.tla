--------------------------- MODULE SplitRun_proofs ---------------------------
(***************************************************************************)
(* Proofs about SplitRun, for every length of the arrays, every number of  *)
(* items at a time and with or without listeners that throw.               *)
(***************************************************************************)
EXTENDS SplitRun, TLAPS, FiniteSetTheorems, SequenceTheorems

(* The items there are, and where they may be.  An item is under way only while
   the node is at its items, and has a controller then. *)
ItemsInv ==
  /\ splittingAmount \in 0 .. SplitRunMax
  /\ \A i \in Item : item[i] = "none" <=> i > splittingAmount
  /\ stage \in {"new", "starting"} => \A i \in Item : item[i] \in {"none", "queued"}
  /\ ItemsIn(Active) \subseteq nodeAbortControllers
  /\ ItemsIn(Active) # {} => stage = "items"

(* What the node has reported and stored by the time it is at each stage. *)
Begun == events = <<"nodeStart">> /\ nodeResults = "none" /\ ~ errored

Finished == events = <<"nodeStart", "nodeFinish">> /\ nodeResults = "outputs" /\ ~ errored

Excluded ==
  /\ events \in {<<"nodeExcluded">>, <<"nodeStart", "nodeExcluded">>}
  /\ nodeResults = "excluded" /\ terminal /\ ~ errored

Erred ==
  /\ errored
  /\ \/ events \in {<<"nodeError">>, <<"nodeStart", "nodeError">>} /\ nodeResults = "none"
     \/ events = <<"nodeStart", "nodeFinish", "nodeError">> /\ nodeResults = "outputs"

StageInv ==
  /\ stage = "new" => events = <<>> /\ nodeResults = "none" /\ ~ errored
  /\ stage \in {"starting", "items", "rejected"} => Begun
  /\ stage = "finishing" => Finished
  /\ stage = "excluding" => Excluded
  /\ stage = "erroring" => Erred
  /\ stage = "settled" => Finished \/ Excluded \/ Erred

(* Outputs are stored when every item has its own. *)
OutputsInv == nodeResults = "outputs" => ItemsIn({"output"}) = 1 .. splittingAmount

(* An exclusion with an item that failed is that of a sequential run, which an
   abort met before its next item. *)
ExclusionInv ==
  nodeResults = "excluded" /\ ItemsIn({"error"}) # {} =>
    mode = "sequential" /\ aborted = "successful" /\ ItemsIn({"queued"}) # {}

(* An item that ends after a successful abort ends with a failure, or the node
   is marked as ended by the abort. *)
LateInv ==
  /\ ~ IsAborted => endedLate = {}
  /\ aborted = "successful" /\ ~ terminal => endedLate \subseteq ItemsIn({"error", "aborted"})
  /\ stage = "settled" => ~ (queuesOutputs /\ terminal)

IInv ==
  /\ TypeOK /\ ItemsInv /\ StageInv /\ OutputsInv /\ ExclusionInv /\ LateInv
  /\ AbortReachesItems

(***************************************************************************)
(* Sets of items, and the bound on those under way.                        *)
(***************************************************************************)

Modes == {"once", "sequential", "parallel"}

ItemStates == {"none", "queued"} \cup Active \cup Settled

AtATime == IF mode = "parallel" THEN SplitRunConcurrency ELSE 1

LEMMA Constants ==
  /\ LongestArray \in Nat \ {0} /\ SplitRunMax \in Nat \ {0} /\ SplitRunConcurrency \in Nat \ {0}
  /\ Item = 1 .. SplitRunMax /\ IsFiniteSet(Item) /\ AtATime \in Nat \ {0}
<1>1. /\ LongestArray \in Nat \ {0} /\ SplitRunMax \in Nat \ {0} /\ SplitRunConcurrency \in Nat \ {0}
  BY SplitRunAssumption
<1>2. IsFiniteSet(1 .. SplitRunMax)
  BY <1>1, FS_Interval
<1>. QED BY <1>1, <1>2 DEF Item, AtATime

LEMMA Types ==
  TypeOK <=>
    /\ stage \in Stages /\ mode \in Modes
    /\ item \in [Item -> ItemStates]
    /\ nodeAbortControllers \in SUBSET Item /\ signalled \in SUBSET Item
    /\ endedLate \in SUBSET Item
    /\ isPaused \in BOOLEAN /\ errored \in BOOLEAN /\ terminal \in BOOLEAN
    /\ queuesOutputs \in BOOLEAN
    /\ aborted \in {"no", "failed", "successful"}
    /\ Cardinality(ItemsIn(Active)) <= AtATime
  BY DEF TypeOK, Modes, ItemStates, AtATime

(* Changing one item changes the sets of items by that one. *)
LEMMA ItemsOfUpdate ==
  ASSUME NEW i \in Item, NEW s, item \in [Item -> ItemStates], item' = [item EXCEPT ![i] = s],
         NEW states
  PROVE  /\ s \in states => ItemsIn(states)' = ItemsIn(states) \cup {i}
         /\ s \notin states => ItemsIn(states)' = ItemsIn(states) \ {i}
  BY DEF ItemsIn

(* No step but the start of an item adds one to those under way. *)
LEMMA BoundKept ==
  ASSUME TypeOK, mode' = mode, ItemsIn(Active)' \subseteq ItemsIn(Active)
  PROVE  Cardinality(ItemsIn(Active)') <= AtATime'
<1>1. IsFiniteSet(ItemsIn(Active))
  BY Constants, FS_Subset DEF ItemsIn
<1>2. Cardinality(ItemsIn(Active)') <= Cardinality(ItemsIn(Active))
  BY <1>1, FS_Subset
<1>3. Cardinality(ItemsIn(Active)) \in Nat /\ Cardinality(ItemsIn(Active)') \in Nat
  BY <1>1, FS_Subset, FS_CardinalityType
<1>. QED BY <1>2, <1>3, Types, Constants DEF AtATime

(***************************************************************************)
(* The steps.                                                              *)
(***************************************************************************)

(* Sequences that are written out. *)
LEMMA ShortSeqs ==
  ASSUME NEW S, NEW a \in S, NEW b \in S, NEW e \in S
  PROVE  <<e>> \in Seq(S) /\ <<a, e>> \in Seq(S) /\ <<a, b, e>> \in Seq(S)
OBVIOUS

LEMMA AppendToOne ==
  ASSUME NEW S, NEW a \in S, NEW e \in S
  PROVE  Append(<<a>>, e) = <<a, e>>
<1>. DEFINE s == <<a>>
            t == <<a, e>>
            u == Append(s, e)
<1>1. s \in Seq(S) /\ Len(s) = 1 /\ s[1] = a
  BY ShortSeqs
<1>2. t \in Seq(S) /\ Len(t) = 2 /\ t[1] = a /\ t[2] = e
  BY ShortSeqs
<1>3. u \in Seq(S) /\ Len(u) = 2 /\ u[1] = a /\ u[2] = e
  <2>. HIDE DEF s
  <2>0. s \in Seq(S)
    BY <1>1
  <2>1. Len(u) = Len(s)+1 /\ u \in Seq(S) /\ (\A i \in 1..Len(s) : u[i] = s[i]) /\ u[Len(s)+1] = e
    BY <2>0, AppendProperties
  <2>. HIDE DEF u
  <2>. QED BY <1>1, <2>1
<1>. HIDE DEF s, t, u
<1>4. \A i \in 1..Len(u) : u[i] = t[i]
  BY <1>2, <1>3
<1>5. u = t
  BY <1>2, <1>3, <1>4, SeqEqual
<1>. QED BY <1>5 DEF s, t, u

LEMMA AppendToTwo ==
  ASSUME NEW S, NEW a \in S, NEW b \in S, NEW e \in S
  PROVE  Append(<<a, b>>, e) = <<a, b, e>>
<1>. DEFINE s == <<a, b>>
            t == <<a, b, e>>
            u == Append(s, e)
<1>1. s \in Seq(S) /\ Len(s) = 2 /\ s[1] = a /\ s[2] = b
  BY ShortSeqs
<1>2. t \in Seq(S) /\ Len(t) = 3 /\ t[1] = a /\ t[2] = b /\ t[3] = e
  BY ShortSeqs
<1>3. u \in Seq(S) /\ Len(u) = 3 /\ u[1] = a /\ u[2] = b /\ u[3] = e
  <2>. HIDE DEF s
  <2>0. s \in Seq(S)
    BY <1>1
  <2>1. Len(u) = Len(s)+1 /\ u \in Seq(S) /\ (\A i \in 1..Len(s) : u[i] = s[i]) /\ u[Len(s)+1] = e
    BY <2>0, AppendProperties
  <2>. HIDE DEF u
  <2>. QED BY <1>1, <2>1
<1>. HIDE DEF s, t, u
<1>4. \A i \in 1..Len(u) : u[i] = t[i]
  BY <1>2, <1>3
<1>5. u = t
  BY <1>2, <1>3, <1>4, SeqEqual
<1>. QED BY <1>5 DEF s, t, u

Events == {"nodeStart", "nodeFinish", "nodeError", "nodeExcluded"}

LEMMA Appended ==
  /\ \A e \in Events : Append(<<>>, e) = <<e>>
  /\ \A e \in Events : Append(<<"nodeStart">>, e) = <<"nodeStart", e>>
  /\ \A e \in Events : Append(<<"nodeStart", "nodeFinish">>, e) = <<"nodeStart", "nodeFinish", e>>
<1>1. \A e \in Events : Append(<<>>, e) = <<e>>
  OBVIOUS
<1>2. "nodeStart" \in Events /\ "nodeFinish" \in Events
  BY DEF Events
<1>. QED BY <1>1, <1>2, AppendToOne, AppendToTwo

(* The events of a node that has begun or ended, with one more. *)
LEMMA NextEvent ==
  ASSUME NEW e \in Events, events' = Append(events, e)
  PROVE  /\ events = <<>> => events' = <<e>>
         /\ events = <<"nodeStart">> => events' = <<"nodeStart", e>>
         /\ events = <<"nodeStart", "nodeFinish">> => events' = <<"nodeStart", "nodeFinish", e>>
BY Appended, Zenon

(* A step that leaves the items alone keeps all that is about them, if no
   item was under way or the stage stays what it is. *)
LEMMA ItemsKept ==
  ASSUME IInv, UNCHANGED <<nodeVars, itemVars, aborted>>,
         isPaused' \in BOOLEAN, errored' \in BOOLEAN, terminal' \in BOOLEAN,
         queuesOutputs' \in BOOLEAN, stage' \in Stages,
         \/ stage' = stage
         \/ stage' \notin {"new", "starting"} /\ ItemsIn(Active) = {}
         \/ stage = "new" /\ stage' = "starting"
  PROVE  TypeOK' /\ ItemsInv' /\ AbortReachesItems'
<1>1. \A states : ItemsIn(states)' = ItemsIn(states)
  BY DEF ItemsIn, itemVars
<1>2. TypeOK'
  <2>1. TypeOK /\ UNCHANGED <<mode, item, nodeAbortControllers, signalled, endedLate, aborted>>
    BY DEF IInv, nodeVars, itemVars
  <2>2. Cardinality(ItemsIn(Active)') <= AtATime'
    BY <1>1, <2>1, BoundKept
  <2>. QED BY <2>1, <2>2, Types DEF TypeOK, AtATime
<1>3. ItemsInv'
  BY <1>1 DEF IInv, ItemsInv, nodeVars, itemVars
<1>4. AbortReachesItems'
  BY <1>1 DEF IInv, AbortReachesItems, IsAborted, itemVars
<1>. QED BY <1>2, <1>3, <1>4

(* An error ends the node with its one event; the outputs that it has are
   those it had. *)
LEMMA ErroredStep ==
  ASSUME IInv, NEW abortLike \in BOOLEAN, NodeErrored(abortLike),
         UNCHANGED <<nodeVars, itemVars, hostVars>>, ItemsIn(Active) = {},
         stage \in {"new", "items", "finishing"}, stage = "finishing" => ~ abortLike,
         abortLike /\ aborted = "successful" /\ ItemsIn({"error"}) # {} =>
           mode = "sequential" /\ ItemsIn({"queued"}) # {}
  PROVE  IInv'
<1>1. \A states : ItemsIn(states)' = ItemsIn(states)
  BY DEF ItemsIn, itemVars
<1>2. TypeOK /\ StageInv
  BY DEF IInv
<1>3. CASE abortLike /\ aborted = "successful"
  <2>1. /\ stage' = "excluding" /\ terminal' = TRUE /\ nodeResults' = "excluded"
        /\ events' = Append(events, "nodeExcluded") /\ UNCHANGED <<errored, queuesOutputs>>
    BY <1>3 DEF NodeErrored, Emit
  <2>2. TypeOK' /\ ItemsInv' /\ AbortReachesItems'
    BY <1>2, <2>1, ItemsKept, Types DEF hostVars, Stages
  <2>3. Excluded'
    <3>1. events' \in {<<"nodeExcluded">>, <<"nodeStart", "nodeExcluded">>} /\ ~ errored
      <4>1. (events = <<>> \/ events = <<"nodeStart">>) /\ ~ errored
        BY <1>2, <1>3 DEF StageInv, Begun
      <4>2. events' = <<"nodeExcluded">> \/ events' = <<"nodeStart", "nodeExcluded">>
        BY <2>1, <4>1, NextEvent DEF Events
      <4>. QED BY <4>1, <4>2
    <3>. QED BY <2>1, <3>1 DEF Excluded
  <2>4. StageInv' /\ OutputsInv'
    BY <2>1, <2>3 DEF StageInv, OutputsInv
  <2>5. ExclusionInv'
    BY <1>1, <1>3 DEF ExclusionInv, hostVars, nodeVars
  <2>6. LateInv'
    BY <1>1, <2>1 DEF IInv, LateInv, IsAborted, itemVars, hostVars
  <2>. QED BY <2>2, <2>4, <2>5, <2>6 DEF IInv
<1>4. CASE ~ (abortLike /\ aborted = "successful")
  <2>1. /\ stage' = "erroring" /\ errored' = TRUE /\ events' = Append(events, "nodeError")
        /\ UNCHANGED <<nodeResults, terminal, queuesOutputs>>
    BY <1>4 DEF NodeErrored, Emit
  <2>2. TypeOK' /\ ItemsInv' /\ AbortReachesItems'
    BY <1>2, <2>1, ItemsKept, Types DEF hostVars, Stages
  <2>3. Erred'
    <3>1. CASE stage \in {"new", "items"}
      <4>1. (events = <<>> \/ events = <<"nodeStart">>) /\ nodeResults = "none"
        BY <1>2, <3>1 DEF StageInv, Begun
      <4>2. events' = <<"nodeError">> \/ events' = <<"nodeStart", "nodeError">>
        BY <2>1, <4>1, NextEvent DEF Events
      <4>. QED BY <2>1, <4>1, <4>2 DEF Erred
    <3>2. CASE stage = "finishing"
      <4>1. events = <<"nodeStart", "nodeFinish">> /\ nodeResults = "outputs"
        BY <1>2, <3>2 DEF StageInv, Finished
      <4>2. events' = <<"nodeStart", "nodeFinish", "nodeError">>
        BY <2>1, <4>1, NextEvent DEF Events
      <4>. QED BY <2>1, <4>1, <4>2 DEF Erred
    <3>. QED BY <3>1, <3>2
  <2>4. StageInv'
    BY <2>1, <2>3 DEF StageInv
  <2>5. OutputsInv'
    BY <1>1, <2>1 DEF IInv, OutputsInv, nodeVars
  <2>6. ExclusionInv'
    BY <1>1, <2>1 DEF IInv, ExclusionInv, hostVars, nodeVars
  <2>7. LateInv'
    BY <1>1, <2>1 DEF IInv, LateInv, IsAborted, itemVars, hostVars
  <2>. QED BY <2>2, <2>4, <2>5, <2>6, <2>7 DEF IInv
<1>. QED BY <1>3, <1>4

(* Before its items, a node has none under way and none that failed. *)
LEMMA NothingBegun ==
  ASSUME IInv, stage \in {"new", "starting"}
  PROVE  ItemsIn(Active) = {} /\ ItemsIn({"error"}) = {}
BY DEF IInv, ItemsInv, ItemsIn, Active, AtGate

LEMMA ProcessNodeStep ==
  ASSUME IInv, ProcessNode
  PROVE  IInv'
<1>1. stage = "new" /\ UNCHANGED <<nodeVars, itemVars, hostVars>>
  BY DEF ProcessNode
<1>2. ItemsIn(Active) = {} /\ ItemsIn({"error"}) = {}
  BY <1>1, NothingBegun
<1>3. CASE IsAborted
  <2>1. NodeErrored(TRUE)
    BY <1>3 DEF ProcessNode
  <2>. QED BY <1>1, <1>2, <2>1, ErroredStep
<1>4. CASE ~ IsAborted
  <2>1. /\ stage' = "starting" /\ events' = Append(events, "nodeStart")
        /\ UNCHANGED <<nodeResults, errored, terminal, queuesOutputs>>
    BY <1>4 DEF ProcessNode, Emit
  <2>2. TypeOK' /\ ItemsInv' /\ AbortReachesItems'
    BY <1>1, <2>1, ItemsKept, Types DEF IInv, hostVars, Stages
  <2>3. StageInv' /\ OutputsInv' /\ ExclusionInv'
    <3>1. events = <<>> /\ nodeResults = "none" /\ ~ errored
      BY <1>1 DEF IInv, StageInv
    <3>2. events' = <<"nodeStart">>
      BY <2>1, <3>1, NextEvent DEF Events
    <3>. QED BY <2>1, <3>1, <3>2 DEF StageInv, Begun, OutputsInv, ExclusionInv
  <2>4. LateInv'
    BY <1>1, <2>1 DEF IInv, LateInv, IsAborted, ItemsIn, itemVars, hostVars
  <2>. QED BY <2>2, <2>3, <2>4 DEF IInv
<1>. QED BY <1>3, <1>4

LEMMA StartEventStep ==
  ASSUME IInv, NodeStartEmitted \/ NodeStartListenerThrew
  PROVE  IInv'
<1>1. /\ stage = "starting" /\ stage' \in {"items", "rejected"}
      /\ UNCHANGED <<nodeVars, itemVars, hostVars, outcomeVars>>
  BY DEF NodeStartEmitted, NodeStartListenerThrew
<1>2. ItemsIn(Active) = {}
  BY <1>1, NothingBegun
<1>3. TypeOK' /\ ItemsInv' /\ AbortReachesItems'
  BY <1>1, <1>2, ItemsKept, Types DEF IInv, hostVars, outcomeVars, Stages
<1>4. StageInv' /\ OutputsInv' /\ ExclusionInv'
  BY <1>1 DEF IInv, StageInv, Begun, OutputsInv, ExclusionInv, outcomeVars
<1>5. LateInv'
  BY <1>1 DEF IInv, LateInv, IsAborted, ItemsIn, itemVars, hostVars, outcomeVars
<1>. QED BY <1>3, <1>4, <1>5 DEF IInv

LEMMA CollectResultsStep ==
  ASSUME IInv, CollectResults
  PROVE  IInv'
<1>1. /\ stage = "items" /\ AllSettled /\ UNCHANGED <<nodeVars, itemVars, hostVars>>
      /\ ItemsIn({"queued"} \cup Active) = {}
  BY DEF CollectResults, AllSettled
<1>2. ItemsIn(Active) = {}
  BY <1>1 DEF ItemsIn
<1>3. CASE Failures = {}
  <2>1. /\ stage' = "finishing" /\ nodeResults' = "outputs" /\ events' = Append(events, "nodeFinish")
        /\ UNCHANGED <<errored, terminal, queuesOutputs>>
    BY <1>3 DEF CollectResults, Emit
  <2>2. TypeOK' /\ ItemsInv' /\ AbortReachesItems'
    BY <1>1, <1>2, <2>1, ItemsKept, Types DEF IInv, hostVars, Stages
  <2>3. events = <<"nodeStart">> /\ ~ errored
    BY <1>1 DEF IInv, StageInv, Begun
  <2>4. events' = <<"nodeStart", "nodeFinish">>
    BY <2>1, <2>3, NextEvent DEF Events
  <2>5. StageInv'
    BY <2>1, <2>3, <2>4 DEF StageInv, Finished
  <2>6. OutputsInv'
    <3>1. item \in [Item -> ItemStates] /\ splittingAmount \in 0 .. SplitRunMax
      BY Types DEF IInv, ItemsInv
    <3>2. \A i \in Item : item[i] = "none" \/ item[i] = "output"
      BY <1>1, <1>3, <3>1 DEF Failures, ItemsIn, ItemStates, Settled
    <3>3. \A i \in Item : item[i] = "output" <=> i <= splittingAmount
      <4>1. \A i \in Item : item[i] = "none" <=> i > splittingAmount
        BY DEF IInv, ItemsInv
      <4>. QED BY <3>1, <3>2, <4>1, Constants
    <3>4. ItemsIn({"output"}) = 1 .. splittingAmount
      BY <3>1, <3>3, Constants DEF ItemsIn
    <3>. QED BY <1>1, <3>4 DEF OutputsInv, ItemsIn, nodeVars, itemVars
  <2>7. ExclusionInv'
    BY <2>1 DEF ExclusionInv
  <2>8. LateInv'
    BY <1>1, <2>1 DEF IInv, LateInv, IsAborted, ItemsIn, itemVars, hostVars
  <2>. QED BY <2>2, <2>5, <2>6, <2>7, <2>8 DEF IInv
<1>4. CASE Failures # {}
  <2>1. NodeErrored(OnlyAborted) /\ OnlyAborted \in BOOLEAN
    BY <1>4 DEF CollectResults, OnlyAborted
  <2>2. OnlyAborted => ItemsIn({"error"}) = {}
    BY DEF OnlyAborted
  <2>3. PICK abortLike \in BOOLEAN : abortLike = OnlyAborted
    BY <2>1
  <2>4. NodeErrored(abortLike)
    BY <2>1, <2>3
  <2>. QED BY <1>1, <1>2, <2>2, <2>3, <2>4, ErroredStep
<1>. QED BY <1>3, <1>4

LEMMA FinishListenerStep ==
  ASSUME IInv, NodeFinishListenerThrew
  PROVE  IInv'
<1>1. stage = "finishing" /\ NodeErrored(FALSE) /\ UNCHANGED <<nodeVars, itemVars, hostVars>>
  BY DEF NodeFinishListenerThrew
<1>2. ItemsIn(Active) = {}
  BY <1>1 DEF IInv, ItemsInv
<1>. QED BY <1>1, <1>2, ErroredStep

LEMMA TerminalEmittedStep ==
  ASSUME IInv, TerminalEmitted
  PROVE  IInv'
<1>1. /\ stage \in {"finishing", "erroring", "excluding"} /\ stage' = "settled"
      /\ queuesOutputs' = (~ terminal /\ Head(events) = "nodeStart")
      /\ UNCHANGED <<nodeVars, itemVars, hostVars, nodeResults, errored, terminal, events>>
  BY DEF TerminalEmitted
<1>2. ItemsIn(Active) = {}
  BY <1>1 DEF IInv, ItemsInv
<1>3. TypeOK' /\ ItemsInv' /\ AbortReachesItems'
  BY <1>1, <1>2, ItemsKept, Types DEF IInv, hostVars, Stages
<1>4. StageInv'
  <2>1. Finished \/ Excluded \/ Erred
    BY <1>1 DEF IInv, StageInv
  <2>2. (Finished \/ Excluded \/ Erred)'
    BY <1>1, <2>1 DEF Finished, Excluded, Erred
  <2>. QED BY <1>1, <2>2 DEF StageInv
<1>5. OutputsInv' /\ ExclusionInv'
  BY <1>1 DEF IInv, OutputsInv, ExclusionInv, ItemsIn, nodeVars, itemVars, hostVars
<1>6. LateInv'
  BY <1>1 DEF IInv, LateInv, IsAborted, ItemsIn, itemVars, hostVars
<1>. QED BY <1>3, <1>4, <1>5, <1>6 DEF IInv

(* A step of one item, which has a controller while it is under way. *)
LEMMA ItemStep ==
  ASSUME IInv, stage = "items", NEW i \in Item, item[i] # "none",
         NEW s \in ItemStates \ {"none"}, item' = [item EXCEPT ![i] = s],
         UNCHANGED <<nodeVars, stage, hostVars, nodeResults, errored, queuesOutputs, events>>,
         nodeAbortControllers' \in SUBSET Item, signalled' \in SUBSET Item,
         endedLate' \in SUBSET Item, terminal' \in BOOLEAN,
         nodeAbortControllers \ {i} \subseteq nodeAbortControllers',
         signalled \subseteq signalled',
         s \in Active =>
           /\ i \in nodeAbortControllers'
           /\ IsAborted => i \in signalled'
           /\ item[i] \in Active \/ Cardinality(ItemsIn(Active)) < AtATime,
         LateInv'
  PROVE  IInv'
<1>1. item \in [Item -> ItemStates] /\ TypeOK
  BY Types DEF IInv
<1>2. /\ s \in Active => ItemsIn(Active)' = ItemsIn(Active) \cup {i}
      /\ s \notin Active => ItemsIn(Active)' = ItemsIn(Active) \ {i}
  BY <1>1, ItemsOfUpdate DEF Active, AtGate
<1>3. TypeOK'
  <2>1. IsFiniteSet(ItemsIn(Active)) /\ Cardinality(ItemsIn(Active)) \in Nat
    BY Constants, FS_Subset, FS_CardinalityType DEF ItemsIn
  <2>2. Cardinality(ItemsIn(Active)') <= AtATime'
    <3>1. CASE ItemsIn(Active)' \subseteq ItemsIn(Active)
      BY <1>1, <3>1, BoundKept DEF nodeVars
    <3>2. CASE ~ (ItemsIn(Active)' \subseteq ItemsIn(Active))
      <4>1. s \in Active /\ ItemsIn(Active)' = ItemsIn(Active) \cup {i} /\ i \notin ItemsIn(Active)
        BY <1>2, <3>2
      <4>2. Cardinality(ItemsIn(Active)) < AtATime
        BY <4>1 DEF ItemsIn
      <4>3. Cardinality(ItemsIn(Active)') = Cardinality(ItemsIn(Active)) + 1
        BY <2>1, <4>1, FS_AddElement
      <4>. QED BY <2>1, <4>2, <4>3, Constants DEF AtATime, nodeVars
    <3>. QED BY <3>1, <3>2
  <2>3. item' \in [Item -> ItemStates]
    BY <1>1
  <2>4. UNCHANGED <<mode, stage, isPaused, aborted, errored, queuesOutputs>>
    BY DEF nodeVars, hostVars
  <2>. QED BY <1>1, <2>2, <2>3, <2>4, Types DEF TypeOK, AtATime, ItemStates
<1>4. ItemsInv'
  <2>1. \A j \in Item : item'[j] = "none" <=> item[j] = "none"
    BY <1>1
  <2>2. ItemsIn(Active) \subseteq nodeAbortControllers
    BY DEF IInv, ItemsInv
  <2>3. ItemsIn(Active)' \subseteq nodeAbortControllers'
    BY <1>2, <2>2
  <2>. QED BY <2>1, <2>3 DEF IInv, ItemsInv, nodeVars
<1>5. AbortReachesItems'
  BY <1>2 DEF IInv, AbortReachesItems, IsAborted, hostVars
<1>6. StageInv'
  BY DEF IInv, StageInv, Begun
<1>7. OutputsInv' /\ ExclusionInv'
  BY DEF IInv, StageInv, Begun, OutputsInv, ExclusionInv
<1>. QED BY <1>3, <1>4, <1>5, <1>6, <1>7 DEF IInv

LEMMA TakeItemStep ==
  ASSUME IInv, NEW i \in Item, TakeItem(i)
  PROVE  IInv'
<1>1. /\ stage = "items" /\ item[i] = "queued" /\ UNCHANGED <<nodeVars, hostVars>>
      /\ IF mode = "parallel" THEN HasFreeSlot ELSE ItemsIn(Active) = {}
  BY DEF TakeItem, IsNext
<1>2. TypeOK /\ item \in [Item -> ItemStates] /\ i \in ItemsIn({"queued"})
  BY <1>1, Types DEF IInv, ItemsIn
<1>3. i \notin endedLate \/ ~ (aborted = "successful" /\ ~ terminal)
  BY <1>1 DEF IInv, LateInv, ItemsIn
<1>4. CASE StartItem(i)
  <2>1. PICK s \in {"paused", "running"} : item' = [item EXCEPT ![i] = s]
    BY <1>4 DEF StartItem
  <2>2. s \in ItemStates \ {"none"} /\ s \in Active /\ s \notin {"error", "aborted"}
    BY <2>1 DEF ItemStates, Active, AtGate
  <2>3. Cardinality(ItemsIn(Active)) < AtATime
    BY <1>1, FS_EmptySet DEF HasFreeSlot, AtATime
  <2>4. /\ UNCHANGED <<stage, endedLate, outcomeVars>>
        /\ nodeAbortControllers' = nodeAbortControllers \cup {i}
        /\ signalled' = IF IsAborted THEN signalled \cup {i} ELSE signalled
    BY <1>4 DEF StartItem
  <2>5. /\ nodeAbortControllers' \in SUBSET Item /\ signalled' \in SUBSET Item
        /\ endedLate' \in SUBSET Item /\ terminal' \in BOOLEAN
    BY <1>2, <2>4, Types DEF outcomeVars
  <2>6. LateInv'
    <3>1. ItemsIn({"error", "aborted"})' = ItemsIn({"error", "aborted"}) \ {i}
      BY <1>2, <2>1, <2>2, ItemsOfUpdate
    <3>. QED BY <1>1, <1>3, <2>4, <3>1 DEF IInv, LateInv, IsAborted, hostVars, outcomeVars
  <2>. QED BY <1>1, <2>1, <2>2, <2>3, <2>4, <2>5, <2>6, ItemStep DEF outcomeVars
<1>5. CASE IsAborted /\ mode = "sequential" /\ NodeErrored(TRUE) /\ UNCHANGED itemVars
  <2>1. ItemsIn(Active) = {} /\ ItemsIn({"queued"}) # {}
    BY <1>1, <1>2, <1>5
  <2>. QED BY <1>1, <1>5, <2>1, ErroredStep
<1>6. CASE /\ item' = [item EXCEPT ![i] = "aborted"]
           /\ UNCHANGED <<stage, nodeAbortControllers, signalled, endedLate, outcomeVars>>
  <2>1. "aborted" \in ItemStates \ {"none"} /\ "aborted" \notin Active
    BY DEF ItemStates, Settled, Active, AtGate
  <2>2. /\ nodeAbortControllers' \in SUBSET Item /\ signalled' \in SUBSET Item
        /\ endedLate' \in SUBSET Item /\ terminal' \in BOOLEAN
    BY <1>2, <1>6, Types DEF outcomeVars
  <2>3. LateInv'
    <3>1. ItemsIn({"error", "aborted"})' = ItemsIn({"error", "aborted"}) \cup {i}
      BY <1>2, <1>6, ItemsOfUpdate
    <3>. QED BY <1>1, <1>6, <3>1 DEF IInv, LateInv, IsAborted, hostVars, outcomeVars
  <2>. QED BY <1>1, <1>6, <2>1, <2>2, <2>3, ItemStep DEF outcomeVars
<1>. QED BY <1>4, <1>5, <1>6 DEF TakeItem

(* An item that ends: only outputs that come after a successful abort mark the
   node, and those come from an item that was signalled. *)
LEMMA EndItemStep ==
  ASSUME IInv, NEW i \in Item, item[i] \in Active,
         NEW result \in Settled, EndItem(i, result),
         terminal' = terminal \/ terminal' = TRUE,
         result = "output" /\ aborted = "successful" => terminal'
  PROVE  IInv'
<1>1. stage = "items" /\ TypeOK /\ item \in [Item -> ItemStates] /\ item[i] # "none"
  BY Types DEF IInv, ItemsInv, ItemsIn, Active, AtGate
<1>2. /\ item' = [item EXCEPT ![i] = result]
      /\ nodeAbortControllers' = nodeAbortControllers \ {i}
      /\ endedLate' = IF IsAborted THEN endedLate \cup {i} ELSE endedLate
      /\ UNCHANGED <<nodeVars, stage, signalled, hostVars, nodeResults, errored, queuesOutputs, events>>
  BY DEF EndItem, Unregister
<1>3. /\ result \in ItemStates \ {"none"} /\ result \notin Active
      /\ result # "output" => result \in {"error", "aborted"}
  BY DEF ItemStates, Settled, Active, AtGate
<1>4. /\ nodeAbortControllers' \in SUBSET Item /\ signalled' \in SUBSET Item
      /\ endedLate' \in SUBSET Item /\ terminal' \in BOOLEAN
  BY <1>1, <1>2, Types
<1>5. LateInv'
  <2>1. aborted' = aborted
    BY <1>2 DEF hostVars
  <2>2. ~ IsAborted' => endedLate' = {}
    BY <1>2, <2>1 DEF IInv, LateInv, IsAborted
  <2>3. aborted' = "successful" /\ ~ terminal' => endedLate' \subseteq ItemsIn({"error", "aborted"})'
    <3>. SUFFICES ASSUME aborted = "successful", ~ terminal'
                  PROVE  endedLate' \subseteq ItemsIn({"error", "aborted"})'
      BY <2>1
    <3>1. result \in {"error", "aborted"} /\ ~ terminal
      BY <1>3
    <3>2. ItemsIn({"error", "aborted"})' = ItemsIn({"error", "aborted"}) \cup {i}
      BY <1>1, <1>2, <3>1, ItemsOfUpdate
    <3>. QED BY <1>2, <3>1, <3>2 DEF IInv, LateInv
  <2>. QED BY <1>1, <1>2, <2>2, <2>3 DEF LateInv
<1>. QED BY <1>1, <1>2, <1>3, <1>4, <1>5, ItemStep

LEMMA ItemEndsStep ==
  ASSUME IInv, NEW i \in Item, GateAborted(i) \/ ItemEnds(i)
  PROVE  IInv'
<1>1. CASE GateAborted(i) \/ ItemThrows(i) \/ ItemStops(i)
  <2>1. PICK result \in {"aborted", "error"} : EndItem(i, result)
    BY <1>1 DEF GateAborted, ItemThrows, ItemStops
  <2>2. item[i] \in Active /\ terminal' = terminal /\ result \in Settled
    BY <1>1 DEF GateAborted, ItemThrows, ItemStops, Active, Settled
  <2>. QED BY <2>1, <2>2, EndItemStep
<1>2. CASE ItemReturns(i)
  <2>1. PICK result \in {"aborted", "output"} :
          result = IF i \in signalled /\ aborted = "failed" THEN "aborted" ELSE "output"
    OBVIOUS
  <2>2. /\ EndItem(i, result) /\ item[i] \in Active /\ result \in Settled
        /\ terminal' = (terminal \/ (i \in signalled /\ aborted = "successful"))
    BY <1>2, <2>1 DEF ItemReturns, Active, Settled
  <2>3. aborted = "successful" => i \in signalled
    BY <2>2 DEF IInv, AbortReachesItems, IsAborted, ItemsIn
  <2>4. terminal \in BOOLEAN
    BY Types DEF IInv
  <2>. QED BY <2>1, <2>2, <2>3, <2>4, EndItemStep
<1>. QED BY <1>1, <1>2 DEF ItemEnds

LEMMA GateOpenedStep ==
  ASSUME IInv, NEW i \in Item, GateOpened(i)
  PROVE  IInv'
<1>1. /\ item[i] = "released" /\ ~ IsAborted /\ item' = [item EXCEPT ![i] = "running"]
      /\ UNCHANGED <<nodeVars, stage, nodeAbortControllers, signalled, endedLate, hostVars, outcomeVars>>
  BY DEF GateOpened
<1>2. i \in ItemsIn(Active) /\ "running" \in Active /\ "running" \in ItemStates \ {"none"}
  BY <1>1 DEF ItemsIn, Active, AtGate, ItemStates
<1>3. /\ stage = "items" /\ TypeOK /\ i \in nodeAbortControllers
      /\ item[i] \in Active
  BY <1>2 DEF IInv, ItemsInv, ItemsIn
<1>4. /\ nodeAbortControllers' \in SUBSET Item /\ signalled' \in SUBSET Item
      /\ endedLate' \in SUBSET Item /\ terminal' \in BOOLEAN
  BY <1>1, <1>3, Types DEF outcomeVars
<1>5. LateInv'
  BY <1>1, <1>3 DEF IInv, LateInv, IsAborted, hostVars, outcomeVars
<1>. QED BY <1>1, <1>2, <1>3, <1>4, <1>5, ItemStep DEF outcomeVars

LEMMA AbortStep ==
  ASSUME IInv, Abort
  PROVE  IInv'
<1>1. /\ IsOn /\ aborted = "no" /\ aborted' \in {"failed", "successful"}
      /\ signalled' = signalled \cup nodeAbortControllers
      /\ UNCHANGED <<nodeVars, stage, item, nodeAbortControllers, endedLate, isPaused, outcomeVars>>
  BY DEF Abort, IsAborted
<1>2. \A states : ItemsIn(states)' = ItemsIn(states)
  BY <1>1 DEF ItemsIn
<1>3. TypeOK'
  <2>1. TypeOK /\ mode' = mode
    BY <1>1 DEF IInv, nodeVars
  <2>2. Cardinality(ItemsIn(Active)') <= AtATime'
    BY <1>2, <2>1, BoundKept
  <2>. QED BY <1>1, <2>1, <2>2, Types DEF TypeOK, AtATime, outcomeVars
<1>4. ItemsInv'
  BY <1>1, <1>2 DEF IInv, ItemsInv, nodeVars
<1>5. AbortReachesItems'
  BY <1>1, <1>2 DEF IInv, ItemsInv, AbortReachesItems
<1>6. StageInv'
  BY <1>1 DEF IInv, StageInv, Begun, Finished, Excluded, Erred, outcomeVars
<1>7. OutputsInv' /\ ExclusionInv'
  BY <1>1, <1>2 DEF IInv, OutputsInv, ExclusionInv, nodeVars, outcomeVars
<1>8. LateInv'
  <2>1. endedLate' = {}
    BY <1>1 DEF IInv, LateInv, IsAborted
  <2>. QED BY <1>1, <2>1 DEF LateInv, IsOn, IsAborted
<1>. QED BY <1>3, <1>4, <1>5, <1>6, <1>7, <1>8 DEF IInv

LEMMA PauseStep ==
  ASSUME IInv, Pause
  PROVE  IInv'
<1>1. isPaused' = TRUE /\ UNCHANGED <<nodeVars, stage, itemVars, aborted, outcomeVars>>
  BY DEF Pause
<1>2. TypeOK' /\ ItemsInv' /\ AbortReachesItems'
  BY <1>1, ItemsKept, Types DEF IInv, outcomeVars
<1>3. StageInv' /\ OutputsInv' /\ ExclusionInv'
  BY <1>1 DEF IInv, StageInv, Begun, Finished, Excluded, Erred, OutputsInv, ExclusionInv,
              ItemsIn, itemVars, nodeVars, outcomeVars
<1>4. LateInv'
  BY <1>1 DEF IInv, LateInv, IsAborted, ItemsIn, itemVars, outcomeVars
<1>. QED BY <1>2, <1>3, <1>4 DEF IInv

LEMMA ResumeStep ==
  ASSUME IInv, Resume
  PROVE  IInv'
<1>1. /\ isPaused' = FALSE
      /\ item' = [i \in Item |-> IF item[i] = "paused" THEN "released" ELSE item[i]]
      /\ UNCHANGED <<nodeVars, stage, nodeAbortControllers, signalled, endedLate, aborted, outcomeVars>>
  BY DEF Resume
<1>2. TypeOK /\ item \in [Item -> ItemStates] /\ item' \in [Item -> ItemStates]
  <2>1. "released" \in ItemStates
    BY DEF ItemStates, Active, AtGate
  <2>. QED BY <1>1, <2>1, Types DEF IInv
<1>3. ItemsIn(Active)' = ItemsIn(Active)
  BY <1>1 DEF ItemsIn, Active, AtGate
<1>4. /\ ItemsIn({"output"})' = ItemsIn({"output"}) /\ ItemsIn({"error"})' = ItemsIn({"error"})
      /\ ItemsIn({"queued"})' = ItemsIn({"queued"})
      /\ ItemsIn({"error", "aborted"})' = ItemsIn({"error", "aborted"})
  BY <1>1 DEF ItemsIn
<1>5. TypeOK'
  <2>1. mode' = mode
    BY <1>1 DEF nodeVars
  <2>2. Cardinality(ItemsIn(Active)') <= AtATime'
    BY <1>2, <1>3, <2>1, BoundKept
  <2>. QED BY <1>1, <1>2, <2>1, <2>2, Types DEF TypeOK, AtATime, ItemStates, outcomeVars
<1>6. ItemsInv'
  <2>1. \A i \in Item : /\ item'[i] = "none" <=> item[i] = "none"
                        /\ item[i] \in {"none", "queued"} => item'[i] = item[i]
    BY <1>1
  <2>. QED BY <1>1, <1>3, <2>1 DEF IInv, ItemsInv, nodeVars
<1>7. AbortReachesItems'
  BY <1>1, <1>3 DEF IInv, AbortReachesItems, IsAborted
<1>8. StageInv' /\ OutputsInv' /\ ExclusionInv'
  BY <1>1, <1>4 DEF IInv, StageInv, Begun, Finished, Excluded, Erred, OutputsInv, ExclusionInv,
                    nodeVars, outcomeVars
<1>9. LateInv'
  BY <1>1, <1>4 DEF IInv, LateInv, IsAborted, outcomeVars
<1>. QED BY <1>5, <1>6, <1>7, <1>8, <1>9 DEF IInv

LEMMA StutterStep ==
  ASSUME IInv, UNCHANGED vars
  PROVE  IInv'
<1>1. UNCHANGED <<nodeVars, stage, itemVars, hostVars, outcomeVars>>
  BY DEF vars
<1>2. TypeOK' /\ ItemsInv' /\ AbortReachesItems'
  BY <1>1, ItemsKept, Types DEF IInv, hostVars, outcomeVars
<1>3. StageInv' /\ OutputsInv' /\ ExclusionInv'
  BY <1>1 DEF IInv, StageInv, Begun, Finished, Excluded, Erred, OutputsInv, ExclusionInv,
              ItemsIn, itemVars, hostVars, nodeVars, outcomeVars
<1>4. LateInv'
  BY <1>1 DEF IInv, LateInv, IsAborted, ItemsIn, itemVars, hostVars, outcomeVars
<1>. QED BY <1>2, <1>3, <1>4 DEF IInv

LEMMA InitIInv == Init => IInv
<1>. SUFFICES ASSUME Init PROVE IInv
  OBVIOUS
<1>1. /\ mode \in Modes /\ stage = "new"
      /\ item = [i \in Item |-> IF i <= splittingAmount THEN "queued" ELSE "none"]
      /\ nodeAbortControllers = {} /\ signalled = {} /\ endedLate = {}
      /\ isPaused = FALSE /\ aborted = "no" /\ nodeResults = "none" /\ errored = FALSE
      /\ terminal = FALSE /\ queuesOutputs = FALSE /\ events = <<>>
  BY DEF Init, Modes
<1>2. splittingAmount \in 0 .. SplitRunMax
  <2>1. PICK longest \in 0 .. LongestArray :
          splittingAmount = IF mode = "once" THEN 1 ELSE Min({longest, SplitRunMax})
    BY DEF Init
  <2>2. longest \in Nat /\ SplitRunMax \in Nat \ {0}
    BY Constants
  <2>3. \E x \in {longest, SplitRunMax} : \A y \in {longest, SplitRunMax} : x =< y
    BY <2>2
  <2>4. Min({longest, SplitRunMax}) \in {longest, SplitRunMax}
        /\ \A y \in {longest, SplitRunMax} : Min({longest, SplitRunMax}) =< y
    BY <2>3 DEF Min
  <2>. QED BY <2>1, <2>2, <2>4
<1>3. item \in [Item -> ItemStates] /\ ItemsIn(Active) = {}
  BY <1>1 DEF ItemStates, ItemsIn, Active, AtGate
<1>4. TypeOK
  <2>1. Cardinality(ItemsIn(Active)) <= AtATime
    BY <1>3, Constants, FS_EmptySet
  <2>2. stage \in Stages
    BY <1>1 DEF Stages
  <2>. QED BY <1>1, <1>3, <2>1, <2>2, Types
<1>5. ItemsInv
  BY <1>1, <1>2, <1>3, Constants DEF ItemsInv
<1>6. StageInv /\ OutputsInv /\ ExclusionInv
  BY <1>1 DEF StageInv, OutputsInv, ExclusionInv
<1>7. LateInv /\ AbortReachesItems
  BY <1>1 DEF LateInv, AbortReachesItems, IsAborted
<1>. QED BY <1>4, <1>5, <1>6, <1>7 DEF IInv

(* What the properties say of a node that has its outcome. *)
LEMMA InvariantImplies == IInv => OutcomeIsWhole /\ AbortIsHeeded
<1>. SUFFICES ASSUME IInv PROVE OutcomeIsWhole /\ AbortIsHeeded
  OBVIOUS
<1>1. LastEventIsLast
  BY DEF IInv, ItemsInv, LastEventIsLast
<1>2. /\ stage \in {"finishing", "excluding", "erroring", "settled"} => Finished \/ Excluded \/ Erred
      /\ stage \in {"new", "starting", "items", "rejected"} => nodeResults = "none" /\ ~ errored
  BY DEF IInv, StageInv, Begun
<1>3. stage \in Stages
  BY Types DEF IInv
<1>4. /\ Len(<<"nodeStart", "nodeFinish">>) = 2 /\ Len(<<"nodeError">>) = 1
      /\ Len(<<"nodeStart", "nodeError">>) = 2
      /\ Len(<<"nodeStart", "nodeFinish", "nodeError">>) = 3
  OBVIOUS
<1>5. Erred => (nodeResults = "none" <=> Len(events) < 3)
  BY <1>4 DEF Erred
<1>6. ResultsAreWhole
  <2>1. nodeResults = "outputs" => /\ ItemsIn({"output"}) = 1 .. splittingAmount
                                   /\ errored => events = <<"nodeStart", "nodeFinish", "nodeError">>
    BY <1>2, <1>3 DEF IInv, OutputsInv, Finished, Excluded, Erred, Stages
  <2>2. stage = "settled" => (nodeResults = "none" <=> errored /\ Len(events) < 3)
    BY <1>2, <1>5 DEF Finished, Excluded, Erred
  <2>. QED BY <1>2, <2>1, <2>2 DEF ResultsAreWhole
<1>7. nodeResults = "outputs" => \A i \in Item : item[i] \in {"none", "output"}
  <2>. SUFFICES ASSUME nodeResults = "outputs", NEW i \in Item PROVE item[i] \in {"none", "output"}
    OBVIOUS
  <2>1. ItemsIn({"output"}) = 1 .. splittingAmount /\ splittingAmount \in 0 .. SplitRunMax
        /\ (item[i] = "none" <=> i > splittingAmount)
    BY DEF IInv, OutputsInv, ItemsInv
  <2>. QED BY <2>1, Constants DEF ItemsIn
<1>8. FailureIsReported
  <2>. SUFFICES ASSUME stage = "settled", ItemsIn({"error"}) # {}, ~ errored,
                       ~ (mode = "sequential" /\ aborted = "successful" /\ ItemsIn({"queued"}) # {})
                PROVE  FALSE
    BY DEF FailureIsReported
  <2>1. CASE Finished
    BY <1>7, <2>1 DEF Finished, ItemsIn
  <2>2. CASE Excluded
    BY <2>2 DEF IInv, ExclusionInv, Excluded
  <2>. QED BY <1>2, <2>1, <2>2 DEF Erred
<1>9. LateOutputsWakeNobody
  <2>. SUFFICES ASSUME stage = "settled", aborted = "successful", ~ errored, endedLate # {},
                       queuesOutputs
                PROVE  FALSE
    BY DEF LateOutputsWakeNobody
  <2>1. ~ terminal /\ endedLate \subseteq ItemsIn({"error", "aborted"})
    BY DEF IInv, LateInv
  <2>2. Finished
    BY <1>2, <2>1 DEF Excluded, Erred
  <2>. QED BY <1>7, <2>1, <2>2 DEF Finished, ItemsIn
<1>. QED BY <1>1, <1>6, <1>8, <1>9 DEF IInv, OutcomeIsWhole, AbortIsHeeded

(***************************************************************************)
(* Theorems.                                                               *)
(***************************************************************************)

(* Every step of the node, of an item of it and of the host keeps the
   invariant. *)
THEOREM ItemsInvariant == Spec => []IInv
<1>1. ASSUME IInv, [Next]_vars PROVE IInv'
  <2>1. CASE ProcessNode \/ NodeStartEmitted \/ NodeStartListenerThrew
    BY <1>1, <2>1, ProcessNodeStep, StartEventStep
  <2>2. ASSUME NEW i \in Item, TakeItem(i) \/ GateOpened(i) \/ GateAborted(i) \/ ItemEnds(i)
        PROVE  IInv'
    BY <1>1, <2>2, TakeItemStep, GateOpenedStep, ItemEndsStep
  <2>3. CASE CollectResults \/ NodeFinishListenerThrew \/ TerminalEmitted
    BY <1>1, <2>3, CollectResultsStep, FinishListenerStep, TerminalEmittedStep
  <2>4. CASE Abort \/ Pause \/ Resume
    BY <1>1, <2>4, AbortStep, PauseStep, ResumeStep
  <2>5. CASE Done \/ UNCHANGED vars
    BY <1>1, <2>5, StutterStep DEF Done
  <2>. QED BY <1>1, <2>1, <2>2, <2>3, <2>4, <2>5 DEF Next, NodeStep
<1>. QED BY InitIInv, <1>1, PTL DEF Spec

(* What the node leaves behind is of one piece, for every number of items in
   turn or in parallel and whatever fails: no more items at a time than the
   bound, nothing under way after the last event, outputs only of all items,
   and no failure that is hidden by the other items. *)
THEOREM SplitRunIsWhole == Spec => []OutcomeIsWhole
BY ItemsInvariant, InvariantImplies, PTL

(* An abort at any moment reaches every item under way, however many have come
   and gone under the node's id, and no output that comes after it wakes a
   reader. *)
THEOREM AbortReachesEveryItem == Spec => []AbortIsHeeded
BY ItemsInvariant, InvariantImplies, PTL
=============================================================================
