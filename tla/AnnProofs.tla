----------------------------- MODULE AnnProofs -----------------------------
(***************************************************************************)
(* What holds of the neural network engine for all variables, settings and *)
(* trainings: its types and counters, its lists of variables, and the      *)
(* networks in its cache.                                                  *)
(*                                                                         *)
(* What its directory holds, for a cache of any size and any number of     *)
(* saves: however a save is cut short, what is read back comes from one    *)
(* save, in its order, and what a save that succeeded wrote stays.         *)
(***************************************************************************)
EXTENDS AnnEngine, AnnFiles, SeqLemmas, SequenceTheorems, TLAPS

\* What RemoveAt of the community modules leaves.
LEMMA RemoveAtProperties ==
    ASSUME NEW S, NEW s \in Seq(S), NEW i \in 1..Len(s)
    PROVE  /\ RemoveAt(s, i) \in Seq(S)
           /\ Len(RemoveAt(s, i)) = Len(s) - 1
           /\ \A j \in 1..i - 1 : RemoveAt(s, i)[j] = s[j]
           /\ \A j \in i..Len(s) - 1 : RemoveAt(s, i)[j] = s[j + 1]
<1>1. RemoveAt(s, i) = Cut(s, i)
  BY DEF RemoveAt, Cut
<1> QED BY <1>1, CutProperties

\* What ToSet of the community modules has.
LEMMA ToSetEmpty ==
    ASSUME NEW S, NEW s \in Seq(S)
    PROVE  /\ ToSet(s) \subseteq S
           /\ ToSet(s) = {} <=> s = <<>>
           /\ s # <<>> => s[1] \in ToSet(s)
<1>1. ToSet(s) = Held(s)
  BY DEF ToSet, Held
<1> QED BY <1>1, HeldEmpty

LEMMA ToSetAppend ==
    ASSUME NEW S, NEW s \in Seq(S), NEW e \in S
    PROVE  ToSet(Append(s, e)) = ToSet(s) \cup {e}
<1>1. ToSet(s) = Held(s) /\ ToSet(Append(s, e)) = Held(Append(s, e))
  BY DEF ToSet, Held
<1> QED BY <1>1, HeldAppend

\* Taking an element out leaves elements that were there.
LEMMA ToSetRemoveAt ==
    ASSUME NEW S, NEW s \in Seq(S), NEW i \in DOMAIN s
    PROVE  /\ RemoveAt(s, i) \in Seq(S)
           /\ ToSet(RemoveAt(s, i)) \subseteq ToSet(s)
<1>1. i \in 1..Len(s) /\ DOMAIN s = 1..Len(s) /\ Len(s) \in Nat
  BY LenProperties
<1>2. /\ RemoveAt(s, i) \in Seq(S)
      /\ Len(RemoveAt(s, i)) = Len(s) - 1
      /\ \A j \in 1..i - 1 : RemoveAt(s, i)[j] = s[j]
      /\ \A j \in i..Len(s) - 1 : RemoveAt(s, i)[j] = s[j + 1]
  BY <1>1, RemoveAtProperties
<1> DEFINE r == RemoveAt(s, i)
<1>3. DOMAIN r = 1..Len(s) - 1
  BY <1>2, LenProperties
<1> HIDE DEF r
<1>4. ASSUME NEW j \in DOMAIN r PROVE r[j] \in ToSet(s)
  <2>1. j \in 1..i - 1 \/ j \in i..Len(s) - 1
    BY <1>1, <1>3, <1>4
  <2>2. CASE j \in 1..i - 1
    BY <1>1, <1>2, <2>2 DEF r, ToSet
  <2>3. CASE j \in i..Len(s) - 1
    <3>1. j + 1 \in DOMAIN s
      BY <1>1, <2>3
    <3> QED BY <1>2, <2>3, <3>1 DEF r, ToSet
  <2> QED BY <2>1, <2>2, <2>3
<1> QED BY <1>2, <1>4 DEF r, ToSet

\* The head and the elements of the tail are the elements.
LEMMA ToSetTail ==
    ASSUME NEW S, NEW s \in Seq(S), s # <<>>
    PROVE  /\ Head(s) \in ToSet(s) /\ Tail(s) \in Seq(S)
           /\ ToSet(s) = {Head(s)} \cup ToSet(Tail(s))
<1>1. /\ Len(s) \in Nat \ {0} /\ DOMAIN s = 1..Len(s)
      /\ Tail(s) \in Seq(S) /\ Len(Tail(s)) = Len(s) - 1
      /\ Head(s) = s[1]
      /\ \A j \in 1..Len(s) - 1 : Tail(s)[j] = s[j + 1]
  BY EmptySeq, LenProperties, HeadTailProperties
<1>2. DOMAIN Tail(s) = 1..Len(s) - 1
  BY <1>1, LenProperties
<1>3. ASSUME NEW j \in 1..Len(s), j # 1
      PROVE  j - 1 \in 1..Len(s) - 1 /\ s[j] = Tail(s)[j - 1]
  <2>1. j - 1 \in 1..Len(s) - 1 /\ (j - 1) + 1 = j
    BY <1>1, <1>3
  <2> QED BY <1>1, <2>1
<1>4. \A j \in 1..Len(s) - 1 : j + 1 \in 1..Len(s)
  BY <1>1
<1>5. 1 \in 1..Len(s)
  BY <1>1
<1>6. ToSet(s) \subseteq {Head(s)} \cup ToSet(Tail(s))
  <2>1. ASSUME NEW j \in DOMAIN s PROVE s[j] \in {Head(s)} \cup ToSet(Tail(s))
    <3>1. CASE j = 1
      BY <1>1, <3>1
    <3>2. CASE j # 1
      <4>1. j - 1 \in DOMAIN Tail(s) /\ s[j] = Tail(s)[j - 1]
        BY <1>1, <1>2, <1>3, <2>1, <3>2
      <4> QED BY <4>1 DEF ToSet
    <3> QED BY <3>1, <3>2
  <2> QED BY <2>1 DEF ToSet
<1>7. {Head(s)} \cup ToSet(Tail(s)) \subseteq ToSet(s)
  BY <1>1, <1>2, <1>4, <1>5 DEF ToSet
<1> QED BY <1>1, <1>6, <1>7

\* The constants, one by one.
LEMMA Constants ==
    /\ InitialRequired \in Nat \ {0} /\ DefaultCacheSize \in Nat /\ DefaultHits \in Nat
    /\ MaxRequired \in Nat /\ MaxHits \in Nat /\ MaxSlots \in Nat
    /\ RequiredArgs \subseteq Nat /\ CacheArgs \subseteq Nat /\ HitsArgs \subseteq Nat
    /\ MemoryArgs \subseteq Nat /\ LoadCounts \subseteq Nat
  BY AnnAssumption

\* The arithmetic of pool sizes and 16-bit counts stays within the naturals.
LEMMA Arithmetic ==
    ASSUME NEW m \in Nat, NEW n \in Nat
    PROVE  /\ m * n \in Nat /\ m + n \in Nat /\ m \div 2 \in Nat /\ m % U16 \in Nat
           /\ m \div 2 <= m
  BY DEF U16

\* Considering a network trained.
LEMMA ConsiderTrainedProperties ==
    ASSUME pseudo \in BOOLEAN, NEW a \in AnnRecord, NEW n \in Nat
    PROVE  ConsiderTrained(a, n) \in AnnRecord /\ ConsiderTrained(a, n).trained
<1> DEFINE c == ConsiderTrained(a, n)
<1>1. c = [a EXCEPT !.trained = TRUE, !.ci = @ \/ ~pseudo, !.required = IF pseudo THEN @ ELSE n]
  BY DEF ConsiderTrained
<1>2. (a.ci \/ ~pseudo) \in BOOLEAN
  OBVIOUS
<1>3. (IF pseudo THEN a.required ELSE n) \in Nat
  BY DEF AnnRecord
<1> QED BY <1>1, <1>2, <1>3 DEF AnnRecord

\* Training never shrinks the pool, a trained network stays trained and leaves
\* the pool alone, and a network left in training makes the pool grow.
LEMMA TrainedProperties ==
    ASSUME required \in Nat, memLimit \in Nat, pseudo \in BOOLEAN,
           NEW a \in AnnRecord, NEW n \in Nat, NEW e \in Endings, NEW vs \in Nat
    PROVE  LET r == Trained(a, n, e, vs)
           IN /\ r.ann \in AnnRecord
              /\ r.required \in Nat /\ required <= r.required
              /\ a.trained => r.ann.trained /\ r.required = required
              /\ ~r.ann.trained /\ n = required /\ required > 0 => required < r.required
<1> DEFINE suggested == Suggestion(n, e)
           tried == [a EXCEPT !.erred = TRUE, !.trained = @ \/ e # "more"]
           learnt == IF tried.trained THEN ConsiderTrained(tried, suggested) ELSE tried
           full == suggested > required /\ ~CanAlloc(vs, suggested)
           final == IF full THEN ConsiderTrained(learnt, required) ELSE learnt
           size == IF suggested > required /\ ~full /\ ~final.trained THEN suggested ELSE required
           r == Trained(a, n, e, vs)
<1>1. r.ann = final /\ r.required = size
  BY DEF Trained
<1>2. suggested \in Nat /\ (e = "more" => suggested = 2 * n)
  <2>1. n \div 2 \in Nat /\ 2 * n \in Nat
    BY Arithmetic
  <2> QED BY <2>1 DEF Suggestion, Endings
<1>3. tried \in AnnRecord /\ tried.trained = (a.trained \/ e # "more")
  <2>1. (a.trained \/ e # "more") \in BOOLEAN
    OBVIOUS
  <2> QED BY <2>1 DEF AnnRecord
<1> HIDE DEF suggested, tried
<1>4. learnt \in AnnRecord /\ (learnt.trained <=> tried.trained)
  BY <1>2, <1>3, ConsiderTrainedProperties
<1> HIDE DEF learnt
<1>5. final \in AnnRecord /\ (final.trained <=> learnt.trained \/ full)
  BY <1>4, ConsiderTrainedProperties
<1> HIDE DEF final, full
<1>6. size \in Nat /\ required <= size
  BY <1>2
<1>7. a.trained => final.trained /\ size = required
  BY <1>3, <1>4, <1>5
<1>8. ASSUME ~final.trained, n = required, required > 0 PROVE required < size
  <2>1. ~full /\ e = "more"
    BY <1>3, <1>4, <1>5, <1>8
  <2>2. suggested > required
    BY <1>2, <1>8, <2>1
  <2> QED BY <1>2, <1>8, <2>1, <2>2
<1> HIDE DEF size, r
<1>9. /\ r.ann \in AnnRecord
      /\ r.required \in Nat /\ required <= r.required
      /\ a.trained => r.ann.trained /\ r.required = required
      /\ ~r.ann.trained /\ n = required /\ required > 0 => required < r.required
  BY <1>1, <1>5, <1>6, <1>7, <1>8
<1> QED BY <1>9 DEF r
-----------------------------------------------------------------------------
(* Types *)

\* A variable taken off a list.
LEMMA WithoutProperties ==
    ASSUME NEW S, NEW s \in Seq(S), NEW v
    PROVE  Without(s, v) \in Seq(S) /\ ToSet(Without(s, v)) \subseteq ToSet(s)
<1>1. CASE v \in ToSet(s)
  <2>1. \E k \in DOMAIN s : s[k] = v
    BY <1>1 DEF ToSet
  <2> DEFINE k == CHOOSE k \in DOMAIN s : s[k] = v
  <2>2. k \in DOMAIN s
    BY <2>1
  <2> HIDE DEF k
  <2>3. RemoveAt(s, k) \in Seq(S) /\ ToSet(RemoveAt(s, k)) \subseteq ToSet(s)
    BY <2>2, ToSetRemoveAt
  <2> QED BY <1>1, <2>3 DEF Without, k
<1>2. CASE v \notin ToSet(s)
  BY <1>2 DEF Without
<1> QED BY <1>1, <1>2

\* The network store_observations trains is in the cache it trains it in.
LEMMA CacheToTrainProperties ==
    ASSUME AnnTypeOK
    PROVE  /\ CacheToTrain \in Seq(AnnRecord)
           /\ ToTrain \in DOMAIN CacheToTrain
<1>1. anns \in Seq(AnnRecord) /\ DOMAIN anns = 1..Len(anns) /\ cacheMax \in Nat
  BY LenProperties DEF AnnTypeOK
<1>2. CASE InTraining # {}
  <2>1. InTraining \subseteq DOMAIN anns
    BY <1>1 DEF InTraining, Untrained
  <2> QED BY <1>1, <1>2, <2>1 DEF CacheToTrain, ToTrain
<1>3. CASE InTraining = {}
  <2> DEFINE new == NewAnn(Len(inputs), Len(outputs))
             old == IF cacheMax # 0 /\ Len(anns) = cacheMax THEN Tail(anns) ELSE anns
  <2>1. new \in AnnRecord
    BY DEF NewAnn, AnnRecord, AnnTypeOK
  <2> HIDE DEF new
  <2>2. old \in Seq(AnnRecord)
    <3>1. CASE cacheMax # 0 /\ Len(anns) = cacheMax
      <4>1. anns # <<>>
        BY <1>1, <3>1
      <4> QED BY <1>1, <3>1, <4>1
    <3>2. CASE ~(cacheMax # 0 /\ Len(anns) = cacheMax)
      BY <1>1, <3>2
    <3> QED BY <3>1, <3>2
  <2> HIDE DEF old
  <2>3. /\ Append(old, new) \in Seq(AnnRecord)
        /\ Len(Append(old, new)) \in DOMAIN Append(old, new)
    BY <2>1, <2>2
  <2>4. CacheToTrain = Append(old, new)
    BY <1>3 DEF CacheToTrain, Put, old, new
  <2>5. ToTrain = Len(Append(old, new))
    BY <1>3, <2>4 DEF ToTrain
  <2> QED BY <2>3, <2>4, <2>5
<1> QED BY <1>2, <1>3

\* The network before training, the observations it is trained on, and what
\* comes out.
LEMMA TrainingProperties ==
    ASSUME AnnTypeOK, NEW e \in Endings, StoreAndTrain(e)
    PROVE  \E a \in AnnRecord, r \in [ann : AnnRecord, required : Nat] :
              /\ a = CacheToTrain[ToTrain]
              /\ anns' = [CacheToTrain EXCEPT ![ToTrain] = r.ann]
              /\ required' = r.required /\ required <= r.required
              /\ a.trained => r.ann.trained /\ r.required = required
              /\ ~r.ann.trained /\ required > 0 => required < r.required
              /\ cap' = IF Rehearsing(a)
                        THEN [v \in Variables |-> IF v \in Listed THEN required ELSE cap[v]]
                        ELSE Resized(Known, r.required)
              /\ idx' = IF r.ann.trained THEN Rewound(Listed) ELSE Appended
<1> DEFINE a == CacheToTrain[ToTrain]
           n == IF Rehearsing(a) THEN EXPAND_FACTOR * required ELSE required
           vs == Len(inputs) + Len(outputs) + Len(pendingAdd)
           r == Trained(a, n, e, vs)
<1>1. a \in AnnRecord
  BY CacheToTrainProperties, LenProperties, ElementOfSeq
<1>2. required \in Nat /\ memLimit \in Nat /\ pseudo \in BOOLEAN
  BY DEF AnnTypeOK
<1>3. n \in Nat /\ (~a.trained => n = required)
  BY <1>2, Arithmetic DEF Rehearsing, EXPAND_FACTOR
<1>4. vs \in Nat
  BY DEF AnnTypeOK
<1>5. /\ anns' = [CacheToTrain EXCEPT ![ToTrain] = r.ann]
      /\ required' = r.required
      /\ cap' = IF Rehearsing(a)
                THEN [v \in Variables |-> IF v \in Listed THEN required ELSE cap[v]]
                ELSE Resized(Known, r.required)
      /\ idx' = IF r.ann.trained THEN Rewound(Listed) ELSE Appended
  BY DEF StoreAndTrain
<1>6. r = [ann |-> r.ann, required |-> r.required]
  BY DEF Trained
<1> HIDE DEF a, n, vs
<1>7. /\ r.ann \in AnnRecord
      /\ r.required \in Nat /\ required <= r.required
      /\ a.trained => r.ann.trained /\ r.required = required
      /\ ~r.ann.trained /\ n = required /\ required > 0 => required < r.required
  BY <1>1, <1>2, <1>3, <1>4, TrainedProperties
<1> HIDE DEF r
<1>8. r \in [ann : AnnRecord, required : Nat]
  BY <1>6, <1>7
<1>9. ~r.ann.trained => n = required
  BY <1>3, <1>7
<1> QED BY <1>1, <1>5, <1>7, <1>8, <1>9 DEF a

\* Selecting a network keeps the cache a sequence of networks.
LEMMA SelectedType ==
    ASSUME AnnTypeOK, NEW i \in Selectable PROVE Selected(i) \in Seq(AnnRecord)
<1>1. anns \in Seq(AnnRecord) /\ i \in DOMAIN anns
  BY DEF AnnTypeOK, Selectable
<1>2. RemoveAt(anns, i) \in Seq(AnnRecord) /\ anns[i] \in AnnRecord
  BY <1>1, ToSetRemoveAt, LenProperties, ElementOfSeq
<1> QED BY <1>1, <1>2 DEF Selected, Hit

\* Calls of the client keep the types.
LEMMA ClientTypes == AnnTypeOK /\ ClientStep => AnnTypeOK'
<1> SUFFICES ASSUME AnnTypeOK, ClientStep PROVE AnnTypeOK'
  OBVIOUS
<1> USE DEF AnnTypeOK, listVars, poolVars, cacheVars, modeVars, hitVars
<1>1. ASSUME NEW v \in Variables, AddVariable(v) PROVE AnnTypeOK'
  <2>1. ObservationsLength(idx) \in Nat
    <3>1. inputs # <<>> => inputs[1] \in InputVars
      BY ToSetEmpty
    <3> QED BY <3>1 DEF ObservationsLength, Variables
  <2>2. cap' \in [Variables -> Nat] /\ idx' \in [Variables -> Nat]
    BY <1>1, <2>1 DEF AddVariable
  <2>3. inputs' \in Seq(InputVars) /\ outputs' \in Seq(OutputVars) /\ pendingAdd' \in Seq(Variables)
    <3>1. /\ inputs' \in {inputs, IF v \in InputVars THEN Append(inputs, v) ELSE inputs}
          /\ outputs' \in {outputs, IF v \in OutputVars THEN Append(outputs, v) ELSE outputs}
          /\ pendingAdd' \in {pendingAdd, Append(pendingAdd, v)}
      BY <1>1 DEF AddVariable
    <3>2. /\ v \in InputVars => Append(inputs, v) \in Seq(InputVars)
          /\ v \in OutputVars => Append(outputs, v) \in Seq(OutputVars)
          /\ Append(pendingAdd, v) \in Seq(Variables)
      OBVIOUS
    <3> QED BY <3>1, <3>2
  <2> QED BY <1>1, <2>2, <2>3 DEF AddVariable
<1>2. ASSUME NEW v \in Variables, RemoveVariable(v) PROVE AnnTypeOK'
  <2>1. Without(inputs, v) \in Seq(InputVars) /\ Without(outputs, v) \in Seq(OutputVars)
    BY WithoutProperties
  <2>2. /\ Append(pendingRemove, v) \in Seq(Variables)
        /\ freed \cup ({v} \cap Listed) \subseteq Variables
    OBVIOUS
  <2> QED BY <1>2, <2>1, <2>2 DEF RemoveVariable
<1>3. CASE EraseKnowledge
  BY <1>3 DEF EraseKnowledge
<1>4. ASSUME NEW n \in LoadCounts, Load(n) PROVE AnnTypeOK'
  <2> DEFINE one == [NewAnn(0, 0) EXCEPT !.trained = TRUE, !.loaded = TRUE, !.ci = ~pseudo,
                                         !.required = IF pseudo THEN 0 ELSE InitialRequired]
  <2>1. one \in AnnRecord
    BY Constants DEF NewAnn, AnnRecord
  <2>2. n \in Nat
    BY Constants
  <2>3. anns' = [i \in 1..n |-> one]
    BY <1>4 DEF Load
  <2> HIDE DEF one
  <2>4. anns' \in Seq(AnnRecord)
    BY ONLY <2>1, <2>2, <2>3
  <2> QED BY <1>4, <2>4 DEF Load
<1>5. ASSUME NEW n \in RequiredArgs, SetInitialRequired(n) PROVE AnnTypeOK'
  BY <1>5, Constants DEF SetInitialRequired
<1>6. ASSUME NEW n \in CacheArgs, SetCacheMaxSize(n) PROVE AnnTypeOK'
  <2> DEFINE m == n % U16
  <2>1. m \in Nat
    BY Constants, Arithmetic
  <2>2. cacheMax' = m
        /\ anns' = IF Len(anns) > m THEN SubSeq(anns, Len(anns) - m + 1, Len(anns)) ELSE anns
    BY <1>6 DEF SetCacheMaxSize
  <2> HIDE DEF m
  <2>3. Len(anns) > m => SubSeq(anns, Len(anns) - m + 1, Len(anns)) \in Seq(AnnRecord)
    BY <2>1
  <2> QED BY <1>6, <2>1, <2>2, <2>3 DEF SetCacheMaxSize
<1>7. ASSUME NEW h \in HitsArgs, SetStabilizationHits(h) PROVE AnnTypeOK'
  BY <1>7, Constants DEF SetStabilizationHits
<1>8. ASSUME NEW m \in MemoryArgs, SetMaxMemory(m) PROVE AnnTypeOK'
  BY <1>8, Constants DEF SetMaxMemory
<1>9. ASSUME NEW b \in BOOLEAN, UsePseudorehearsal(b) \/ SetLearnDisabled(b) PROVE AnnTypeOK'
  BY <1>9 DEF UsePseudorehearsal, SetLearnDisabled
<1>10. ASSUME NEW i \in Selectable, Predict(i) PROVE AnnTypeOK'
  <2>1. anns' \in Seq(AnnRecord)
    BY <1>10, SelectedType DEF Predict
  <2> QED BY <1>10, <2>1 DEF Predict
<1> QED BY <1>1, <1>2, <1>3, <1>4, <1>5, <1>6, <1>7, <1>8, <1>9, <1>10 DEF ClientStep

\* The steps of sml_process keep the types.
LEMMA ProcessTypes == AnnTypeOK /\ ProcessStep => AnnTypeOK'
<1> SUFFICES ASSUME AnnTypeOK, ProcessStep PROVE AnnTypeOK'
  OBVIOUS
<1> USE DEF AnnTypeOK, listVars, poolVars, cacheVars, modeVars, hitVars, Phases
<1>1. CASE HalvePool
  <2>1. required' \in Nat
    BY <1>1, Arithmetic DEF HalvePool
  <2> QED BY <1>1, <2>1 DEF HalvePool
<1>2. CASE AllocArrays
  BY <1>2 DEF AllocArrays
<1>3. CASE AllocRefused \/ AlreadyAllocated \/ LayoutUnchanged
  BY <1>3 DEF AllocRefused, AlreadyAllocated, LayoutUnchanged
<1>4. CASE MergeAdd
  <2>1. Head(pendingAdd) \in Variables /\ Tail(pendingAdd) \in Seq(Variables)
    BY <1>4, HeadTailProperties DEF MergeAdd
  <2>2. inputs' \in Seq(InputVars) /\ outputs' \in Seq(OutputVars)
    BY <1>4, <2>1 DEF MergeAdd
  <2> QED BY <1>4, <2>1, <2>2 DEF MergeAdd
<1>5. CASE MergeRemove
  <2>1. Head(pendingRemove) \in Variables /\ Tail(pendingRemove) \in Seq(Variables)
    BY <1>5, HeadTailProperties DEF MergeRemove
  <2>2. inputs' \in Seq(InputVars) /\ outputs' \in Seq(OutputVars)
    BY <1>5, WithoutProperties DEF MergeRemove
  <2> QED BY <1>5, <2>1, <2>2 DEF MergeRemove
<1>6. CASE LayoutRefused
  BY <1>6 DEF LayoutRefused
<1>7. CASE LayoutTrainFails
  <2>1. NewAnn(Len(inputs), Len(outputs)) \in AnnRecord
    BY DEF NewAnn, AnnRecord
  <2>2. anns' \in Seq(AnnRecord)
    BY <1>7, <2>1 DEF LayoutTrainFails
  <2> QED BY <1>7, <2>2 DEF LayoutTrainFails
<1>8. ASSUME NEW e \in Endings, LayoutChanged(e) PROVE AnnTypeOK'
  <2> DEFINE new == NewAnn(Len(inputs), Len(outputs))
             vs == Len(inputs) + Len(outputs)
             r == Trained(new, required, e, vs)
  <2>1. new \in AnnRecord
    BY DEF NewAnn, AnnRecord
  <2>2. vs \in Nat
    OBVIOUS
  <2>3. /\ anns' = <<r.ann>> /\ required' = r.required
        /\ cap' = Resized(Listed, r.required) /\ idx' = Rewound(Listed)
        /\ pc' = "reading"
        /\ UNCHANGED <<listVars, cacheMax, modeVars, hitVars>>
    BY <1>8 DEF LayoutChanged
  <2> HIDE DEF new, vs
  <2>4. r.ann \in AnnRecord /\ r.required \in Nat
    BY <2>1, <2>2, TrainedProperties
  <2> HIDE DEF r
  <2>5. anns' \in Seq(AnnRecord)
    BY <2>3, <2>4
  <2>6. cap' \in [Variables -> Nat] /\ idx' \in [Variables -> Nat]
    BY <2>3, <2>4 DEF Resized, Rewound
  <2> QED BY <2>3, <2>4, <2>5, <2>6
<1>9. CASE ReadFails
  BY <1>9 DEF ReadFails
<1>10. ASSUME NEW inChange \in BOOLEAN, NEW outChange \in BOOLEAN, Read(inChange, outChange)
       PROVE  AnnTypeOK'
  <2>1. called' \in BOOLEAN
    BY <1>10 DEF Read
  <2>2. quiet' \in Nat
    BY <1>10 DEF Read
  <2>3. hits' \in Nat
    <3> DEFINE counted == IF ~firstRun /\ (inChange \/ outChange) THEN 0 ELSE hits
    <3>1. hits' = 0 \/ hits' = (counted + 1) % U16
      BY <1>10 DEF Read, HitsAfter
    <3>2. counted + 1 \in Nat
      OBVIOUS
    <3> HIDE DEF counted
    <3>3. (counted + 1) % U16 \in Nat
      BY <3>2, Arithmetic
    <3> QED BY <3>1, <3>3
  <2>4. pc' \in Phases
    BY <1>10 DEF Read
  <2> QED BY <1>10, <2>1, <2>2, <2>3, <2>4 DEF Read
<1>11. CASE StoreDisabled \/ StoreInPool \/ StoreRefused \/ StoreKnown
  <2>1. idx' \in [Variables -> Nat]
    <3>1. idx' \in {idx, Appended, Rewound(Listed)}
      BY <1>11 DEF StoreDisabled, StoreInPool, StoreRefused, StoreKnown
    <3>2. Appended \in [Variables -> Nat] /\ Rewound(Listed) \in [Variables -> Nat]
      BY DEF Appended, Rewound
    <3> QED BY <3>1, <3>2
  <2> QED BY <1>11, <2>1 DEF StoreDisabled, StoreInPool, StoreRefused, StoreKnown
<1>12. ASSUME NEW matching \in SUBSET DOMAIN anns, StoreInNetworks(matching) PROVE AnnTypeOK'
  <2>1. \A a \in AnnRecord : AddObservation(a) \in AnnRecord
    <3>1. ASSUME NEW a \in AnnRecord PROVE AddObservation(a) \in AnnRecord
      <4>0. a.obsIdx \in Nat
        BY ONLY <3>1 DEF AnnRecord
      <4>1. (IF a.obsIdx + 1 = a.required THEN 0 ELSE a.obsIdx + 1) \in Nat
        BY ONLY <4>0
      <4> DEFINE o == IF a.obsIdx + 1 = a.required THEN 0 ELSE a.obsIdx + 1
      <4>2. AddObservation(a) = IF ~a.ci THEN a ELSE [a EXCEPT !.obsIdx = o]
        BY DEF AddObservation
      <4> HIDE DEF o
      <4>3. o \in Nat
        BY <4>1 DEF o
      <4> QED BY <4>2, <4>3 DEF AnnRecord
    <3> QED BY <3>1
  <2>2. /\ DOMAIN anns = 1..Len(anns) /\ Len(anns) \in Nat
        /\ \A i \in DOMAIN anns : anns[i] \in AnnRecord
    BY LenProperties, ElementOfSeq
  <2>3. anns' = [i \in 1..Len(anns) |-> IF i \in matching THEN AddObservation(anns[i]) ELSE anns[i]]
    BY <1>12, <2>2 DEF StoreInNetworks
  <2>4. anns' \in Seq(AnnRecord)
    BY <2>1, <2>2, <2>3
  <2> QED BY <1>12, <2>4 DEF StoreInNetworks
<1>13. ASSUME NEW e \in Endings, StoreAndTrain(e) PROVE AnnTypeOK'
  <2>1. PICK a \in AnnRecord, r \in [ann : AnnRecord, required : Nat] :
              /\ anns' = [CacheToTrain EXCEPT ![ToTrain] = r.ann]
              /\ required' = r.required
              /\ cap' = IF Rehearsing(a)
                        THEN [v \in Variables |-> IF v \in Listed THEN required ELSE cap[v]]
                        ELSE Resized(Known, r.required)
              /\ idx' = IF r.ann.trained THEN Rewound(Listed) ELSE Appended
    BY <1>13, TrainingProperties
  <2>2. anns' \in Seq(AnnRecord)
    <3>1. CacheToTrain \in Seq(AnnRecord) /\ ToTrain \in 1..Len(CacheToTrain)
      BY CacheToTrainProperties, LenProperties
    <3> QED BY <2>1, <3>1, ExceptSeq
  <2>3. cap' \in [Variables -> Nat] /\ idx' \in [Variables -> Nat]
    <3>1. Resized(Known, r.required) \in [Variables -> Nat]
      <4>1. r.required \in Nat
        OBVIOUS
      <4> QED BY <4>1 DEF Resized
    <3>2. cap' \in [Variables -> Nat]
      BY <2>1, <3>1
    <3>3. Rewound(Listed) \in [Variables -> Nat] /\ Appended \in [Variables -> Nat]
      BY DEF Rewound, Appended
    <3> QED BY <2>1, <3>2, <3>3
  <2>4. pc' = "acting" /\ UNCHANGED <<listVars, cacheMax, modeVars, hitVars>>
    BY <1>13 DEF StoreAndTrain
  <2> QED BY <2>1, <2>2, <2>3, <2>4
<1>14. CASE StoreTrainFails
  <2>1. CacheToTrain \in Seq(AnnRecord) /\ ToTrain \in DOMAIN CacheToTrain
    BY CacheToTrainProperties
  <2>2. anns' \in Seq(AnnRecord)
    BY <1>14, <2>1, ToSetRemoveAt DEF StoreTrainFails
  <2>3. EXPAND_FACTOR * required \in Nat
    BY Arithmetic DEF EXPAND_FACTOR
  <2> DEFINE n == EXPAND_FACTOR * required
             full == [v \in Variables |-> IF v \in ToSet(inputs) THEN n ELSE Appended[v]]
  <2>4. cap' \in [Variables -> Nat] /\ idx' \in [Variables -> Nat]
    <3>1. cap' \in {cap, Resized(Listed, n)} /\ idx' \in {Appended, full}
      BY <1>14 DEF StoreTrainFails
    <3>2. Appended \in [Variables -> Nat]
      BY DEF Appended
    <3> HIDE DEF n
    <3>3. n \in Nat
      BY <2>3 DEF n
    <3>4. Resized(Listed, n) \in [Variables -> Nat] /\ full \in [Variables -> Nat]
      BY <3>2, <3>3 DEF Resized
    <3> QED BY <3>1, <3>2, <3>4
  <2> HIDE DEF n, full
  <2> QED BY <1>14, <2>2, <2>4 DEF StoreTrainFails
<1>15. ASSUME NEW i \in Selectable, NEW announced \in BOOLEAN, Act(i, announced) PROVE AnnTypeOK'
  <2>1. anns' \in Seq(AnnRecord)
    BY <1>15, SelectedType DEF Act
  <2> QED BY <1>15, <2>1 DEF Act
<1>16. CASE ActNothing
  BY <1>16 DEF ActNothing
<1> QED
  BY <1>1, <1>2, <1>3, <1>4, <1>5, <1>6, <1>7, <1>8, <1>9, <1>10, <1>11, <1>12, <1>13, <1>14,
     <1>15, <1>16 DEF ProcessStep

\* Every step of the engine keeps the types.
LEMMA StepTypes == AnnTypeOK /\ [AnnNext]_annVars => AnnTypeOK'
<1>1. AnnTypeOK /\ UNCHANGED annVars => AnnTypeOK'
  BY DEF AnnTypeOK, annVars, listVars, poolVars, cacheVars, modeVars, hitVars
<1> QED BY <1>1, ClientTypes, ProcessTypes DEF AnnNext

\* An engine starts with the right types.
LEMMA InitialTypes == AnnInit => AnnTypeOK
<1> SUFFICES ASSUME AnnInit PROVE AnnTypeOK
  OBVIOUS
<1>1. /\ inputs \in Seq(InputVars) /\ outputs \in Seq(OutputVars)
      /\ pendingAdd \in Seq(Variables) /\ pendingRemove \in Seq(Variables)
      /\ freed \subseteq Variables
      /\ cap \in [Variables -> Nat] /\ idx \in [Variables -> Nat]
      /\ anns \in Seq(AnnRecord)
  BY DEF AnnInit
<1>2. /\ {cacheMax, required, memLimit} \subseteq Nat
      /\ {hits, stabilizationHits, quiet} \subseteq Nat
  <2>1. cacheMax \in Nat /\ required \in Nat /\ memLimit \in Nat
    BY Constants DEF AnnInit
  <2>2. hits \in Nat /\ stabilizationHits \in Nat /\ quiet \in Nat
    BY Constants DEF AnnInit
  <2> QED BY <2>1, <2>2
<1>3. {firstRun, pseudo, learnDisabled, called} \subseteq BOOLEAN
  BY DEF AnnInit
<1>4. pc \in Phases
  BY DEF AnnInit, Phases
<1> QED BY <1>1, <1>2, <1>3, <1>4 DEF AnnTypeOK

\* The variables of the engine keep their types, whatever the client does.
THEOREM AnnTypeCorrect == AnnSpec => []AnnTypeOK
  BY InitialTypes, StepTypes, PTL DEF AnnSpec
-----------------------------------------------------------------------------
(* The observation pool *)

\* With nothing pending, a client that has both kinds has both listed.
LEMMA BothKindsListed ==
    ASSUME NEW ins \in Seq(InputVars), NEW outs \in Seq(OutputVars),
           ((ToSet(ins) \cup ToSet(outs)) \ ToSet(<<>>)) \cap InputVars # {},
           ((ToSet(ins) \cup ToSet(outs)) \ ToSet(<<>>)) \cap OutputVars # {}
    PROVE  ins # <<>> /\ outs # <<>>
<1>1. ToSet(ins) \subseteq InputVars /\ (ToSet(ins) = {} <=> ins = <<>>)
  BY ToSetEmpty
<1>2. ToSet(outs) \subseteq OutputVars /\ (ToSet(outs) = {} <=> outs = <<>>)
  BY ToSetEmpty
<1>3. InputVars \cap OutputVars = {}
  BY AnnAssumption
<1> QED BY <1>1, <1>2, <1>3

\* An empty list holds no variable.
LEMMA NothingInEmpty == ToSet(<<>>) = {}
  BY DEF ToSet

\* With nothing pending and both kinds of variables, neither list is empty.
LEMMA SettledBoth == AnnTypeOK /\ Settled /\ HasBoth => inputs # <<>> /\ outputs # <<>>
<1> SUFFICES ASSUME AnnTypeOK, Settled, HasBoth PROVE inputs # <<>> /\ outputs # <<>>
  OBVIOUS
<1>1. Known = ToSet(inputs) \cup ToSet(outputs)
  BY NothingInEmpty DEF Known, Listed, Settled
<1> QED BY <1>1, BothKindsListed DEF AnnTypeOK, Settled, HasBoth, WillHave

\* The same of the state after a step.
LEMMA SettledBothNext ==
    (AnnTypeOK /\ Settled /\ HasBoth => inputs # <<>> /\ outputs # <<>>)'
  BY SettledBoth, PTL

\* The listed variables, and the value of the first input.
LEMMA ListedTypes ==
    ASSUME AnnTypeOK
    PROVE  /\ Listed \subseteq Variables /\ ToSet(pendingAdd) \subseteq Variables
           /\ inputs # <<>> => inputs[1] \in Listed
           /\ required \in Nat /\ firstRun \in BOOLEAN
           /\ \A v \in Variables : cap[v] \in Nat /\ idx[v] \in Nat
<1>1. ToSet(inputs) \subseteq InputVars /\ (inputs # <<>> => inputs[1] \in ToSet(inputs))
  BY ToSetEmpty DEF AnnTypeOK
<1>2. ToSet(outputs) \subseteq OutputVars /\ ToSet(pendingAdd) \subseteq Variables
  BY ToSetEmpty DEF AnnTypeOK
<1> QED BY <1>1, <1>2 DEF AnnTypeOK, Listed, Variables

\* A variable joins its list.
LEMMA JoinListed ==
    ASSUME AnnTypeOK, NEW v \in Variables,
           inputs' = IF v \in InputVars THEN Append(inputs, v) ELSE inputs,
           outputs' = IF v \in OutputVars THEN Append(outputs, v) ELSE outputs
    PROVE  /\ Listed' = Listed \cup {v}
           /\ inputs # <<>> => inputs' # <<>>
           /\ outputs # <<>> => outputs' # <<>>
<1> USE DEF AnnTypeOK
<1>1. /\ v \in InputVars => ToSet(Append(inputs, v)) = ToSet(inputs) \cup {v}
      /\ v \in OutputVars => ToSet(Append(outputs, v)) = ToSet(outputs) \cup {v}
  <2>1. inputs \in Seq(InputVars) /\ outputs \in Seq(OutputVars)
    OBVIOUS
  <2>2. v \in InputVars => ToSet(Append(inputs, v)) = ToSet(inputs) \cup {v}
    BY ONLY <2>1, ToSetAppend
  <2>3. v \in OutputVars => ToSet(Append(outputs, v)) = ToSet(outputs) \cup {v}
    BY ONLY <2>1, ToSetAppend
  <2> QED BY <2>2, <2>3
<1>2. ToSet(inputs') \cup ToSet(outputs') = ToSet(inputs) \cup ToSet(outputs) \cup {v}
  BY <1>1 DEF Variables
<1>3. inputs # <<>> => inputs' # <<>>
  <2>1. v \in InputVars => Append(inputs, v) # <<>>
    BY <1>1, NothingInEmpty
  <2> QED BY <2>1
<1>4. outputs # <<>> => outputs' # <<>>
  <2>1. v \in OutputVars => Append(outputs, v) # <<>>
    BY <1>1, NothingInEmpty
  <2> QED BY <2>1
<1> QED BY <1>2, <1>3, <1>4 DEF Listed

\* A variable leaves its list.
LEMMA LeaveListed ==
    ASSUME AnnTypeOK, NEW v,
           inputs' = Without(inputs, v), outputs' = Without(outputs, v)
    PROVE  Listed' \subseteq Listed
  BY WithoutProperties DEF AnnTypeOK, Listed

\* The invariant's parts, for the provers.
LEMMA PoolParts ==
    ASSUME AnnTypeOK, PoolInv
    PROVE  /\ Allocated => required > 0 /\ \A v \in Listed : required <= cap[v]
           /\ Allocated /\ pc # "merging" => \A v \in Listed : idx[v] < required
           /\ RowsEven /\ FirstRunEmpty /\ FirstRunPhases /\ NothingBeforeBoth /\ BothListed
           /\ WaitingForNetwork /\ PendingFit
  BY DEF PoolInv, SlotsFree

\* A variable joins or waits: it starts at the row of the others.
LEMMA PoolAddVariable ==
    ASSUME AnnTypeOK, PoolInv, NEW v \in Variables, AddVariable(v)
    PROVE  PoolInv'
<1>1. /\ pc \in {"idle", "reading"} /\ v \notin Listed /\ v \notin ToSet(pendingAdd)
      /\ cap' = [cap EXCEPT ![v] = required]
      /\ idx' = [idx EXCEPT ![v] = ObservationsLength(idx)]
      /\ UNCHANGED <<pendingRemove, required, anns, firstRun, pc>>
  BY DEF AddVariable, Known, modeVars, cacheVars
<1>2. /\ Listed \subseteq Variables /\ ToSet(pendingAdd) \subseteq Variables
      /\ required \in Nat /\ firstRun \in BOOLEAN
      /\ cap \in [Variables -> Nat] /\ idx \in [Variables -> Nat]
  BY ListedTypes DEF AnnTypeOK
<1>3. /\ cap'[v] = required /\ idx'[v] = ObservationsLength(idx)
      /\ \A w \in Listed \cup ToSet(pendingAdd) : cap'[w] = cap[w] /\ idx'[w] = idx[w]
  BY <1>1, <1>2
<1>4. \/ ObservationsLength(idx) = 0 /\ inputs = <<>>
      \/ \E w \in Listed : ObservationsLength(idx) = idx[w]
  BY ListedTypes DEF ObservationsLength
<1>5. /\ HasBoth => HasBoth'
      /\ Listed' \subseteq Listed \cup {v}
      /\ ToSet(pendingAdd') \subseteq ToSet(pendingAdd) \cup {v}
      /\ Settled' => Settled
      /\ Settled /\ ~Settled' => anns # <<>>
      /\ inputs # <<>> => inputs' # <<>>
      /\ outputs # <<>> => outputs' # <<>>
  <2>1. CASE anns # <<>>
    <3>1. /\ pendingAdd' = Append(pendingAdd, v) /\ UNCHANGED <<inputs, outputs>>
          /\ pendingAdd \in Seq(Variables)
      BY <2>1 DEF AddVariable, AnnTypeOK
    <3>2. ToSet(pendingAdd') = ToSet(pendingAdd) \cup {v} /\ pendingAdd' # <<>>
      BY <3>1, ToSetAppend, AppendProperties
    <3>3. Listed' = Listed
      BY <3>1 DEF Listed
    <3> QED BY <1>1, <2>1, <3>1, <3>2, <3>3 DEF HasBoth, WillHave, Known, Settled
  <2>2. CASE anns = <<>>
    <3>1. /\ inputs' = IF v \in InputVars THEN Append(inputs, v) ELSE inputs
          /\ outputs' = IF v \in OutputVars THEN Append(outputs, v) ELSE outputs
          /\ UNCHANGED pendingAdd
      BY <2>2 DEF AddVariable
    <3>2. /\ Listed' = Listed \cup {v}
          /\ inputs # <<>> => inputs' # <<>>
          /\ outputs # <<>> => outputs' # <<>>
      BY <3>1, JoinListed
    <3> QED BY <1>1, <3>1, <3>2 DEF HasBoth, WillHave, Known, Settled
  <2> QED BY <2>1, <2>2
<1>6. /\ Allocated => required > 0 /\ \A w \in Listed : required <= cap[w] /\ idx[w] < required
      /\ RowsEven /\ FirstRunEmpty /\ FirstRunPhases /\ NothingBeforeBoth /\ BothListed
      /\ WaitingForNetwork /\ PendingFit
  BY <1>1, PoolParts
<1>7. Running \/ Settled => \A w \in Listed : idx[w] = ObservationsLength(idx)
  <2>1. CASE inputs # <<>>
    <3>1. inputs[1] \in Listed /\ ObservationsLength(idx) = idx[inputs[1]]
      BY <2>1, ListedTypes DEF ObservationsLength
    <3> QED BY <1>1, <1>6, <3>1 DEF RowsEven
  <2>2. CASE inputs = <<>>
    <3>1. ~Running /\ (Settled => ~HasBoth)
      BY <1>6, <2>2, SettledBoth DEF BothListed
    <3> QED BY <1>6, <2>2, <3>1 DEF NothingBeforeBoth, ObservationsLength
  <2> QED BY <2>1, <2>2
<1>8. (Allocated' <=> Allocated) /\ (Running' <=> Running)
  BY <1>1 DEF Allocated, Running
<1>9. SlotsFree'
  BY <1>1, <1>2, <1>3, <1>4, <1>5, <1>6, <1>8 DEF SlotsFree
<1>10. RowsEven'
  BY <1>3, <1>5, <1>7, <1>8 DEF RowsEven
<1>11. FirstRunEmpty' /\ FirstRunPhases'
  BY <1>1, <1>3, <1>4, <1>5, <1>6 DEF FirstRunEmpty, FirstRunPhases
<1>12. NothingBeforeBoth'
  BY <1>1, <1>3, <1>4, <1>5, <1>6 DEF NothingBeforeBoth
<1>13. BothListed' /\ WaitingForNetwork'
  BY <1>1, <1>5, <1>6, <1>8 DEF BothListed, WaitingForNetwork
<1>14. PendingFit'
  BY <1>1, <1>2, <1>3, <1>5, <1>6 DEF PendingFit
<1> QED BY <1>9, <1>10, <1>11, <1>12, <1>13, <1>14 DEF PoolInv

\* What a step that takes variables off the lists, and changes neither arrays
\* nor phase, keeps.
LEMMA PoolFewerListed ==
    ASSUME PoolInv, AnnTypeOK, Listed' \subseteq Listed, HasBoth => HasBoth',
           Settled' => Settled, UNCHANGED <<cap, idx, required, firstRun, pc, pendingAdd>>
    PROVE  /\ SlotsFree' /\ RowsEven' /\ FirstRunEmpty' /\ FirstRunPhases'
           /\ NothingBeforeBoth' /\ PendingFit'
<1>1. (Allocated' <=> Allocated) /\ (Running' <=> Running)
  BY DEF Allocated, Running
<1>2. SlotsFree' /\ RowsEven'
  BY <1>1 DEF PoolInv, SlotsFree, RowsEven
<1>3. FirstRunEmpty' /\ FirstRunPhases' /\ NothingBeforeBoth' /\ PendingFit'
  BY DEF PoolInv, FirstRunEmpty, FirstRunPhases, NothingBeforeBoth, PendingFit
<1> QED BY <1>2, <1>3

\* Removing a variable keeps the pool right.
LEMMA PoolRemoveVariable ==
    ASSUME AnnTypeOK, AnnTypeOK', PoolInv, WellUsed, NEW v \in Variables, RemoveVariable(v)
    PROVE  PoolInv'
<1>1. /\ pc \in {"idle", "reading"}
      /\ UNCHANGED <<pendingAdd, cap, idx, required, anns, firstRun, pc>>
      /\ HasBoth \/ pc # "idle" => HasBoth'
  BY DEF RemoveVariable, WellUsed, poolVars, cacheVars, modeVars
<1>2. CASE anns # <<>>
  <2>1. pendingRemove' = Append(pendingRemove, v) /\ UNCHANGED <<inputs, outputs>>
    BY <1>2 DEF RemoveVariable
  <2>2. pendingRemove' # <<>>
    <3>1. pendingRemove \in Seq(Variables)
      BY DEF AnnTypeOK
    <3>2. v \in ToSet(pendingRemove')
      BY <2>1, <3>1, ToSetAppend
    <3> QED BY <3>2, NothingInEmpty
  <2>3. Listed' = Listed /\ ~Settled'
    BY <2>1, <2>2 DEF Listed, Settled
  <2>4. BothListed' /\ WaitingForNetwork'
    BY <1>1, <1>2, <2>1 DEF PoolInv, BothListed, Running, WaitingForNetwork
  <2> QED BY <1>1, <2>3, <2>4, PoolFewerListed DEF PoolInv
<1>3. CASE anns = <<>>
  <2>1. /\ inputs' = Without(inputs, v) /\ outputs' = Without(outputs, v)
        /\ UNCHANGED pendingRemove
    BY <1>3 DEF RemoveVariable
  <2>2. Listed' \subseteq Listed /\ (Settled' <=> Settled)
    BY <1>1, <2>1, LeaveListed DEF Settled
  <2>3. BothListed'
    <3> SUFFICES ASSUME Running' PROVE inputs' # <<>> /\ outputs' # <<>>
      BY DEF BothListed
    <3>1. pc = "reading" /\ HasBoth'
      BY <1>1 DEF Running
    <3>2. Settled'
      BY <1>3, <2>2, <3>1 DEF PoolInv, WaitingForNetwork
    <3> QED BY <3>1, <3>2, SettledBothNext
  <2>4. WaitingForNetwork'
    BY <1>1, <2>2 DEF PoolInv, WaitingForNetwork
  <2> QED BY <1>1, <2>2, <2>3, <2>4, PoolFewerListed DEF PoolInv
<1> QED BY <1>2, <1>3

\* Steps that leave the lists, the arrays and the pool alone.
LEMMA PoolSamePool ==
    ASSUME AnnTypeOK, PoolInv, UNCHANGED <<inputs, outputs, pendingAdd, pendingRemove>>,
           UNCHANGED <<cap, idx, required, firstRun>>, pc' = pc, pc = "idle" \/ anns' = anns
    PROVE  PoolInv'
<1>1. /\ Listed' = Listed /\ (HasBoth' <=> HasBoth) /\ (Settled' <=> Settled)
      /\ (Running' <=> Running)
  BY DEF Listed, HasBoth, WillHave, Known, Settled, Running
<1>2. BothListed' /\ WaitingForNetwork'
  BY <1>1 DEF PoolInv, BothListed, WaitingForNetwork
<1> QED BY <1>1, <1>2, PoolFewerListed DEF PoolInv

\* Calls of a client that uses the engine well.
LEMMA PoolClient ==
    ASSUME AnnTypeOK, AnnTypeOK', PoolInv, WellUsed, ClientStep PROVE PoolInv'
<1> USE DEF listVars, poolVars, cacheVars, modeVars, hitVars
<1>1. ASSUME NEW v \in Variables, AddVariable(v) PROVE PoolInv'
  BY <1>1, PoolAddVariable
<1>2. ASSUME NEW v \in Variables, RemoveVariable(v) PROVE PoolInv'
  BY <1>2, PoolRemoveVariable
<1>3. CASE EraseKnowledge
  <2>1. /\ pc = "idle" /\ pc' = "idle" /\ firstRun'
        /\ UNCHANGED <<inputs, outputs, pendingAdd, pendingRemove, cap, required>>
        /\ idx' = [v \in Variables |-> IF v \in Listed THEN 0 ELSE idx[v]]
    BY <1>3 DEF EraseKnowledge
  <2>2. Listed' = Listed /\ \A v \in Listed : idx'[v] = 0
    BY <2>1, ListedTypes DEF Listed
  <2>3. SlotsFree' /\ RowsEven' /\ FirstRunEmpty' /\ FirstRunPhases' /\ NothingBeforeBoth'
    BY <2>1, <2>2
       DEF SlotsFree, Allocated, RowsEven, FirstRunEmpty, FirstRunPhases, NothingBeforeBoth
  <2>4. BothListed' /\ WaitingForNetwork' /\ PendingFit'
    BY <2>1 DEF PoolInv, BothListed, Running, WaitingForNetwork, PendingFit
  <2> QED BY <2>3, <2>4 DEF PoolInv
<1>4. ASSUME NEW n \in RequiredArgs, SetInitialRequired(n) PROVE PoolInv'
  <2>1. /\ pc = "idle" /\ pc' = "idle" /\ firstRun
        /\ UNCHANGED <<inputs, outputs, pendingAdd, pendingRemove, cap, idx, anns, firstRun>>
    BY <1>4 DEF SetInitialRequired
  <2>2. Listed' = Listed /\ (HasBoth' <=> HasBoth) /\ (Settled' <=> Settled)
    BY <2>1 DEF Listed, HasBoth, WillHave, Known, Settled
  <2>3. PendingFit'
    <3>1. CASE required' = required
      BY <2>1, <3>1 DEF PoolInv, PendingFit
    <3>2. CASE required' # required
      BY <2>1, <3>2 DEF WellUsed
    <3> QED BY <3>1, <3>2
  <2>4. SlotsFree' /\ RowsEven' /\ FirstRunEmpty' /\ FirstRunPhases' /\ NothingBeforeBoth'
    BY <2>1, <2>2 DEF PoolInv, SlotsFree, Allocated, Running, RowsEven, FirstRunEmpty,
                      FirstRunPhases, NothingBeforeBoth
  <2>5. BothListed' /\ WaitingForNetwork'
    BY <2>1 DEF BothListed, Running, WaitingForNetwork
  <2> QED BY <2>3, <2>4, <2>5 DEF PoolInv
<1>5. ASSUME NEW n, Load(n) \/ SetCacheMaxSize(n) \/ SetStabilizationHits(n) \/ SetMaxMemory(n)
                       \/ UsePseudorehearsal(n) \/ SetLearnDisabled(n) \/ Predict(n)
      PROVE  PoolInv'
  <2>1. /\ UNCHANGED <<inputs, outputs, pendingAdd, pendingRemove>>
        /\ UNCHANGED <<cap, idx, required, firstRun, pc>> /\ pc = "idle"
    BY <1>5 DEF Load, SetCacheMaxSize, SetStabilizationHits, SetMaxMemory,
                UsePseudorehearsal, SetLearnDisabled, Predict
  <2> QED BY <2>1, PoolSamePool
<1> QED BY <1>1, <1>2, <1>3, <1>4, <1>5 DEF ClientStep

\* The steps of sml_process before the values are read.
LEMMA PoolBeforeReading ==
    ASSUME AnnTypeOK, AnnTypeOK', PoolInv, WellUsed,
           \/ HalvePool \/ AllocArrays \/ AllocRefused \/ AlreadyAllocated
           \/ LayoutUnchanged \/ MergeAdd \/ MergeRemove \/ LayoutRefused
    PROVE  PoolInv'
<1> USE DEF listVars, poolVars, cacheVars, modeVars, hitVars
<1>0. /\ HasBoth \/ pc' # "idle" => HasBoth'
      /\ Listed \subseteq Variables /\ ToSet(pendingAdd) \subseteq Variables
      /\ required \in Nat /\ firstRun \in BOOLEAN
      /\ \A v \in Variables : cap[v] \in Nat /\ idx[v] \in Nat
  BY ListedTypes DEF WellUsed
<1>1. CASE HalvePool
  <2>1. /\ pc \in {"idle", "alloc"} /\ pc' = "alloc" /\ firstRun /\ required' = required \div 2
        /\ UNCHANGED <<inputs, outputs, pendingAdd, pendingRemove, cap, idx, firstRun>>
    BY <1>1 DEF HalvePool
  <2>2. Listed' = Listed /\ (Settled' <=> Settled)
    BY <2>1 DEF Listed, Settled
  <2>3. required' \in Nat /\ required' <= required
    BY <1>0, <2>1, Arithmetic
  <2>4. PendingFit'
    BY <1>0, <2>1, <2>3 DEF PoolInv, PendingFit
  <2>5. SlotsFree' /\ RowsEven' /\ FirstRunEmpty' /\ FirstRunPhases' /\ NothingBeforeBoth'
    BY <1>0, <2>1, <2>2 DEF PoolInv, SlotsFree, Allocated, Running, RowsEven, FirstRunEmpty,
                            FirstRunPhases, NothingBeforeBoth
  <2>6. BothListed' /\ WaitingForNetwork'
    BY <2>1 DEF BothListed, Running, WaitingForNetwork
  <2> QED BY <2>4, <2>5, <2>6 DEF PoolInv
<1>2. CASE AllocArrays
  <2>1. /\ pc \in {"idle", "alloc"} /\ pc' = "layout" /\ firstRun /\ required # 0
        /\ cap' = [v \in Variables |-> IF v \in Listed THEN required ELSE cap[v]]
        /\ UNCHANGED <<inputs, outputs, pendingAdd, pendingRemove, idx, required, firstRun>>
    BY <1>2 DEF AllocArrays
  <2>2. /\ Listed' = Listed
        /\ \A v \in Listed : cap'[v] = required /\ idx'[v] = 0
        /\ \A v \in Variables : cap'[v] \in {required, cap[v]}
    BY <1>0, <2>1 DEF Listed, PoolInv, FirstRunEmpty
  <2>3. PendingFit'
    BY <1>0, <2>1, <2>2 DEF PoolInv, PendingFit
  <2>4. SlotsFree' /\ RowsEven' /\ FirstRunEmpty' /\ FirstRunPhases' /\ NothingBeforeBoth'
    BY <1>0, <2>1, <2>2 DEF SlotsFree, Allocated, RowsEven, FirstRunEmpty, FirstRunPhases,
                            NothingBeforeBoth
  <2>5. BothListed' /\ WaitingForNetwork'
    BY <2>1 DEF BothListed, Running, WaitingForNetwork
  <2> QED BY <2>3, <2>4, <2>5 DEF PoolInv
<1>3. CASE AllocRefused \/ AlreadyAllocated \/ LayoutUnchanged
  <2>1. /\ \/ pc \in {"idle", "alloc"} /\ pc' = "idle" /\ firstRun
           \/ pc = "idle" /\ pc' = "layout" /\ ~firstRun
           \/ pc = "layout" /\ pc' = "reading" /\ Settled
        /\ UNCHANGED <<inputs, outputs, pendingAdd, pendingRemove, cap, idx, required, firstRun>>
    BY <1>3 DEF AllocRefused, AlreadyAllocated, LayoutUnchanged, Settled
  <2>2. Listed' = Listed /\ (HasBoth' <=> HasBoth) /\ (Settled' <=> Settled)
    BY <2>1 DEF Listed, HasBoth, WillHave, Known, Settled
  <2>3. SlotsFree' /\ FirstRunEmpty' /\ FirstRunPhases' /\ PendingFit'
    BY <2>1, <2>2 DEF PoolInv, SlotsFree, Allocated, FirstRunEmpty, FirstRunPhases, PendingFit
  <2>4. RowsEven' /\ NothingBeforeBoth'
    BY <1>0, <2>1, <2>2 DEF PoolInv, RowsEven, Running, NothingBeforeBoth
  <2>5. BothListed' /\ WaitingForNetwork'
    BY <1>0, <2>1, <2>2, SettledBoth DEF BothListed, Running, WaitingForNetwork
  <2> QED BY <2>3, <2>4, <2>5 DEF PoolInv
<1>4. CASE MergeAdd \/ MergeRemove
  <2>1. /\ pc \in {"layout", "merging"} /\ pc' = "merging"
        /\ UNCHANGED <<cap, idx, required, firstRun>>
    BY <1>4 DEF MergeAdd, MergeRemove
  <2>2. Listed' \cup ToSet(pendingAdd') \subseteq Listed \cup ToSet(pendingAdd)
        /\ ToSet(pendingAdd') \subseteq ToSet(pendingAdd)
    <3>1. CASE MergeAdd
      <4> DEFINE v == Head(pendingAdd)
      <4>1. /\ v \in ToSet(pendingAdd) /\ v \in Variables
            /\ ToSet(Tail(pendingAdd)) \subseteq ToSet(pendingAdd)
        BY <1>0, <3>1, ToSetTail DEF MergeAdd, AnnTypeOK
      <4>2. /\ inputs' = IF v \in InputVars THEN Append(inputs, v) ELSE inputs
            /\ outputs' = IF v \in OutputVars THEN Append(outputs, v) ELSE outputs
            /\ pendingAdd' = Tail(pendingAdd)
        BY <3>1 DEF MergeAdd
      <4> HIDE DEF v
      <4>3. Listed' = Listed \cup {v}
        BY <4>1, <4>2, JoinListed
      <4> QED BY <4>1, <4>2, <4>3
    <3>2. CASE MergeRemove
      <4>1. Listed' \subseteq Listed /\ pendingAdd' = pendingAdd
        BY <3>2, LeaveListed DEF MergeRemove
      <4> QED BY <4>1
    <3> QED BY <1>4, <3>1, <3>2
  <2>3. PendingFit' /\ SlotsFree'
    BY <1>0, <2>1, <2>2 DEF PoolInv, PendingFit, SlotsFree, Allocated
  <2>4. RowsEven' /\ FirstRunEmpty' /\ FirstRunPhases' /\ NothingBeforeBoth' /\ BothListed'
        /\ WaitingForNetwork'
    BY <1>0, <2>1 DEF RowsEven, Running, FirstRunEmpty, FirstRunPhases, NothingBeforeBoth,
                      BothListed, WaitingForNetwork
  <2> QED BY <2>3, <2>4 DEF PoolInv
<1>5. CASE LayoutRefused
  <2>1. HasBoth /\ Settled
    BY <1>5 DEF LayoutRefused, Merging, PoolInv, NothingBeforeBoth, Settled
  <2> QED BY <1>5, <2>1, SettledBoth DEF LayoutRefused
<1> QED BY <1>1, <1>2, <1>3, <1>4, <1>5

\* The steps of sml_process from the new layout on, when FANN finds memory.
LEMMA PoolFromReading ==
    ASSUME AnnTypeOK, AnnTypeOK', PoolInv, WellUsed,
           \/ \E e \in Endings : LayoutChanged(e) \/ StoreAndTrain(e)
           \/ ReadFails
           \/ \E inChange, outChange \in BOOLEAN : Read(inChange, outChange)
           \/ StoreDisabled \/ StoreInPool \/ StoreRefused \/ StoreKnown
           \/ \E matching \in SUBSET DOMAIN anns : StoreInNetworks(matching)
           \/ \E i \in Selectable, announced \in BOOLEAN : Act(i, announced)
           \/ ActNothing
    PROVE  PoolInv'
<1> USE DEF listVars, poolVars, cacheVars, modeVars, hitVars
<1>0. /\ HasBoth \/ pc' # "idle" => HasBoth'
      /\ Listed \subseteq Variables /\ ToSet(pendingAdd) \subseteq Variables
      /\ required \in Nat /\ firstRun \in BOOLEAN
      /\ \A v \in Variables : cap[v] \in Nat /\ idx[v] \in Nat
      /\ inputs # <<>> => inputs[1] \in Listed
  BY ListedTypes DEF WellUsed
<1>1. ASSUME NEW e \in Endings, LayoutChanged(e) PROVE PoolInv'
  <2> DEFINE new == NewAnn(Len(inputs), Len(outputs))
             vs == Len(inputs) + Len(outputs)
             r == Trained(new, required, e, vs)
  <2>1. /\ pc = "merging" /\ pc' = "reading" /\ Settled
        /\ required' = r.required
        /\ cap' = Resized(Listed, r.required) /\ idx' = Rewound(Listed)
        /\ UNCHANGED <<inputs, outputs, pendingAdd, pendingRemove, firstRun>>
    BY <1>1 DEF LayoutChanged, Merging, Settled
  <2>2. required <= r.required /\ r.required \in Nat
    <3>1. new \in AnnRecord /\ vs \in Nat
      BY DEF NewAnn, AnnRecord, AnnTypeOK
    <3>2. required \in Nat /\ memLimit \in Nat /\ pseudo \in BOOLEAN
      BY DEF AnnTypeOK
    <3> HIDE DEF new, vs
    <3> QED BY <3>1, <3>2, TrainedProperties
  <2> HIDE DEF r
  <2>3. /\ Listed' = Listed /\ Settled'
        /\ \A v \in Listed : idx'[v] = 0 /\ required' <= cap'[v]
        /\ required' > 0
    <3>1. Listed' = Listed /\ Settled'
      BY <2>1 DEF Listed, Settled
    <3>2. required > 0 /\ \A v \in Listed : required <= cap[v]
      BY <2>1 DEF PoolInv, SlotsFree, Allocated
    <3>3. \A v \in Listed : idx'[v] = 0
      BY <1>0, <2>1 DEF Rewound
    <3>4. \A v \in Listed : required' <= cap'[v]
      BY <1>0, <2>1, <2>2, <3>2 DEF Resized
    <3> QED BY <1>0, <2>1, <2>2, <3>1, <3>2, <3>3, <3>4
  <2>4. SlotsFree' /\ RowsEven' /\ FirstRunEmpty' /\ FirstRunPhases' /\ NothingBeforeBoth'
    BY <1>0, <2>1, <2>3 DEF SlotsFree, RowsEven, FirstRunEmpty, FirstRunPhases, NothingBeforeBoth
  <2>5. BothListed'
    BY <1>0, <2>1, <2>3, SettledBothNext DEF BothListed
  <2>6. WaitingForNetwork' /\ PendingFit'
    BY <2>3, NothingInEmpty DEF WaitingForNetwork, PendingFit, Settled
  <2> QED BY <2>4, <2>5, <2>6 DEF PoolInv
<1>2. CASE \/ ReadFails \/ StoreDisabled \/ ActNothing
           \/ \E inChange, outChange \in BOOLEAN : Read(inChange, outChange)
           \/ \E matching \in SUBSET DOMAIN anns : StoreInNetworks(matching)
           \/ \E i \in Selectable, announced \in BOOLEAN : Act(i, announced)
  <2>1. /\ Running /\ pc' \in {"idle", "storing", "acting"}
        /\ UNCHANGED <<inputs, outputs, pendingAdd, pendingRemove, cap, idx, required>>
        /\ \/ pc = "reading" /\ pc' = "idle" /\ firstRun' = firstRun
           \/ pc = "reading" /\ ~firstRun'
           \/ pc \in {"storing", "acting"} /\ firstRun' = firstRun
    BY <1>2 DEF ReadFails, Read, StoreDisabled, StoreInNetworks, Act, ActNothing, Running
  <2>2. Listed' = Listed /\ HasBoth'
    BY <1>0, <2>1 DEF Listed, PoolInv, NothingBeforeBoth, Running
  <2>3. Allocated /\ FirstRunPhases' /\ (firstRun' => firstRun)
    BY <1>0, <2>1 DEF PoolInv, FirstRunPhases, Allocated, Running
  <2>4. SlotsFree' /\ RowsEven' /\ FirstRunEmpty'
    BY <2>1, <2>2, <2>3 DEF PoolInv, SlotsFree, RowsEven, FirstRunEmpty, Running
  <2>5. NothingBeforeBoth' /\ BothListed' /\ WaitingForNetwork' /\ PendingFit'
    BY <2>1, <2>2 DEF PoolInv, NothingBeforeBoth, BothListed, WaitingForNetwork, PendingFit, Running
  <2> QED BY <2>2, <2>3, <2>4, <2>5 DEF PoolInv
<1>3. ASSUME pc = "storing"
      PROVE  /\ ~firstRun /\ inputs # <<>> /\ outputs # <<>> /\ required > 0
             /\ \A v \in Listed : required <= cap[v] /\ idx[v] < required
             /\ \A v, w \in Listed : idx[v] = idx[w]
  BY <1>3 DEF PoolInv, FirstRunPhases, BothListed, Running, SlotsFree, Allocated, RowsEven
\* After a store: the arrays are filled alike and not to the end.
<1>4. ASSUME /\ pc = "storing" /\ pc' = "acting" /\ UNCHANGED <<inputs, outputs, firstRun>>
             /\ required' > 0
             /\ \A v \in Listed : required' <= cap'[v] /\ idx'[v] < required'
             /\ \A v, w \in Listed : idx'[v] = idx'[w]
             /\ PendingFit'
      PROVE  PoolInv'
  <2>1. Listed' = Listed /\ HasBoth' /\ ~firstRun /\ inputs # <<>> /\ outputs # <<>>
    BY <1>0, <1>3, <1>4 DEF Listed
  <2> QED BY <1>4, <2>1 DEF PoolInv, SlotsFree, RowsEven, FirstRunEmpty, FirstRunPhases,
                            NothingBeforeBoth, BothListed, WaitingForNetwork
<1>5. CASE StoreInPool
  <2>1. /\ pc = "storing" /\ pc' = "acting" /\ ObservationsLength(Appended) # required
        /\ idx' = Appended
        /\ UNCHANGED <<inputs, outputs, firstRun, pendingAdd, cap, required>>
    BY <1>5 DEF StoreInPool, PoolFull
  <2>2. ObservationsLength(Appended) = idx[inputs[1]] + 1 /\ inputs[1] \in Listed
    BY <1>0, <1>3, <2>1 DEF ObservationsLength, Appended
  <2>3. \A v \in Listed : idx'[v] = idx[v] + 1 /\ idx[v] = idx[inputs[1]]
    BY <1>0, <1>3, <2>1, <2>2 DEF Appended
  <2>4. \A v \in Listed : idx'[v] < required
    BY <1>0, <1>3, <2>1, <2>2, <2>3
  <2>5. PendingFit'
    BY <2>1 DEF PoolInv, PendingFit
  <2> QED BY <1>3, <1>4, <2>1, <2>3, <2>4, <2>5
<1>6. CASE StoreRefused
  BY <1>3, <1>6 DEF StoreRefused
<1>7. CASE StoreKnown
  <2>1. /\ pc = "storing" /\ pc' = "acting" /\ idx' = Rewound(Listed)
        /\ UNCHANGED <<inputs, outputs, firstRun, pendingAdd, cap, required>>
    BY <1>7 DEF StoreKnown
  <2>2. \A v \in Listed : idx'[v] = 0
    BY <1>0, <2>1 DEF Rewound
  <2>3. PendingFit'
    BY <2>1 DEF PoolInv, PendingFit
  <2> QED BY <1>3, <1>4, <2>1, <2>2, <2>3
<1>8. ASSUME NEW e \in Endings, StoreAndTrain(e) PROVE PoolInv'
  <2>0. pc = "storing" /\ pc' = "acting" /\ UNCHANGED <<inputs, outputs, firstRun, pendingAdd>>
    BY <1>8 DEF StoreAndTrain
  <2>1. PICK a \in AnnRecord, r \in [ann : AnnRecord, required : Nat] :
              /\ required' = r.required /\ required <= r.required
              /\ a.trained => r.ann.trained /\ r.required = required
              /\ ~r.ann.trained /\ required > 0 => required < r.required
              /\ cap' = IF Rehearsing(a)
                        THEN [v \in Variables |-> IF v \in Listed THEN required ELSE cap[v]]
                        ELSE Resized(Known, r.required)
              /\ idx' = IF r.ann.trained THEN Rewound(Listed) ELSE Appended
    BY <1>8, TrainingProperties
  <2>2. required \in Nat /\ required' \in Nat /\ required <= required'
    BY <1>0, <2>1
  <2>3. \A v \in Known : required <= cap[v] => required' <= cap'[v]
    <3>1. CASE Rehearsing(a)
      BY <1>0, <2>1, <2>2, <3>1 DEF Rehearsing, Known
    <3>2. CASE ~Rehearsing(a)
      BY <1>0, <2>1, <2>2, <3>2 DEF Resized, Known
    <3> QED BY <3>1, <3>2
  <2>4. PendingFit'
    BY <2>0, <2>3 DEF PoolInv, PendingFit, Known
  <2>5. \A v \in Listed : required' <= cap'[v]
    BY <1>3, <2>0, <2>3 DEF Known
  <2>6. /\ \A v \in Listed : idx'[v] < required'
        /\ \A v, w \in Listed : idx'[v] = idx'[w]
    <3>1. CASE r.ann.trained
      <4>1. \A v \in Listed : idx'[v] = 0
        BY <1>0, <2>1, <3>1 DEF Rewound
      <4> QED BY <1>3, <2>0, <2>2, <4>1
    <3>2. CASE ~r.ann.trained
      <4>1. \A v \in Listed : idx'[v] = idx[v] + 1
        BY <1>0, <2>1, <3>2 DEF Appended
      <4>2. required < required'
        BY <1>3, <2>0, <2>1, <3>2
      <4> QED BY <1>0, <1>3, <2>0, <2>2, <4>1, <4>2
    <3> QED BY <3>1, <3>2
  <2> QED BY <1>3, <1>4, <2>0, <2>2, <2>4, <2>5, <2>6
<1> QED BY <1>1, <1>2, <1>5, <1>6, <1>7, <1>8

\* An engine starts with an empty pool.
LEMMA PoolInitial == AnnInit => PoolInv
<1> SUFFICES ASSUME AnnInit PROVE PoolInv
  OBVIOUS
<1>1. Listed = {} /\ ToSet(pendingAdd) = {}
  BY NothingInEmpty DEF AnnInit, Listed
<1> QED BY <1>1 DEF AnnInit, PoolInv, SlotsFree, Allocated, RowsEven, FirstRunEmpty,
                    FirstRunPhases, NothingBeforeBoth, BothListed, Running,
                    WaitingForNetwork, PendingFit

\* Under a client that uses the engine well, and while trainings find memory,
\* the arrays of the variables, their indices and the pool size agree, whatever
\* variables come and go and however the pool grows.
THEOREM PoolCorrect == ASSUME ~TrainFailures PROVE WellUsedSpec => []PoolInv
<1>1. AnnTypeOK /\ AnnTypeOK' /\ PoolInv /\ [AnnNext /\ WellUsed]_annVars => PoolInv'
  <2> SUFFICES ASSUME AnnTypeOK, AnnTypeOK', PoolInv, [AnnNext /\ WellUsed]_annVars
               PROVE  PoolInv'
    OBVIOUS
  <2>1. CASE ClientStep /\ WellUsed
    BY <2>1, PoolClient
  <2>2. CASE ProcessStep /\ WellUsed
    <3>1. ~LayoutTrainFails /\ ~StoreTrainFails
      BY DEF LayoutTrainFails, StoreTrainFails
    <3> QED BY <2>2, <3>1, PoolBeforeReading, PoolFromReading DEF ProcessStep
  <2>3. CASE UNCHANGED annVars
    BY <2>3, PoolSamePool DEF annVars, listVars, poolVars, cacheVars, modeVars
  <2> QED BY <2>1, <2>2, <2>3 DEF AnnNext
<1>2. AnnTypeOK /\ [AnnNext /\ WellUsed]_annVars => AnnTypeOK'
  BY StepTypes
<1> QED BY <1>1, <1>2, InitialTypes, PoolInitial, PTL DEF WellUsedSpec

\* No observation is written beyond an array.
THEOREM PoolHasRoom == ASSUME ~TrainFailures PROVE WellUsedSpec => []RoomForNext
<1>1. PoolInv => RoomForNext
  BY DEF PoolInv, SlotsFree, Allocated, FirstRunPhases, RoomForNext
<1> QED BY <1>1, PoolCorrect, PTL

\* The values of one reading share a row.
THEOREM PoolRowsAligned == ASSUME ~TrainFailures PROVE WellUsedSpec => []RowsAligned
<1>1. PoolInv => RowsAligned
  BY DEF PoolInv, RowsEven, Running, RowsAligned
<1> QED BY <1>1, PoolCorrect, PTL
-----------------------------------------------------------------------------
(* The cache and the count of stable readings, for any client *)

\* The networks a training starts from are within the limit.
LEMMA PutBounded ==
    ASSUME AnnTypeOK, CacheBounded
    PROVE  cacheMax # 0 => Len(CacheToTrain) <= cacheMax
<1>1. anns \in Seq(AnnRecord) /\ Len(anns) \in Nat /\ cacheMax \in Nat
  BY LenProperties DEF AnnTypeOK
<1>2. CASE InTraining # {}
  BY <1>2 DEF CacheToTrain, CacheBounded
<1>3. CASE InTraining = {}
  <2> DEFINE new == NewAnn(Len(inputs), Len(outputs))
             old == IF cacheMax # 0 /\ Len(anns) = cacheMax THEN Tail(anns) ELSE anns
  <2>1. new \in AnnRecord
    BY DEF NewAnn, AnnRecord, AnnTypeOK
  <2> HIDE DEF new
  <2>2. old \in Seq(AnnRecord) /\ (cacheMax # 0 => Len(old) + 1 <= cacheMax)
    <3>1. CASE cacheMax # 0 /\ Len(anns) = cacheMax
      <4>1. anns # <<>>
        BY <1>1, <3>1
      <4>2. Tail(anns) \in Seq(AnnRecord) /\ Len(Tail(anns)) = Len(anns) - 1
        BY <1>1, <4>1, HeadTailProperties
      <4> QED BY <1>1, <3>1, <4>2
    <3>2. CASE ~(cacheMax # 0 /\ Len(anns) = cacheMax)
      BY <1>1, <3>2 DEF CacheBounded
    <3> QED BY <3>1, <3>2
  <2> HIDE DEF old
  <2>3. Len(Append(old, new)) = Len(old) + 1
    BY <2>1, <2>2, AppendProperties
  <2>4. CacheToTrain = Append(old, new)
    BY <1>3 DEF CacheToTrain, Put, old, new
  <2> QED BY <2>2, <2>3, <2>4
<1> QED BY <1>2, <1>3

\* Selecting a network keeps their number.
LEMMA SelectedLength ==
    ASSUME AnnTypeOK, NEW i \in Selectable PROVE Len(Selected(i)) = Len(anns)
<1>1. anns \in Seq(AnnRecord) /\ i \in 1..Len(anns) /\ Len(anns) \in Nat
  BY LenProperties DEF AnnTypeOK, Selectable
<1>2. RemoveAt(anns, i) \in Seq(AnnRecord) /\ Len(RemoveAt(anns, i)) = Len(anns) - 1
  BY <1>1, RemoveAtProperties
<1>3. anns[i] \in AnnRecord
  BY <1>1, ElementOfSeq
<1>4. Len(Append(RemoveAt(anns, i), anns[i])) = Len(anns)
  BY <1>1, <1>2, <1>3, AppendProperties
<1> QED BY <1>4 DEF Selected, Hit

\* The cache of networks keeps its limit, whatever the client does and however
\* training ends: no way to a new network goes around sml_cache_put.
THEOREM AnnCacheBounded == AnnSpec => []CacheBounded
<1>1. AnnInit => CacheBounded
  <2>1. AnnInit => Len(anns) = 0 /\ cacheMax = DefaultCacheSize
    BY DEF AnnInit
  <2> QED BY <2>1, Constants DEF CacheBounded
<1>2. AnnTypeOK /\ CacheBounded /\ [AnnNext]_annVars => CacheBounded'
  <2> SUFFICES ASSUME AnnTypeOK, CacheBounded, [AnnNext]_annVars PROVE CacheBounded'
    OBVIOUS
  <2> USE DEF listVars, poolVars, cacheVars, modeVars, hitVars
  <2>0. anns \in Seq(AnnRecord) /\ Len(anns) \in Nat /\ cacheMax \in Nat
    BY LenProperties DEF AnnTypeOK
  <2>1. ASSUME NEW k \in Nat, Len(anns') = k, cacheMax' = cacheMax, cacheMax # 0 => k <= cacheMax
        PROVE  CacheBounded'
    BY <2>1 DEF CacheBounded
  <2>2. CASE UNCHANGED <<anns, cacheMax>>
    BY <2>2 DEF CacheBounded
  <2>3. CASE EraseKnowledge \/ LayoutRefused
    BY <2>0, <2>1, <2>3 DEF EraseKnowledge, LayoutRefused
  <2>4. ASSUME NEW n \in LoadCounts, Load(n) PROVE CacheBounded'
    <3>1. n \in Nat
      BY Constants
    <3>2. Len(anns') = n /\ cacheMax' = cacheMax /\ (cacheMax # 0 => n <= cacheMax)
      BY <2>4, <3>1 DEF Load
    <3> QED BY <2>1, <3>1, <3>2
  <2>5. ASSUME NEW n \in CacheArgs, SetCacheMaxSize(n) PROVE CacheBounded'
    <3> DEFINE m == n % U16
    <3>1. m \in Nat
      BY Constants, Arithmetic
    <3>2. cacheMax' = m
          /\ anns' = IF Len(anns) > m THEN SubSeq(anns, Len(anns) - m + 1, Len(anns)) ELSE anns
      BY <2>5 DEF SetCacheMaxSize
    <3> HIDE DEF m
    <3>3. Len(anns) > m => Len(SubSeq(anns, Len(anns) - m + 1, Len(anns))) = m
      BY <2>0, <3>1
    <3> QED BY <2>0, <3>1, <3>2, <3>3 DEF CacheBounded
  <2>6. ASSUME NEW i \in Selectable, NEW announced \in BOOLEAN, Predict(i) \/ Act(i, announced)
        PROVE  CacheBounded'
    <3>1. Len(anns') = Len(anns) /\ cacheMax' = cacheMax
      BY <2>6, SelectedLength DEF Predict, Act
    <3> QED BY <3>1 DEF CacheBounded
  <2>7. ASSUME NEW e, LayoutChanged(e) \/ LayoutTrainFails PROVE CacheBounded'
    <3>1. cacheMax' = cacheMax /\ Len(anns') = 1
      BY <2>7 DEF LayoutChanged, LayoutTrainFails
    <3> QED BY <2>0, <2>1, <3>1
  <2>8. ASSUME NEW matching \in SUBSET DOMAIN anns, StoreInNetworks(matching) PROVE CacheBounded'
    <3>1. cacheMax' = cacheMax /\ DOMAIN anns = 1..Len(anns)
          /\ anns' = [i \in 1..Len(anns) |->
                        IF i \in matching THEN AddObservation(anns[i]) ELSE anns[i]]
      BY <2>0, <2>8 DEF StoreInNetworks
    <3>2. Len(anns') = Len(anns)
      BY <2>0, <3>1
    <3> QED BY <3>1, <3>2 DEF CacheBounded
  <2>9. /\ CacheToTrain \in Seq(AnnRecord) /\ Len(CacheToTrain) \in Nat
        /\ ToTrain \in 1..Len(CacheToTrain)
        /\ cacheMax # 0 => Len(CacheToTrain) <= cacheMax
    BY CacheToTrainProperties, LenProperties, PutBounded
  <2>10. ASSUME NEW e \in Endings, StoreAndTrain(e) PROVE CacheBounded'
    <3>1. PICK r : anns' = [CacheToTrain EXCEPT ![ToTrain] = r]
      BY <2>10 DEF StoreAndTrain
    <3>2. cacheMax' = cacheMax
      BY <2>10 DEF StoreAndTrain
    <3>3. Len(anns') = Len(CacheToTrain)
      BY <2>9, <3>1
    <3> QED BY <2>1, <2>9, <3>2, <3>3
  <2>11. CASE StoreTrainFails
    <3>1. cacheMax' = cacheMax /\ anns' \in {CacheToTrain, RemoveAt(CacheToTrain, ToTrain)}
      BY <2>11 DEF StoreTrainFails
    <3>2. Len(RemoveAt(CacheToTrain, ToTrain)) = Len(CacheToTrain) - 1
      BY <2>9, RemoveAtProperties
    <3>3. Len(anns') \in Nat /\ Len(anns') <= Len(CacheToTrain)
      BY <2>9, <3>1, <3>2
    <3> QED BY <2>0, <2>1, <2>9, <3>1, <3>3
  <2>12. CASE ClientStep
    BY <2>2, <2>3, <2>4, <2>5, <2>6, <2>12
       DEF ClientStep, AddVariable, RemoveVariable, SetInitialRequired, SetStabilizationHits,
           SetMaxMemory, UsePseudorehearsal, SetLearnDisabled
  <2>13. CASE ProcessStep
    <3>1. CASE \/ HalvePool \/ AllocArrays \/ AllocRefused \/ AlreadyAllocated
               \/ LayoutUnchanged \/ MergeAdd \/ MergeRemove
      BY <2>2, <3>1
         DEF HalvePool, AllocArrays, AllocRefused, AlreadyAllocated, LayoutUnchanged, MergeAdd,
             MergeRemove
    <3>2. ASSUME NEW inChange \in BOOLEAN, NEW outChange \in BOOLEAN, Read(inChange, outChange)
          PROVE  CacheBounded'
      BY <2>2, <3>2 DEF Read
    <3>3. CASE ReadFails \/ StoreDisabled \/ StoreInPool \/ StoreRefused \/ StoreKnown \/ ActNothing
      BY <2>2, <3>3
         DEF ReadFails, StoreDisabled, StoreInPool, StoreRefused, StoreKnown, ActNothing
    <3> QED BY <2>3, <2>6, <2>7, <2>8, <2>10, <2>11, <2>13, <3>1, <3>2, <3>3 DEF ProcessStep
  <2> QED BY <2>2, <2>12, <2>13 DEF AnnNext, annVars
<1> QED BY <1>1, <1>2, AnnTypeCorrect, PTL DEF AnnSpec

\* Why readings said to be stable are: the engine never counts more of them
\* than there were without a change, give or take the first.
CountsQuiet == /\ hits <= quiet + 1 /\ hits <= MaxHits
               /\ firstRun => hits = 0
               /\ StableEnough

\* Only stable readings are stored and predicted from, also when the setting
\* changes between two readings and when the 16-bit count wraps.
THEOREM AnnStableEnough == AnnSpec => []StableEnough
<1>1. AnnInit => CountsQuiet
  BY Constants DEF AnnInit, CountsQuiet, StableEnough
<1>2. AnnTypeOK /\ CountsQuiet /\ [AnnNext]_annVars => CountsQuiet'
  <2> SUFFICES ASSUME AnnTypeOK, CountsQuiet, [AnnNext]_annVars PROVE CountsQuiet'
    OBVIOUS
  <2> USE DEF CountsQuiet, StableEnough, listVars, poolVars, cacheVars, modeVars, hitVars
  <2>0. /\ hits \in Nat /\ quiet \in Nat /\ stabilizationHits \in Nat /\ MaxHits \in Nat
        /\ firstRun \in BOOLEAN
    BY Constants DEF AnnTypeOK
  <2>1. ASSUME UNCHANGED <<hits, quiet, firstRun>>,
               pc' \in {"storing", "acting"} =>
                  pc \in {"storing", "acting"} /\ UNCHANGED stabilizationHits
        PROVE  CountsQuiet'
    BY <2>0, <2>1
  <2>2. CASE EraseKnowledge
    BY <2>0, <2>2 DEF EraseKnowledge
  <2>3. ASSUME NEW inChange \in BOOLEAN, NEW outChange \in BOOLEAN, Read(inChange, outChange)
        PROVE  CountsQuiet'
    <3> DEFINE change == ~firstRun /\ (inChange \/ outChange)
               counted == HitsAfter(change)
               stable == counted = stabilizationHits
    <3>1. /\ stable \/ counted < MaxHits
          /\ ~firstRun' /\ UNCHANGED stabilizationHits
          /\ quiet' = IF firstRun \/ change THEN 0
                      ELSE IF quiet < MaxHits THEN quiet + 1 ELSE quiet
          /\ hits' = IF stable THEN 0 ELSE (counted + 1) % U16
          /\ pc' = IF stable THEN "storing" ELSE "idle"
      BY <2>3 DEF Read
    <3>2. counted = IF change THEN 0 ELSE hits
      BY DEF HitsAfter
    <3> HIDE DEF change, counted
    <3>3. counted \in Nat /\ counted <= MaxHits /\ (firstRun \/ change => counted = 0)
          /\ (~firstRun /\ ~change => counted = hits)
      BY <2>0, <3>2
    <3>4. quiet' \in Nat /\ counted <= quiet'
      BY <2>0, <3>1, <3>3
    <3>5. (counted + 1) % U16 \in Nat /\ (counted + 1) % U16 <= counted + 1
      BY <3>3 DEF U16
    <3>6. hits' \in Nat /\ hits' <= quiet' + 1 /\ hits' <= MaxHits
      BY <2>0, <3>1, <3>3, <3>4, <3>5
    <3>7. pc' \in {"storing", "acting"} => quiet' >= stabilizationHits'
      BY <2>0, <3>1, <3>4
    <3> QED BY <3>1, <3>6, <3>7
  <2>4. CASE ClientStep
    <3>1. ASSUME NEW n, \/ AddVariable(n) \/ RemoveVariable(n) \/ Load(n) \/ SetInitialRequired(n)
                        \/ SetCacheMaxSize(n) \/ SetStabilizationHits(n) \/ SetMaxMemory(n)
                        \/ UsePseudorehearsal(n) \/ SetLearnDisabled(n) \/ Predict(n)
          PROVE  CountsQuiet'
      <4>1. UNCHANGED <<hits, quiet, firstRun, pc>> /\ pc \in {"idle", "reading"}
        BY <3>1 DEF AddVariable, RemoveVariable, Load, SetInitialRequired, SetCacheMaxSize,
                    SetStabilizationHits, SetMaxMemory, UsePseudorehearsal, SetLearnDisabled,
                    Predict
      <4> QED BY <2>1, <4>1
    <3> QED BY <2>2, <2>4, <3>1 DEF ClientStep
  <2>5. CASE ProcessStep
    <3>1. CASE \/ HalvePool \/ AllocArrays \/ AllocRefused \/ AlreadyAllocated \/ LayoutUnchanged
               \/ MergeAdd \/ MergeRemove \/ LayoutRefused \/ LayoutTrainFails \/ ReadFails
               \/ \E e \in Endings : LayoutChanged(e)
      BY <2>1, <3>1
         DEF HalvePool, AllocArrays, AllocRefused, AlreadyAllocated, LayoutUnchanged, MergeAdd,
             MergeRemove, LayoutRefused, LayoutTrainFails, ReadFails, LayoutChanged
    <3>2. CASE \/ StoreDisabled \/ StoreInPool \/ StoreRefused \/ StoreKnown \/ StoreTrainFails
               \/ \E e \in Endings : StoreAndTrain(e)
               \/ \E matching \in SUBSET DOMAIN anns : StoreInNetworks(matching)
               \/ \E i \in Selectable, announced \in BOOLEAN : Act(i, announced)
               \/ ActNothing
      BY <2>1, <3>2
         DEF StoreDisabled, StoreInPool, StoreRefused, StoreKnown, StoreTrainFails, StoreAndTrain,
             StoreInNetworks, Act, ActNothing
    <3> QED BY <2>3, <2>5, <3>1, <3>2 DEF ProcessStep
  <2>6. CASE UNCHANGED annVars
    BY <2>1, <2>6 DEF annVars
  <2> QED BY <2>4, <2>5, <2>6 DEF AnnNext
<1>3. CountsQuiet => StableEnough
  BY DEF CountsQuiet
<1> QED BY <1>1, <1>2, <1>3, AnnTypeCorrect, PTL DEF AnnSpec

-----------------------------------------------------------------------------
(* The lists of variables.  The engine never walks over a freed variable,  *)
(* whatever the client calls.  The invariant behind it: a variable is in   *)
(* at most one of the two lists and the list of those that wait, and once  *)
(* in it; so taking it off once takes it off.                              *)

Distinct(s) == \A j, k \in DOMAIN s : s[j] = s[k] => j = k

ListsInv == /\ NothingDangles
            /\ Distinct(inputs) /\ Distinct(outputs)
            /\ Distinct(pendingAdd) /\ Distinct(pendingRemove)
            /\ ToSet(pendingAdd) \cap Listed = {}
-----------------------------------------------------------------------------
(* Sequences without duplicates *)

\* An index of a longer sequence is an index of the shorter one or the last.
LEMMA IndexOrLast == ASSUME NEW n \in Nat, NEW j \in 1..n + 1, j # n + 1 PROVE j \in 1..n
  OBVIOUS

\* A new element at the end.
LEMMA DistinctAppend ==
    ASSUME NEW S, NEW s \in Seq(S), NEW e \in S, Distinct(s), e \notin ToSet(s)
    PROVE  Distinct(Append(s, e))
<1> DEFINE t == Append(s, e)
<1>1. /\ DOMAIN s = 1..Len(s) /\ Len(s) \in Nat /\ DOMAIN t = 1..Len(s) + 1
      /\ \A i \in 1..Len(s) : t[i] = s[i]
      /\ t[Len(s) + 1] = e
  BY AppendProperties, LenProperties
<1> HIDE DEF t
<1>2. \A i \in 1..Len(s) : s[i] # e
  BY <1>1 DEF ToSet
<1>3. ASSUME NEW j \in DOMAIN t, NEW k \in DOMAIN t, t[j] = t[k] PROVE j = k
  <2>1. CASE j = Len(s) + 1 /\ k = Len(s) + 1
    BY <2>1
  <2>2. CASE j # Len(s) + 1 /\ k # Len(s) + 1
    <3>1. j \in 1..Len(s) /\ k \in 1..Len(s)
      BY <1>1, <2>2, IndexOrLast
    <3> QED BY <1>1, <1>3, <3>1 DEF Distinct
  <2>3. CASE j = Len(s) + 1 /\ k # Len(s) + 1
    <3>1. k \in 1..Len(s)
      BY <1>1, <2>3, IndexOrLast
    <3> QED BY <1>1, <1>2, <1>3, <2>3, <3>1
  <2>4. CASE j # Len(s) + 1 /\ k = Len(s) + 1
    <3>1. j \in 1..Len(s)
      BY <1>1, <2>4, IndexOrLast
    <3> QED BY <1>1, <1>2, <1>3, <2>4, <3>1
  <2> QED BY <2>1, <2>2, <2>3, <2>4
<1>4. Distinct(t)
  BY <1>3 DEF Distinct
<1> QED BY <1>4 DEF t

\* The first element taken off.
LEMMA DistinctTail ==
    ASSUME NEW S, NEW s \in Seq(S), Distinct(s), s # <<>>
    PROVE  Distinct(Tail(s)) /\ Head(s) \notin ToSet(Tail(s))
<1> DEFINE t == Tail(s)
<1>1. /\ Len(s) \in Nat \ {0} /\ DOMAIN s = 1..Len(s) /\ DOMAIN t = 1..Len(s) - 1
      /\ \A j \in 1..Len(s) - 1 : t[j] = s[j + 1]
      /\ Head(s) = s[1]
  BY EmptySeq, LenProperties, HeadTailProperties
<1> HIDE DEF t
<1>2. \A j \in DOMAIN t : j + 1 \in DOMAIN s /\ j + 1 # 1 /\ t[j] = s[j + 1] /\ j \in Nat
  BY <1>1
<1>3. Distinct(t)
  <2>1. ASSUME NEW j \in DOMAIN t, NEW k \in DOMAIN t, t[j] = t[k] PROVE j = k
    <3>1. j + 1 = k + 1
      BY <1>2, <2>1 DEF Distinct
    <3> QED BY <1>2, <3>1
  <2> QED BY <2>1 DEF Distinct
<1>4. 1 \in DOMAIN s
  BY <1>1
<1>5. Head(s) \notin ToSet(t)
  <2>1. ASSUME NEW j \in DOMAIN t PROVE t[j] # s[1]
    BY <1>2, <1>4 DEF Distinct
  <2> QED BY <1>1, <2>1 DEF ToSet
<1> QED BY <1>3, <1>5 DEF t

\* A variable taken off a list without duplicates is gone from it.
LEMMA DistinctWithout ==
    ASSUME NEW S, NEW s \in Seq(S), NEW v, Distinct(s)
    PROVE  Distinct(Without(s, v)) /\ ToSet(Without(s, v)) = ToSet(s) \ {v}
<1>1. CASE v \notin ToSet(s)
  BY <1>1 DEF Without
<1>2. CASE v \in ToSet(s)
  <2>1. \E k \in DOMAIN s : s[k] = v
    BY <1>2 DEF ToSet
  <2> DEFINE k == CHOOSE k \in DOMAIN s : s[k] = v
             t == RemoveAt(s, k)
  <2>2. k \in DOMAIN s /\ s[k] = v
    BY <2>1
  <2>3. Without(s, v) = t
    BY <1>2 DEF Without
  <2> HIDE DEF k
  <2>4. /\ DOMAIN s = 1..Len(s) /\ Len(s) \in Nat
        /\ t \in Seq(S) /\ Len(t) = Len(s) - 1
        /\ \A j \in 1..k - 1 : t[j] = s[j]
        /\ \A j \in k..Len(s) - 1 : t[j] = s[j + 1]
    <3>1. DOMAIN s = 1..Len(s) /\ Len(s) \in Nat
      BY LenProperties
    <3>2. k \in 1..Len(s)
      BY <2>2, <3>1
    <3> QED BY <3>1, <3>2, RemoveAtProperties
  <2>5. DOMAIN t = 1..Len(s) - 1
    BY <2>4, LenProperties
  <2> HIDE DEF t
  <2> DEFINE from(j) == IF j < k THEN j ELSE j + 1
  <2>6. ASSUME NEW j \in DOMAIN t
        PROVE  from(j) \in DOMAIN s /\ from(j) # k /\ t[j] = s[from(j)] /\ j \in Nat
    BY <2>2, <2>4, <2>5, <2>6
  <2>7. ASSUME NEW i \in DOMAIN s, i # k PROVE \E j \in DOMAIN t : t[j] = s[i]
    <3>1. CASE i < k
      <4>1. i \in 1..k - 1 /\ i \in DOMAIN t
        BY <2>2, <2>4, <2>5, <3>1
      <4> QED BY <2>4, <4>1
    <3>2. CASE i > k
      <4>1. i - 1 \in k..Len(s) - 1 /\ i - 1 \in DOMAIN t /\ (i - 1) + 1 = i
        BY <2>2, <2>4, <2>5, <3>2
      <4> QED BY <2>4, <4>1
    <3> QED BY <2>2, <2>4, <2>7, <3>1, <3>2
  <2>8. Distinct(t)
    <3>1. ASSUME NEW i \in DOMAIN t, NEW j \in DOMAIN t, t[i] = t[j] PROVE i = j
      <4>1. from(i) = from(j) /\ i \in Nat /\ j \in Nat
        BY <2>6, <3>1 DEF Distinct
      <4> QED BY <2>2, <2>4, <4>1
    <3> QED BY <3>1 DEF Distinct
  <2>9. ToSet(t) \subseteq ToSet(s) \ {v}
    <3>1. ASSUME NEW j \in DOMAIN t PROVE t[j] \in ToSet(s) \ {v}
      <4>1. from(j) \in DOMAIN s /\ from(j) # k /\ t[j] = s[from(j)]
        BY <2>6
      <4> HIDE DEF from
      <4> QED BY <2>2, <4>1 DEF Distinct, ToSet
    <3> QED BY <3>1 DEF ToSet
  <2>10. ToSet(s) \ {v} \subseteq ToSet(t)
    BY <2>2, <2>7 DEF ToSet
  <2> QED BY <2>3, <2>8, <2>9, <2>10
<1> QED BY <1>1, <1>2

\* The empty sequence.
LEMMA DistinctEmpty == Distinct(<<>>)
  BY DEF Distinct
-----------------------------------------------------------------------------
(* The lists of variables *)

\* The lists are sequences, and the sets of their elements.
LEMMA ListTypes ==
    ASSUME AnnTypeOK
    PROVE  /\ inputs \in Seq(InputVars) /\ outputs \in Seq(OutputVars)
           /\ pendingAdd \in Seq(Variables) /\ pendingRemove \in Seq(Variables)
           /\ ToSet(inputs) \subseteq InputVars /\ ToSet(outputs) \subseteq OutputVars
  BY ToSetEmpty DEF AnnTypeOK

\* A new variable joins its list, or it waits.
LEMMA ListsAdd == ASSUME AnnTypeOK, ListsInv, NEW v \in Variables, AddVariable(v) PROVE ListsInv'
<1>1. /\ v \notin Known /\ v \notin freed
      /\ UNCHANGED <<pendingRemove, freed>>
  BY DEF AddVariable
<1>2. v \notin ToSet(inputs) /\ v \notin ToSet(outputs) /\ v \notin ToSet(pendingAdd)
  BY <1>1 DEF Known, Listed
<1>3. CASE anns # <<>>
  <2>1. pendingAdd' = Append(pendingAdd, v) /\ UNCHANGED <<inputs, outputs>>
    BY <1>3 DEF AddVariable
  <2>2. Distinct(Append(pendingAdd, v)) /\ ToSet(Append(pendingAdd, v)) = ToSet(pendingAdd) \cup {v}
    BY <1>2, ListTypes, DistinctAppend, ToSetAppend DEF ListsInv
  <2>3. Listed' = Listed /\ Known' = Known \cup {v} /\ ToSet(pendingAdd)' = ToSet(pendingAdd) \cup {v}
    BY <2>1, <2>2 DEF Listed, Known
  <2> QED BY <1>1, <1>2, <2>1, <2>2, <2>3 DEF ListsInv, NothingDangles, Listed
<1>4. CASE anns = <<>>
  <2>1. /\ inputs' = IF v \in InputVars THEN Append(inputs, v) ELSE inputs
        /\ outputs' = IF v \in OutputVars THEN Append(outputs, v) ELSE outputs
        /\ UNCHANGED pendingAdd
    BY <1>4 DEF AddVariable
  <2>2. Listed' = Listed \cup {v}
    BY <2>1, JoinListed
  <2>3. Distinct(inputs)' /\ Distinct(outputs)'
    BY <1>2, <2>1, ListTypes, DistinctAppend DEF ListsInv
  <2>4. Known' = Known \cup {v} /\ ToSet(pendingAdd)' = ToSet(pendingAdd)
    BY <2>1, <2>2 DEF Known
  <2> QED BY <1>1, <1>2, <2>1, <2>2, <2>3, <2>4 DEF ListsInv, NothingDangles
<1> QED BY <1>3, <1>4

\* A variable leaves at once, or it is noted.
LEMMA ListsRemove == ASSUME AnnTypeOK, ListsInv, NEW v \in Variables, RemoveVariable(v) PROVE ListsInv'
<1>1. v \in Known /\ v \notin ToSet(pendingRemove) /\ UNCHANGED pendingAdd
  BY DEF RemoveVariable
<1>2. CASE anns # <<>>
  <2>1. pendingRemove' = Append(pendingRemove, v) /\ UNCHANGED <<inputs, outputs, freed>>
    BY <1>2 DEF RemoveVariable
  <2>2. /\ Distinct(Append(pendingRemove, v))
        /\ ToSet(Append(pendingRemove, v)) = ToSet(pendingRemove) \cup {v}
    BY <1>1, ListTypes, DistinctAppend, ToSetAppend DEF ListsInv
  <2>3. /\ Listed' = Listed /\ Known' = Known
        /\ ToSet(pendingRemove)' = ToSet(pendingRemove) \cup {v}
    BY <1>1, <2>1, <2>2 DEF Listed, Known
  <2> QED BY <1>1, <2>1, <2>2, <2>3 DEF ListsInv, NothingDangles
<1>3. CASE anns = <<>>
  <2>1. /\ inputs' = Without(inputs, v) /\ outputs' = Without(outputs, v)
        /\ freed' = freed \cup ({v} \cap Listed)
        /\ UNCHANGED pendingRemove
    BY <1>3 DEF RemoveVariable
  <2>2. /\ Distinct(inputs)' /\ Distinct(outputs)'
        /\ ToSet(inputs)' = ToSet(inputs) \ {v} /\ ToSet(outputs)' = ToSet(outputs) \ {v}
    BY <2>1, ListTypes, DistinctWithout DEF ListsInv
  <2>3. Listed' = Listed \ {v} /\ ToSet(pendingAdd)' = ToSet(pendingAdd)
    BY <1>1, <2>2 DEF Listed
  <2>4. Known' = Listed' \cup ToSet(pendingAdd)
    BY <1>1 DEF Known
  <2> QED BY <1>1, <2>1, <2>2, <2>3, <2>4 DEF ListsInv, NothingDangles, Known
<1> QED BY <1>2, <1>3

\* The variable that waited longest joins its list.
LEMMA ListsMergeAdd == ASSUME AnnTypeOK, ListsInv, MergeAdd PROVE ListsInv'
<1> DEFINE v == Head(pendingAdd)
<1>1. /\ pendingAdd # <<>> /\ pendingAdd' = Tail(pendingAdd)
      /\ inputs' = IF v \in InputVars THEN Append(inputs, v) ELSE inputs
      /\ outputs' = IF v \in OutputVars THEN Append(outputs, v) ELSE outputs
      /\ UNCHANGED <<pendingRemove, freed>>
  BY DEF MergeAdd
<1>2. /\ v \in ToSet(pendingAdd) /\ ToSet(pendingAdd) = {v} \cup ToSet(Tail(pendingAdd))
      /\ Distinct(Tail(pendingAdd)) /\ v \notin ToSet(Tail(pendingAdd))
      /\ ToSet(pendingAdd) \subseteq Variables
  BY <1>1, ListTypes, ToSetTail, ToSetEmpty, DistinctTail DEF ListsInv
<1> HIDE DEF v
<1>3. v \notin ToSet(inputs) /\ v \notin ToSet(outputs) /\ v \in Variables
  BY <1>2 DEF ListsInv, Listed
<1>4. Listed' = Listed \cup {v}
  BY <1>1, <1>3, JoinListed
<1>5. Distinct(inputs)' /\ Distinct(outputs)'
  BY <1>1, <1>3, ListTypes, DistinctAppend DEF ListsInv
<1>6. ToSet(pendingAdd)' = ToSet(Tail(pendingAdd)) /\ Distinct(pendingAdd)'
  BY <1>1, <1>2
<1>7. Known' = Known
  BY <1>2, <1>4, <1>6 DEF Known
<1> QED BY <1>1, <1>2, <1>4, <1>5, <1>6, <1>7 DEF ListsInv, NothingDangles

\* The variable that was removed first is freed.
LEMMA ListsMergeRemove == ASSUME AnnTypeOK, ListsInv, MergeRemove PROVE ListsInv'
<1> DEFINE v == Head(pendingRemove)
<1>1. /\ pendingAdd = <<>> /\ pendingRemove # <<>> /\ pendingRemove' = Tail(pendingRemove)
      /\ inputs' = Without(inputs, v) /\ outputs' = Without(outputs, v)
      /\ freed' = freed \cup {v} /\ UNCHANGED pendingAdd
  BY DEF MergeRemove
<1>2. /\ ToSet(pendingRemove) = {v} \cup ToSet(Tail(pendingRemove))
      /\ Distinct(Tail(pendingRemove)) /\ v \notin ToSet(Tail(pendingRemove))
  BY <1>1, ListTypes, ToSetTail, DistinctTail DEF ListsInv
<1> HIDE DEF v
<1>3. /\ Distinct(inputs)' /\ Distinct(outputs)'
      /\ ToSet(inputs)' = ToSet(inputs) \ {v} /\ ToSet(outputs)' = ToSet(outputs) \ {v}
  BY <1>1, ListTypes, DistinctWithout DEF ListsInv
<1>4. Known = Listed /\ Known' = Listed' /\ Listed' = Listed \ {v} /\ ToSet(pendingAdd)' = {}
  BY <1>1, <1>3, NothingInEmpty DEF Known, Listed
<1> QED BY <1>1, <1>2, <1>3, <1>4 DEF ListsInv, NothingDangles

\* A variable that was freed is in no list any more, whatever the client adds
\* and removes, at whatever moment, and however processes end.
THEOREM AnnNothingDangles == AnnSpec => []NothingDangles
<1>1. AnnInit => ListsInv
  BY NothingInEmpty, DistinctEmpty DEF AnnInit, ListsInv, NothingDangles, Known, Listed
<1>2. AnnTypeOK /\ ListsInv /\ [AnnNext]_annVars => ListsInv'
  <2> SUFFICES ASSUME AnnTypeOK, ListsInv, [AnnNext]_annVars PROVE ListsInv'
    OBVIOUS
  <2>1. CASE UNCHANGED listVars
    BY <2>1 DEF listVars, ListsInv, NothingDangles, Known, Listed
  <2>2. CASE ClientStep
    BY <2>1, <2>2, ListsAdd, ListsRemove
       DEF ClientStep, EraseKnowledge, Load, SetInitialRequired, SetCacheMaxSize,
           SetStabilizationHits, SetMaxMemory, UsePseudorehearsal, SetLearnDisabled, Predict
  <2>3. CASE ProcessStep
    BY <2>1, <2>3, ListsMergeAdd, ListsMergeRemove
       DEF ProcessStep, HalvePool, AllocArrays, AllocRefused, AlreadyAllocated, LayoutUnchanged,
           LayoutRefused, LayoutTrainFails, LayoutChanged, StoreAndTrain, ReadFails, Read,
           StoreDisabled, StoreInPool, StoreRefused, StoreKnown, StoreTrainFails,
           StoreInNetworks, Act, ActNothing
  <2> QED BY <2>1, <2>2, <2>3 DEF AnnNext, annVars
<1>3. ListsInv => NothingDangles
  BY DEF ListsInv
<1> QED BY <1>1, <1>2, <1>3, AnnTypeCorrect, PTL DEF AnnSpec

-----------------------------------------------------------------------------
(* The networks in the cache: they fit the engine's variables, at most one *)
(* of them is in training, and the trained ones can be selected and have   *)
(* room for observations.                                                  *)

Fresh == NewAnn(Len(inputs), Len(outputs))
-----------------------------------------------------------------------------
(* Where the networks of a cache come from *)

LEMMA FreshType == AnnTypeOK => Fresh \in AnnRecord
  BY DEF AnnTypeOK, Fresh, NewAnn, AnnRecord

\* One element replaced.
LEMMA ElementsExcept ==
    ASSUME NEW S, NEW s \in Seq(S), NEW k \in DOMAIN s, NEW e
    PROVE  ToSet([s EXCEPT ![k] = e]) \subseteq ToSet(s) \cup {e}
<1> DEFINE t == [s EXCEPT ![k] = e]
<1>1. DOMAIN t = DOMAIN s /\ \A j \in DOMAIN s : t[j] \in {s[j], e}
  OBVIOUS
<1> HIDE DEF t
<1>2. ToSet(t) \subseteq ToSet(s) \cup {e}
  BY <1>1 DEF ToSet
<1> QED BY <1>2 DEF t

\* Networks change places when one is selected, none is added.
LEMMA ElementsSelected ==
    ASSUME AnnTypeOK, NEW i \in Selectable PROVE ToSet(Selected(i)) \subseteq ToSet(anns)
<1>1. anns \in Seq(AnnRecord) /\ i \in DOMAIN anns
  BY DEF AnnTypeOK, Selectable
<1>2. /\ RemoveAt(anns, i) \in Seq(AnnRecord) /\ ToSet(RemoveAt(anns, i)) \subseteq ToSet(anns)
      /\ anns[i] \in AnnRecord /\ anns[i] \in ToSet(anns)
  BY <1>1, ToSetRemoveAt, LenProperties, ElementOfSeq DEF ToSet
<1>3. ToSet(Append(RemoveAt(anns, i), anns[i])) = ToSet(RemoveAt(anns, i)) \cup {anns[i]}
  BY <1>2, ToSetAppend
<1> QED BY <1>2, <1>3 DEF Selected, Hit

\* The networks a training starts from: those of the cache, perhaps a new one.
\* Without pseudorehearsal the one to train is not trained yet.
LEMMA ElementsToTrain ==
    ASSUME AnnTypeOK
    PROVE  /\ ToSet(CacheToTrain) \subseteq ToSet(anns) \cup {Fresh}
           /\ CacheToTrain[ToTrain] \in ToSet(anns) \cup {Fresh}
           /\ ~pseudo => ~CacheToTrain[ToTrain].trained
<1>1. anns \in Seq(AnnRecord) /\ DOMAIN anns = 1..Len(anns) /\ Len(anns) \in Nat
  BY LenProperties DEF AnnTypeOK
<1>2. ToSet(CacheToTrain) \subseteq ToSet(anns) \cup {Fresh}
  <2>1. CASE InTraining # {}
    BY <2>1 DEF CacheToTrain
  <2>2. CASE InTraining = {}
    <3> DEFINE old == IF cacheMax # 0 /\ Len(anns) = cacheMax THEN Tail(anns) ELSE anns
    <3>1. old \in Seq(AnnRecord) /\ ToSet(old) \subseteq ToSet(anns)
      <4>1. CASE anns # <<>>
        BY <1>1, <4>1, ToSetTail
      <4>2. CASE anns = <<>>
        <5>1. Len(anns) = 0
          BY <4>2
        <5> QED BY <1>1, <5>1
      <4> QED BY <4>1, <4>2
    <3>2. CacheToTrain = Append(old, Fresh)
      BY <2>2 DEF CacheToTrain, Put, Fresh
    <3> HIDE DEF old
    <3> QED BY <3>1, <3>2, FreshType, ToSetAppend
  <2> QED BY <2>1, <2>2
<1>3. CacheToTrain[ToTrain] \in ToSet(CacheToTrain)
  BY CacheToTrainProperties DEF ToSet
<1>4. ASSUME ~pseudo PROVE ~CacheToTrain[ToTrain].trained
  <2>1. CASE InTraining # {}
    BY <1>4, <2>1 DEF CacheToTrain, ToTrain, InTraining, Untrained
  <2>2. CASE InTraining = {}
    <3>1. ToTrain = Len(CacheToTrain)
      BY <2>2 DEF ToTrain
    <3>2. CacheToTrain[Len(CacheToTrain)] = Fresh
      <4> DEFINE old == IF cacheMax # 0 /\ Len(anns) = cacheMax THEN Tail(anns) ELSE anns
      <4>1. old \in Seq(AnnRecord)
        <5>1. CASE anns # <<>>
          BY <1>1, <5>1, ToSetTail
        <5>2. CASE anns = <<>>
          <6>1. Len(anns) = 0
            BY <5>2
          <6> QED BY <1>1, <6>1
        <5> QED BY <5>1, <5>2
      <4>2. CacheToTrain = Append(old, Fresh)
        BY <2>2 DEF CacheToTrain, Put, Fresh
      <4> HIDE DEF old
      <4> QED BY <4>1, <4>2, FreshType, AppendProperties
    <3>3. ~Fresh.trained
      BY DEF Fresh, NewAnn
    <3> QED BY <3>1, <3>2, <3>3
  <2> QED BY <2>1, <2>2
<1> QED BY <1>2, <1>3, <1>4

\* The newest networks of a cache.
LEMMA ElementsShrunk ==
    ASSUME AnnTypeOK, NEW n \in CacheArgs, SetCacheMaxSize(n)
    PROVE  ToSet(anns') \subseteq ToSet(anns)
<1> DEFINE m == n % U16
           t == SubSeq(anns, Len(anns) - m + 1, Len(anns))
<1>1. anns \in Seq(AnnRecord) /\ DOMAIN anns = 1..Len(anns) /\ Len(anns) \in Nat
  BY LenProperties DEF AnnTypeOK
<1>2. m \in Nat
  BY Constants, Arithmetic
<1>3. anns' \in {t, anns} /\ (anns' = t => Len(anns) > m \/ t = anns)
  BY DEF SetCacheMaxSize
<1> HIDE DEF m
<1>4. ASSUME Len(anns) > m PROVE \A j \in DOMAIN t : t[j] = anns[Len(anns) - m + j]
                                                     /\ Len(anns) - m + j \in 1..Len(anns)
  <2>1. Len(anns) - m + 1 \in 1..Len(anns) + 1
    BY <1>1, <1>2, <1>4
  <2>2. DOMAIN t = 1..m /\ \A j \in 1..m : t[j] = anns[Len(anns) - m + 1 + j - 1]
    BY <1>1, <1>2, <1>4
  <2> QED BY <1>1, <1>2, <1>4, <2>2
<1>5. Len(anns) > m => ToSet(t) \subseteq ToSet(anns)
  <2> HIDE DEF t
  <2> QED BY <1>1, <1>4 DEF ToSet
<1> QED BY <1>3, <1>5
-----------------------------------------------------------------------------
(* Networks fit the variables *)

Fits(a) == a.loaded \/ a.layout = <<Len(inputs), Len(outputs)>>
AllFit == pc # "merging" => \A a \in ToSet(anns) : Fits(a)

\* Training leaves the shape of a network and its place in its own array.
LEMMA TrainedShape ==
    ASSUME NEW a \in AnnRecord, NEW n, NEW e, NEW vs
    PROVE  LET b == Trained(a, n, e, vs).ann
           IN b.loaded = a.loaded /\ b.layout = a.layout /\ b.obsIdx = a.obsIdx /\ b.erred
<1> DEFINE tried == [a EXCEPT !.erred = TRUE, !.trained = @ \/ e # "more"]
           Same(b) == /\ b.loaded = a.loaded /\ b.layout = a.layout
                      /\ b.obsIdx = a.obsIdx /\ b.erred
                      /\ DOMAIN b = DOMAIN a
<1>1. Same(tried) /\ DOMAIN a = {"trained", "ci", "required", "obsIdx", "erred", "loaded", "layout"}
  BY DEF AnnRecord
<1>2. ASSUME NEW b, Same(b), NEW m PROVE Same(ConsiderTrained(b, m))
  BY <1>1, <1>2 DEF ConsiderTrained
<1> HIDE DEF tried, Same
<1>3. Same(Trained(a, n, e, vs).ann)
  <2> DEFINE suggested == Suggestion(n, e)
             learnt == IF tried.trained THEN ConsiderTrained(tried, suggested) ELSE tried
             full == suggested > required /\ ~CanAlloc(vs, suggested)
  <2>1. Same(learnt)
    BY <1>1, <1>2
  <2>2. Trained(a, n, e, vs).ann = IF full THEN ConsiderTrained(learnt, required) ELSE learnt
    BY DEF Trained, tried
  <2> HIDE DEF learnt, full
  <2> QED BY <1>2, <2>1, <2>2
<1> QED BY <1>3 DEF Same

\* A network gets an observation.
LEMMA AddObservationShape ==
    ASSUME NEW a \in AnnRecord
    PROVE  LET b == AddObservation(a)
           IN /\ b.loaded = a.loaded /\ b.layout = a.layout
              /\ b.trained = a.trained /\ b.ci = a.ci /\ b.required = a.required
              /\ b.erred = a.erred
  BY DEF AddObservation, AnnRecord

\* A network that this engine made has its inputs and outputs, whatever the
\* client calls and however trainings end: no change of the lists leaves a
\* network of the old layout behind.
THEOREM AnnBuiltForLayout == AnnSpec => []BuiltForLayout
<1>1. AnnInit => AllFit
  BY NothingInEmpty DEF AnnInit, AllFit
<1>2. AnnTypeOK /\ AllFit /\ [AnnNext]_annVars => AllFit'
  <2> SUFFICES ASSUME AnnTypeOK, AllFit, [AnnNext]_annVars PROVE AllFit'
    OBVIOUS
  <2> USE DEF listVars, poolVars, cacheVars, modeVars, hitVars
  <2>0. anns \in Seq(AnnRecord) /\ ToSet(anns) \subseteq AnnRecord
    BY ToSetEmpty DEF AnnTypeOK
  <2>1. Fits(Fresh)
    BY DEF Fits, Fresh, NewAnn
  <2>2. ASSUME ToSet(anns') \subseteq ToSet(anns), UNCHANGED <<inputs, outputs>>,
               pc = "merging" => pc' = "merging"
        PROVE  AllFit'
    BY <2>2 DEF AllFit, Fits
  <2>3. ASSUME pc # "merging", UNCHANGED <<inputs, outputs>>,
               \A x \in ToSet(anns') : x \in ToSet(anns) \/ Fits(x)
        PROVE  AllFit'
    BY <2>3 DEF AllFit, Fits
  <2>4. ASSUME anns' = <<>> PROVE AllFit'
    BY <2>4, NothingInEmpty DEF AllFit
  <2>5. CASE ClientStep
    <3>1. ASSUME NEW v \in Variables, AddVariable(v) \/ RemoveVariable(v) PROVE AllFit'
      BY <2>2, <2>4, <3>1 DEF AddVariable, RemoveVariable
    <3>2. CASE EraseKnowledge
      BY <2>4, <3>2 DEF EraseKnowledge
    <3>3. ASSUME NEW n \in LoadCounts, Load(n) PROVE AllFit'
      <4>1. \A i \in DOMAIN anns' : anns'[i].loaded
        BY <3>3 DEF Load, NewAnn
      <4> QED BY <4>1 DEF AllFit, Fits, ToSet
    <3>4. ASSUME NEW n \in CacheArgs, SetCacheMaxSize(n) PROVE AllFit'
      BY <2>2, <3>4, ElementsShrunk DEF SetCacheMaxSize
    <3>5. ASSUME NEW i \in Selectable, Predict(i) PROVE AllFit'
      BY <2>2, <3>5, ElementsSelected DEF Predict
    <3>6. ASSUME NEW n, \/ SetInitialRequired(n) \/ SetStabilizationHits(n) \/ SetMaxMemory(n)
                        \/ UsePseudorehearsal(n) \/ SetLearnDisabled(n)
          PROVE  AllFit'
      BY <2>2, <3>6 DEF SetInitialRequired, SetStabilizationHits, SetMaxMemory,
                        UsePseudorehearsal, SetLearnDisabled
    <3> QED BY <2>5, <3>1, <3>2, <3>3, <3>4, <3>5, <3>6 DEF ClientStep
  <2>6. CASE ProcessStep
    <3>1. CASE \/ HalvePool \/ AllocArrays \/ AllocRefused \/ AlreadyAllocated \/ LayoutUnchanged
               \/ ReadFails \/ StoreDisabled \/ StoreInPool \/ StoreRefused \/ StoreKnown \/ ActNothing
      BY <2>2, <3>1 DEF HalvePool, AllocArrays, AllocRefused, AlreadyAllocated, LayoutUnchanged,
                        ReadFails, StoreDisabled, StoreInPool, StoreRefused, StoreKnown, ActNothing
    <3>2. CASE MergeAdd \/ MergeRemove
      BY <3>2 DEF MergeAdd, MergeRemove, AllFit
    <3>3. CASE LayoutRefused
      BY <2>4, <3>3 DEF LayoutRefused
    <3>4. ASSUME NEW e, LayoutChanged(e) \/ LayoutTrainFails PROVE AllFit'
      <4>1. PICK a : anns' = <<a>> /\ UNCHANGED <<inputs, outputs>> /\ Fits(a)
        <5>1. Fits(Trained(Fresh, required, e, Len(inputs) + Len(outputs)).ann)
          BY <2>1, FreshType, TrainedShape DEF Fits
        <5> QED BY <2>1, <3>4, <5>1 DEF LayoutChanged, LayoutTrainFails, Fresh
      <4>2. ToSet(anns') = {a}
        BY <4>1 DEF ToSet
      <4> QED BY <4>1, <4>2 DEF AllFit, Fits
    <3>5. ASSUME NEW inChange \in BOOLEAN, NEW outChange \in BOOLEAN, Read(inChange, outChange)
          PROVE  AllFit'
      BY <2>2, <3>5 DEF Read
    <3>6. ASSUME NEW matching \in SUBSET DOMAIN anns, StoreInNetworks(matching) PROVE AllFit'
      <4>1. /\ pc # "merging" /\ UNCHANGED <<inputs, outputs>> /\ DOMAIN anns' = DOMAIN anns
            /\ \A i \in DOMAIN anns : anns'[i] \in {anns[i], AddObservation(anns[i])}
        BY <3>6 DEF StoreInNetworks
      <4>2. ASSUME NEW i \in DOMAIN anns PROVE Fits(anns'[i])
        <5>1. anns[i] \in AnnRecord /\ Fits(anns[i])
          BY <2>0, <4>1 DEF ToSet, AllFit
        <5> QED BY <4>1, <5>1, AddObservationShape DEF Fits
      <4> QED BY <4>1, <4>2 DEF AllFit, Fits, ToSet
    <3>7. ASSUME NEW e \in Endings, StoreAndTrain(e) PROVE AllFit'
      <4> DEFINE a == CacheToTrain[ToTrain]
      <4>1. PICK n, vs : anns' = [CacheToTrain EXCEPT ![ToTrain] = Trained(a, n, e, vs).ann]
        BY <3>7 DEF StoreAndTrain
      <4>2. pc # "merging" /\ UNCHANGED <<inputs, outputs>>
        BY <3>7 DEF StoreAndTrain
      <4>3. /\ ToSet(CacheToTrain) \subseteq ToSet(anns) \cup {Fresh}
            /\ a \in ToSet(anns) \cup {Fresh}
            /\ CacheToTrain \in Seq(AnnRecord) /\ ToTrain \in DOMAIN CacheToTrain
        BY ElementsToTrain, CacheToTrainProperties
      <4> HIDE DEF a
      <4>4. a \in AnnRecord /\ Fits(a)
        BY <2>0, <2>1, <4>2, <4>3, FreshType DEF AllFit
      <4> DEFINE b == Trained(a, n, e, vs).ann
      <4>5. Fits(b)
        BY <4>4, TrainedShape DEF Fits
      <4> HIDE DEF b
      <4>6. ToSet([CacheToTrain EXCEPT ![ToTrain] = b]) \subseteq ToSet(CacheToTrain) \cup {b}
        BY <4>3, ElementsExcept
      <4>7. anns' = [CacheToTrain EXCEPT ![ToTrain] = b]
        BY <4>1 DEF b
      <4>8. \A x \in ToSet(anns') : x \in ToSet(anns) \/ Fits(x)
        BY <2>1, <4>3, <4>5, <4>6, <4>7
      <4> QED BY <2>3, <4>2, <4>8
    <3>8. CASE StoreTrainFails
      <4>1. /\ pc # "merging" /\ UNCHANGED <<inputs, outputs>>
            /\ anns' \in {CacheToTrain, RemoveAt(CacheToTrain, ToTrain)}
        BY <3>8 DEF StoreTrainFails
      <4>2. \A x \in ToSet(anns') : x \in ToSet(anns) \/ Fits(x)
        BY <2>1, <4>1, ElementsToTrain, CacheToTrainProperties, ToSetRemoveAt
      <4> QED BY <2>3, <4>1, <4>2
    <3>9. ASSUME NEW i \in Selectable, NEW announced \in BOOLEAN, Act(i, announced) PROVE AllFit'
      BY <2>2, <3>9, ElementsSelected DEF Act
    <3> QED BY <2>6, <3>1, <3>2, <3>3, <3>4, <3>5, <3>6, <3>7, <3>8, <3>9 DEF ProcessStep
  <2>7. CASE UNCHANGED annVars
    BY <2>2, <2>7 DEF annVars
  <2> QED BY <2>5, <2>6, <2>7 DEF AnnNext
<1>3. AllFit => BuiltForLayout
  BY DEF AllFit, Fits, BuiltForLayout, ToSet
<1> QED BY <1>1, <1>2, <1>3, AnnTypeCorrect, PTL DEF AnnSpec
-----------------------------------------------------------------------------
(* One network in training *)

Single(s) == \A j, k \in DOMAIN s : ~s[j].trained /\ ~s[k].trained => j = k

\* One network removed, wherever it was.
LEMMA SingleRemoveAt ==
    ASSUME NEW S, NEW s \in Seq(S), NEW i \in DOMAIN s, Single(s)
    PROVE  Single(RemoveAt(s, i))
<1> DEFINE t == RemoveAt(s, i)
           from(j) == IF j < i THEN j ELSE j + 1
<1>1. DOMAIN s = 1..Len(s) /\ Len(s) \in Nat /\ i \in 1..Len(s)
  BY LenProperties
<1>2. /\ t \in Seq(S) /\ Len(t) = Len(s) - 1
      /\ \A j \in 1..i - 1 : t[j] = s[j]
      /\ \A j \in i..Len(s) - 1 : t[j] = s[j + 1]
  BY <1>1, RemoveAtProperties
<1>3. DOMAIN t = 1..Len(s) - 1
  BY <1>2, LenProperties
<1> HIDE DEF t
<1>4. ASSUME NEW j \in DOMAIN t PROVE from(j) \in DOMAIN s /\ t[j] = s[from(j)] /\ j \in Nat
  BY <1>1, <1>2, <1>3, <1>4
<1>5. ASSUME NEW j \in DOMAIN t, NEW k \in DOMAIN t, ~t[j].trained, ~t[k].trained PROVE j = k
  <2>1. from(j) = from(k) /\ j \in Nat /\ k \in Nat
    BY <1>4, <1>5 DEF Single
  <2> QED BY <1>1, <2>1
<1> QED BY <1>5 DEF Single, t

\* The newest networks.
LEMMA SingleSubSeq ==
    ASSUME NEW S, NEW s \in Seq(S), NEW m \in Nat, m < Len(s), Single(s)
    PROVE  Single(SubSeq(s, Len(s) - m + 1, Len(s)))
<1> DEFINE t == SubSeq(s, Len(s) - m + 1, Len(s))
<1>1. DOMAIN s = 1..Len(s) /\ Len(s) \in Nat
  BY LenProperties
<1>2. Len(s) - m + 1 \in 1..Len(s) + 1
  BY <1>1
<1>3. DOMAIN t = 1..m /\ \A j \in 1..m : t[j] = s[Len(s) - m + 1 + j - 1]
  BY <1>1, <1>2
<1> HIDE DEF t
<1>4. \A j \in DOMAIN t : j \in Nat /\ Len(s) - m + j \in DOMAIN s /\ t[j] = s[Len(s) - m + j]
  BY <1>1, <1>3
<1>5. ASSUME NEW j \in DOMAIN t, NEW k \in DOMAIN t, ~t[j].trained, ~t[k].trained PROVE j = k
  <2>1. Len(s) - m + j = Len(s) - m + k
    BY <1>4, <1>5 DEF Single
  <2> QED BY <1>1, <1>4, <2>1
<1> QED BY <1>5 DEF Single, t

\* A network added at the end, when it or all others are trained.
LEMMA SingleAppend ==
    ASSUME NEW S, NEW s \in Seq(S), NEW e \in S, Single(s),
           e.trained \/ \A j \in DOMAIN s : s[j].trained
    PROVE  Single(Append(s, e))
<1> DEFINE t == Append(s, e)
<1>1. /\ DOMAIN s = 1..Len(s) /\ Len(s) \in Nat /\ DOMAIN t = 1..Len(s) + 1
      /\ \A j \in 1..Len(s) : t[j] = s[j]
      /\ t[Len(s) + 1] = e
  BY AppendProperties, LenProperties
<1> HIDE DEF t
<1>2. \A j \in DOMAIN t : j \in 1..Len(s) \/ j = Len(s) + 1
  BY <1>1
<1>3. ASSUME NEW j \in DOMAIN t, NEW k \in DOMAIN t, ~t[j].trained, ~t[k].trained PROVE j = k
  <2>1. CASE j \in 1..Len(s) /\ k \in 1..Len(s)
    BY <1>1, <1>3, <2>1 DEF Single
  <2>2. CASE e.trained
    BY <1>1, <1>2, <1>3, <2>1, <2>2
  <2>3. CASE \A i \in DOMAIN s : s[i].trained
    BY <1>1, <1>2, <1>3, <2>3
  <2> QED BY <2>2, <2>3
<1> QED BY <1>3 DEF Single, t

\* The network in training is the one that is trained next: no other is
\* untrained in the cache the training works on.
LEMMA OthersTrained ==
    ASSUME AnnTypeOK, ~pseudo, Single(anns)
    PROVE  \A j \in DOMAIN CacheToTrain : ~CacheToTrain[j].trained => j = ToTrain
<1>1. anns \in Seq(AnnRecord) /\ DOMAIN anns = 1..Len(anns) /\ Len(anns) \in Nat
  BY LenProperties DEF AnnTypeOK
<1>2. \A j \in Untrained : InTraining = {j}
  <2>1. ASSUME NEW j \in Untrained, NEW k \in Untrained PROVE j = k /\ j <= j
    BY <1>1, <2>1 DEF Single, Untrained
  <2> QED BY <2>1 DEF InTraining
<1>3. CASE InTraining # {}
  <2>1. CacheToTrain = anns /\ ToTrain \in InTraining
    BY <1>3 DEF CacheToTrain, ToTrain
  <2>2. ASSUME NEW j \in DOMAIN anns, ~anns[j].trained PROVE j = ToTrain
    <3>1. j \in Untrained
      BY <2>2 DEF Untrained
    <3> QED BY <1>2, <2>1, <3>1
  <2> QED BY <2>1, <2>2
<1>4. CASE InTraining = {}
  <2> DEFINE old == IF cacheMax # 0 /\ Len(anns) = cacheMax THEN Tail(anns) ELSE anns
  <2>1. \A j \in DOMAIN anns : anns[j].trained
    BY <1>2, <1>4 DEF Untrained
  <2>2. old \in Seq(AnnRecord) /\ \A j \in DOMAIN old : old[j].trained
    <3>1. CASE anns # <<>>
      <4>1. Tail(anns) \in Seq(AnnRecord) /\ ToSet(Tail(anns)) \subseteq ToSet(anns)
        BY <1>1, <3>1, ToSetTail
      <4>2. \A j \in DOMAIN Tail(anns) : Tail(anns)[j].trained
        BY <2>1, <4>1 DEF ToSet
      <4> QED BY <1>1, <2>1, <4>1, <4>2
    <3>2. CASE anns = <<>>
      <4>1. Len(anns) = 0
        BY <3>2
      <4> QED BY <1>1, <2>1, <4>1
    <3> QED BY <3>1, <3>2
  <2>3. CacheToTrain = Append(old, Fresh) /\ ToTrain = Len(CacheToTrain)
    BY <1>4 DEF CacheToTrain, Put, Fresh, ToTrain
  <2> HIDE DEF old
  <2>4. /\ DOMAIN old = 1..Len(old) /\ Len(old) \in Nat
        /\ DOMAIN CacheToTrain = 1..Len(old) + 1 /\ ToTrain = Len(old) + 1
        /\ \A j \in 1..Len(old) : CacheToTrain[j] = old[j]
    BY <2>2, <2>3, FreshType, AppendProperties, LenProperties
  <2> QED BY <2>2, <2>4
<1> QED BY <1>3, <1>4

\* Selecting a trained network leaves the one in training alone.
LEMMA SingleSelected ==
    ASSUME AnnTypeOK, NEW i \in Selectable, Single(anns) PROVE Single(Selected(i))
<1>1. anns \in Seq(AnnRecord) /\ i \in DOMAIN anns /\ anns[i].trained
  BY DEF AnnTypeOK, Selectable
<1>2. RemoveAt(anns, i) \in Seq(AnnRecord) /\ anns[i] \in AnnRecord
  BY <1>1, ToSetRemoveAt, LenProperties, ElementOfSeq
<1>3. Single(RemoveAt(anns, i))
  BY <1>1, SingleRemoveAt
<1>4. Single(Append(RemoveAt(anns, i), anns[i]))
  BY <1>1, <1>2, <1>3, SingleAppend
<1> QED BY <1>4 DEF Selected, Hit

\* Without pseudorehearsal at most one network is in training, however often
\* the pool grows, trainings fail and the cache is reordered or cut: the search
\* for it in store_observations cannot miss another.
THEOREM WellUsedOneInTraining == WellUsedSpec => []OneInTraining
<1> DEFINE One == ~pseudo => Single(anns)
<1>1. AnnInit => One
  BY DEF AnnInit
<1>2. AnnTypeOK /\ One /\ [AnnNext /\ WellUsed]_annVars => One'
  <2> SUFFICES ASSUME AnnTypeOK, One, [AnnNext /\ WellUsed]_annVars PROVE One'
    OBVIOUS
  <2> USE DEF listVars, poolVars, cacheVars, modeVars, hitVars
  <2>0. anns \in Seq(AnnRecord) /\ DOMAIN anns = 1..Len(anns) /\ Len(anns) \in Nat
    BY LenProperties DEF AnnTypeOK
  <2>1. CASE UNCHANGED <<anns, pseudo>>
    BY <2>1
  <2>2. ASSUME UNCHANGED pseudo, ~pseudo => Single(anns') PROVE One'
    BY <2>2
  <2>3. ASSUME NEW a, anns' = <<a>> PROVE One'
    BY <2>3 DEF Single
  <2>4. ASSUME anns' = <<>> PROVE One'
    BY <2>4 DEF Single
  <2>5. CASE ClientStep /\ WellUsed
    <3>1. ASSUME NEW b \in BOOLEAN, UsePseudorehearsal(b) PROVE One'
      <4>1. CASE pseudo' = pseudo
        BY <2>1, <3>1, <4>1 DEF UsePseudorehearsal
      <4>2. CASE pseudo' # pseudo
        BY <2>4, <2>5, <3>1, <4>2 DEF UsePseudorehearsal, WellUsed
      <4> QED BY <4>1, <4>2
    <3>2. CASE EraseKnowledge
      BY <2>4, <3>2 DEF EraseKnowledge
    <3>3. ASSUME NEW n \in LoadCounts, Load(n) PROVE One'
      <4>1. UNCHANGED pseudo /\ \A i \in DOMAIN anns' : anns'[i].trained
        BY <3>3 DEF Load, NewAnn
      <4> QED BY <2>2, <4>1 DEF Single
    <3>4. ASSUME NEW n \in CacheArgs, SetCacheMaxSize(n) PROVE One'
      <4> DEFINE m == n % U16
      <4>1. m \in Nat
        BY Constants, Arithmetic
      <4>2. UNCHANGED pseudo
            /\ anns' = IF Len(anns) > m THEN SubSeq(anns, Len(anns) - m + 1, Len(anns)) ELSE anns
        BY <3>4 DEF SetCacheMaxSize
      <4> HIDE DEF m
      <4>3. Len(anns) > m /\ ~pseudo => Single(SubSeq(anns, Len(anns) - m + 1, Len(anns)))
        BY <2>0, <4>1, SingleSubSeq
      <4> QED BY <2>2, <4>2, <4>3
    <3>5. ASSUME NEW i \in Selectable, Predict(i) PROVE One'
      BY <2>2, <3>5, SingleSelected DEF Predict
    <3>6. ASSUME NEW n, \/ AddVariable(n) \/ RemoveVariable(n) \/ SetInitialRequired(n)
                        \/ SetStabilizationHits(n) \/ SetMaxMemory(n) \/ SetLearnDisabled(n)
          PROVE  One'
      BY <2>1, <3>6 DEF AddVariable, RemoveVariable, SetInitialRequired, SetStabilizationHits,
                        SetMaxMemory, SetLearnDisabled
    <3> QED BY <2>5, <3>1, <3>2, <3>3, <3>4, <3>5, <3>6 DEF ClientStep
  <2>6. CASE ProcessStep
    <3>1. CASE \/ HalvePool \/ AllocArrays \/ AllocRefused \/ AlreadyAllocated \/ LayoutUnchanged
               \/ MergeAdd \/ MergeRemove
               \/ ReadFails \/ StoreDisabled \/ StoreInPool \/ StoreRefused \/ StoreKnown \/ ActNothing
      BY <2>1, <3>1 DEF HalvePool, AllocArrays, AllocRefused, AlreadyAllocated, LayoutUnchanged,
                        MergeAdd, MergeRemove, ReadFails, StoreDisabled, StoreInPool,
                        StoreRefused, StoreKnown, ActNothing
    <3>2. CASE LayoutRefused
      BY <2>4, <3>2 DEF LayoutRefused
    <3>3. ASSUME NEW e, LayoutChanged(e) \/ LayoutTrainFails PROVE One'
      BY <2>3, <3>3 DEF LayoutChanged, LayoutTrainFails
    <3>4. ASSUME NEW inChange \in BOOLEAN, NEW outChange \in BOOLEAN, Read(inChange, outChange)
          PROVE  One'
      BY <2>1, <3>4 DEF Read
    <3>5. ASSUME NEW matching \in SUBSET DOMAIN anns, StoreInNetworks(matching) PROVE One'
      <4>1. /\ UNCHANGED pseudo /\ DOMAIN anns' = DOMAIN anns
            /\ \A i \in DOMAIN anns : anns'[i] \in {anns[i], AddObservation(anns[i])}
        BY <3>5 DEF StoreInNetworks
      <4>2. ASSUME NEW i \in DOMAIN anns PROVE anns'[i].trained = anns[i].trained
        <5>1. anns[i] \in AnnRecord
          BY <2>0, ElementOfSeq
        <5> QED BY <4>1, <5>1, AddObservationShape
      <4> QED BY <2>2, <4>1, <4>2 DEF Single
    <3>6. CASE StoreTrainFails \/ \E e \in Endings : StoreAndTrain(e)
      <4>1. /\ UNCHANGED pseudo
            /\ ~pseudo => \/ anns' = RemoveAt(CacheToTrain, ToTrain)
                          \/ \E a : anns' = [CacheToTrain EXCEPT ![ToTrain] = a]
        BY <3>6 DEF StoreTrainFails, StoreAndTrain
      <4>2. CacheToTrain \in Seq(AnnRecord) /\ ToTrain \in DOMAIN CacheToTrain
        BY CacheToTrainProperties
      <4>3. ASSUME ~pseudo PROVE Single(anns')
        <5>1. \A j \in DOMAIN CacheToTrain : ~CacheToTrain[j].trained => j = ToTrain
          BY <4>3, OthersTrained
        <5>2. Single(CacheToTrain)
          BY <5>1 DEF Single
        <5>3. CASE anns' = RemoveAt(CacheToTrain, ToTrain)
          BY <4>2, <5>2, <5>3, SingleRemoveAt
        <5>4. ASSUME NEW a, anns' = [CacheToTrain EXCEPT ![ToTrain] = a] PROVE Single(anns')
          <6>1. DOMAIN anns' = DOMAIN CacheToTrain
                /\ \A j \in DOMAIN anns' : j # ToTrain => anns'[j] = CacheToTrain[j]
            BY <5>4
          <6> QED BY <5>1, <6>1 DEF Single
        <5> QED BY <4>1, <4>3, <5>3, <5>4
      <4> QED BY <2>2, <4>1, <4>3
    <3>7. ASSUME NEW i \in Selectable, NEW announced \in BOOLEAN, Act(i, announced) PROVE One'
      BY <2>2, <3>7, SingleSelected DEF Act
    <3> QED BY <2>6, <3>1, <3>2, <3>3, <3>4, <3>5, <3>6, <3>7 DEF ProcessStep
  <2> QED BY <2>1, <2>5, <2>6 DEF AnnNext, annVars
<1>3. One => OneInTraining
  BY DEF Single, OneInTraining, Untrained
<1>4. AnnTypeOK /\ [AnnNext /\ WellUsed]_annVars => AnnTypeOK'
  BY StepTypes
<1> QED BY <1>1, <1>2, <1>3, <1>4, InitialTypes, PTL DEF WellUsedSpec
-----------------------------------------------------------------------------
(* Networks that can be used *)

\* Without pseudorehearsal the trained networks are those with confidence
\* intervals, with it no network has them.  A network that has been trained in
\* vain has made the pool grow: halving a suggestion never leaves nothing.
Sound(a) ==
    /\ pseudo => ~a.ci
    /\ ~pseudo => (a.trained <=> a.ci)
    /\ a.ci => a.obsIdx < a.required
    /\ ~a.ci => a.obsIdx = 0
    /\ a.erred /\ ~a.trained => required >= 2
    /\ a.erred /\ ~a.trained /\ firstRun /\ pc # "merging" =>
          CanAlloc(Len(inputs) + Len(outputs), required)

AllSound == \A a \in ToSet(anns) : Sound(a)

\* What considering a network trained does to a network in training.
LEMMA ConsiderTrainedSound ==
    ASSUME pseudo \in BOOLEAN, NEW a \in AnnRecord, NEW n \in Nat, n > 0, a.obsIdx = 0,
           pseudo => ~a.ci
    PROVE  LET b == ConsiderTrained(a, n)
           IN /\ b.trained /\ (b.ci <=> ~pseudo) /\ b.obsIdx = 0
              /\ b.ci => b.required > 0
<1> DEFINE b == ConsiderTrained(a, n)
<1>1. b = [a EXCEPT !.trained = TRUE, !.ci = @ \/ ~pseudo, !.required = IF pseudo THEN @ ELSE n]
  BY DEF ConsiderTrained
<1>2. b.trained /\ b.ci = (a.ci \/ ~pseudo) /\ b.required = (IF pseudo THEN a.required ELSE n)
      /\ b.obsIdx = a.obsIdx
  BY <1>1 DEF AnnRecord
<1> HIDE DEF b
<1>3. b.trained /\ (b.ci <=> ~pseudo) /\ b.obsIdx = 0 /\ (b.ci => b.required > 0)
  BY <1>2
<1> QED BY <1>3 DEF b

\* Training keeps a network sound, however it ends.
LEMMA TrainedSound ==
    ASSUME AnnTypeOK, NEW a \in AnnRecord, Sound(a), required > 0, ~pseudo => ~a.trained,
           NEW n \in Nat, n = required \/ (a.trained /\ n > 0),
           NEW e \in Endings, e = "worse" => a.erred, NEW vs \in Nat
    PROVE  LET r == Trained(a, n, e, vs)
               b == r.ann
           IN /\ pseudo => ~b.ci
              /\ ~pseudo => (b.trained <=> b.ci)
              /\ b.ci => b.obsIdx < b.required
              /\ ~b.ci => b.obsIdx = 0
              /\ ~b.trained => r.required >= 2 /\ CanAlloc(vs, r.required)
<1> DEFINE suggested == Suggestion(n, e)
           tried == [a EXCEPT !.erred = TRUE, !.trained = @ \/ e # "more"]
           learnt == IF tried.trained THEN ConsiderTrained(tried, suggested) ELSE tried
           full == suggested > required /\ ~CanAlloc(vs, suggested)
           final == IF full THEN ConsiderTrained(learnt, required) ELSE learnt
           size == IF suggested > required /\ ~full /\ ~final.trained THEN suggested ELSE required
           r == Trained(a, n, e, vs)
           Good(b) == /\ b.obsIdx = 0 /\ (pseudo => ~b.ci)
                      /\ ~pseudo => (b.trained <=> b.ci)
                      /\ b.ci => b.required > 0
<1>0. required \in Nat /\ pseudo \in BOOLEAN
  BY DEF AnnTypeOK
<1>1. r.ann = final /\ r.required = size
  BY DEF Trained
<1>2. /\ a.obsIdx = 0 /\ ~a.ci
      /\ a.erred /\ ~a.trained => required >= 2
  BY DEF Sound
<1>3. suggested \in Nat /\ (e = "more" => suggested = 2 * n)
  <2>1. n \div 2 \in Nat /\ 2 * n \in Nat
    BY Arithmetic
  <2> QED BY <2>1 DEF Suggestion, Endings
<1>4. ~pseudo => suggested > 0
  <2>1. CASE e = "worse"
    BY <1>0, <1>2, <2>1 DEF Suggestion
  <2>2. CASE e # "worse"
    BY <1>0, <2>2 DEF Suggestion, Endings
  <2> QED BY <2>1, <2>2
<1>5. /\ tried \in AnnRecord /\ tried.obsIdx = a.obsIdx /\ tried.ci = a.ci
      /\ tried.trained = (a.trained \/ e # "more")
  <2>1. (a.trained \/ e # "more") \in BOOLEAN
    OBVIOUS
  <2> QED BY <2>1 DEF AnnRecord
<1> HIDE DEF suggested, tried
<1>6. learnt \in AnnRecord /\ Good(learnt) /\ (learnt.trained <=> tried.trained)
  <2>1. CASE tried.trained /\ ~pseudo
    BY <1>0, <1>2, <1>3, <1>4, <1>5, <2>1, ConsiderTrainedSound, ConsiderTrainedProperties
  <2>2. CASE tried.trained /\ pseudo
    <3>1. learnt \in AnnRecord /\ learnt.trained
      BY <1>0, <1>3, <1>5, <2>2, ConsiderTrainedProperties
    <3>2. learnt.ci = tried.ci /\ learnt.obsIdx = tried.obsIdx
      <4>1. learnt = [tried EXCEPT !.trained = TRUE, !.ci = @ \/ ~pseudo, !.required = @]
        BY <2>2 DEF ConsiderTrained
      <4> QED BY <1>2, <1>5, <2>2, <4>1 DEF AnnRecord
    <3> QED BY <1>2, <1>5, <2>2, <3>1, <3>2
  <2>3. CASE ~tried.trained
    BY <1>2, <1>5, <2>3
  <2> QED BY <2>1, <2>2, <2>3
<1> HIDE DEF learnt
<1>7. Good(final) /\ (final.trained <=> learnt.trained \/ full)
  <2>1. CASE full
    BY <1>0, <1>6, <2>1, ConsiderTrainedSound
  <2>2. CASE ~full
    BY <1>6, <2>2
  <2> QED BY <2>1, <2>2
<1> HIDE DEF final
<1>8. ASSUME ~final.trained PROVE size >= 2 /\ CanAlloc(vs, size)
  <2>1. e = "more" /\ ~a.trained /\ ~full
    BY <1>5, <1>6, <1>7, <1>8
  <2>2. suggested = 2 * required /\ suggested > required /\ suggested >= 2
    BY <1>0, <1>3, <2>1
  <2>3. size = suggested /\ CanAlloc(vs, suggested)
    BY <1>8, <2>1, <2>2
  <2> QED BY <2>2, <2>3
<1> HIDE DEF size, r
<1>9. /\ pseudo => ~r.ann.ci
      /\ ~pseudo => (r.ann.trained <=> r.ann.ci)
      /\ r.ann.ci => r.ann.obsIdx < r.ann.required
      /\ ~r.ann.ci => r.ann.obsIdx = 0
      /\ ~r.ann.trained => r.required >= 2 /\ CanAlloc(vs, r.required)
  BY <1>1, <1>7, <1>8
<1> QED BY <1>9 DEF r

\* A sound network stays sound while the pool does not shrink, and while
\* nothing the first run depends on changes.
LEMMA SoundKept ==
    ASSUME AnnTypeOK, AnnTypeOK', NEW a, Sound(a), UNCHANGED pseudo, required <= required',
           firstRun' /\ pc' # "merging" =>
              firstRun /\ pc # "merging" /\ UNCHANGED <<inputs, outputs, memLimit, required>>
    PROVE  Sound(a)'
<1>1. required \in Nat /\ required' \in Nat
  BY DEF AnnTypeOK
<1>2. a.erred /\ ~a.trained => required' >= 2
  BY <1>1 DEF Sound
<1>3. firstRun' /\ pc' # "merging" =>
         (CanAlloc(Len(inputs) + Len(outputs), required)' <=>
          CanAlloc(Len(inputs) + Len(outputs), required))
  BY DEF CanAlloc
<1> QED BY <1>2, <1>3 DEF Sound

\* An observation stored in a network.
LEMMA AddObservationSound ==
    ASSUME NEW a \in AnnRecord, Sound(a) PROVE Sound(AddObservation(a))
<1> DEFINE b == AddObservation(a)
<1>1. /\ b.trained = a.trained /\ b.ci = a.ci /\ b.required = a.required /\ b.erred = a.erred
  BY AddObservationShape
<1>2. a.obsIdx \in Nat /\ a.required \in Nat
  BY DEF AnnRecord
<1>3. b.obsIdx = IF ~a.ci THEN a.obsIdx
                 ELSE IF a.obsIdx + 1 = a.required THEN 0 ELSE a.obsIdx + 1
  BY DEF AddObservation, AnnRecord
<1> HIDE DEF b
<1>4. (b.ci => b.obsIdx < b.required) /\ (~b.ci => b.obsIdx = 0)
  BY <1>1, <1>2, <1>3 DEF Sound
<1>5. Sound(b)
  BY <1>1, <1>4 DEF Sound
<1> QED BY <1>5 DEF b

LEMMA FreshSound == AnnTypeOK => Sound(Fresh)
  BY DEF Sound, Fresh, NewAnn

\* Calls of a client that uses the engine well keep the networks sound.
LEMMA SoundClient ==
    ASSUME AnnTypeOK, AnnTypeOK', AllSound, WellUsed, ClientStep PROVE AllSound'
<1> USE DEF listVars, poolVars, cacheVars, modeVars, hitVars
<1>0. required \in Nat
  BY DEF AnnTypeOK
<1>1. ASSUME anns' = <<>> PROVE AllSound'
  BY <1>1, NothingInEmpty DEF AllSound
<1>2. ASSUME ToSet(anns') \subseteq ToSet(anns), UNCHANGED <<pseudo, required>>,
             firstRun' /\ pc' # "merging" =>
                firstRun /\ pc # "merging" /\ UNCHANGED <<inputs, outputs, memLimit>>
      PROVE  AllSound'
  <2>1. ASSUME NEW a \in ToSet(anns') PROVE Sound(a)'
    <3>1. Sound(a)
      BY <1>2 DEF AllSound
    <3>2. required <= required'
      BY <1>0, <1>2
    <3> QED BY <1>2, <3>1, <3>2, SoundKept
  <2> QED BY <2>1 DEF AllSound
<1>3. ASSUME NEW v \in Variables, AddVariable(v) \/ RemoveVariable(v) PROVE AllSound'
  <2>1. CASE anns = <<>>
    BY <1>1, <1>3, <2>1 DEF AddVariable, RemoveVariable
  <2>2. CASE anns # <<>>
    <3>1. UNCHANGED <<anns, inputs, outputs, pseudo, required, firstRun, pc, memLimit>>
          /\ pc # "merging"
      BY <1>3, <2>2 DEF AddVariable, RemoveVariable
    <3> QED BY <1>2, <3>1
  <2> QED BY <2>1, <2>2
<1>4. CASE EraseKnowledge
  BY <1>1, <1>4 DEF EraseKnowledge
<1>5. ASSUME NEW n \in LoadCounts, Load(n) PROVE AllSound'
  <2> DEFINE one == [NewAnn(0, 0) EXCEPT !.trained = TRUE, !.loaded = TRUE, !.ci = ~pseudo,
                                         !.required = IF pseudo THEN 0 ELSE InitialRequired]
  <2>1. anns' = [i \in 1..n |-> one] /\ UNCHANGED pseudo
    BY <1>5 DEF Load
  <2>2. /\ one.trained /\ one.ci = ~pseudo /\ one.obsIdx = 0
        /\ one.required = (IF pseudo THEN 0 ELSE InitialRequired)
    BY DEF NewAnn
  <2> HIDE DEF one
  <2>3. 0 < InitialRequired /\ pseudo \in BOOLEAN
    BY Constants DEF AnnTypeOK
  <2>4. ASSUME NEW a \in ToSet(anns') PROVE Sound(a)'
    <3>1. a = one
      BY <2>1, <2>4 DEF ToSet
    <3>2. a.trained /\ a.ci = ~pseudo /\ a.obsIdx = 0 /\ (~pseudo => a.required = InitialRequired)
      BY <2>2, <3>1
    <3> QED BY <2>1, <2>3, <3>2 DEF Sound
  <2> QED BY <2>4 DEF AllSound
<1>6. ASSUME NEW n \in RequiredArgs, SetInitialRequired(n) PROVE AllSound'
  <2>1. UNCHANGED <<anns, inputs, outputs, pseudo, firstRun, pc, memLimit>>
        /\ firstRun /\ pc = "idle"
    BY <1>6 DEF SetInitialRequired
  <2>2. CASE anns = <<>>
    BY <1>1, <2>1, <2>2
  <2>3. CASE anns # <<>>
    <3>1. required' = required
      BY <2>1, <2>3 DEF WellUsed
    <3> QED BY <1>2, <2>1, <3>1
  <2> QED BY <2>2, <2>3
<1>7. ASSUME NEW n, SetMaxMemory(n) PROVE AllSound'
  <2>1. UNCHANGED <<anns, inputs, outputs, pseudo, firstRun, pc, required>> /\ pc = "idle"
    BY <1>7 DEF SetMaxMemory
  <2>2. CASE anns = <<>>
    BY <1>1, <2>1, <2>2
  <2>3. CASE anns # <<>>
    <3>1. firstRun => memLimit' = memLimit
      BY <2>1, <2>3 DEF WellUsed
    <3> QED BY <1>2, <2>1, <3>1
  <2> QED BY <2>2, <2>3
<1>8. ASSUME NEW b \in BOOLEAN, UsePseudorehearsal(b) PROVE AllSound'
  <2>1. UNCHANGED <<anns, inputs, outputs, firstRun, pc, required, memLimit>> /\ pc = "idle"
    BY <1>8 DEF UsePseudorehearsal
  <2>2. CASE pseudo' = pseudo
    BY <1>2, <2>1, <2>2
  <2>3. CASE pseudo' # pseudo
    BY <1>1, <2>1, <2>3 DEF WellUsed
  <2> QED BY <2>2, <2>3
<1>9. ASSUME NEW n \in CacheArgs, SetCacheMaxSize(n) PROVE AllSound'
  BY <1>2, <1>9, ElementsShrunk DEF SetCacheMaxSize
<1>10. ASSUME NEW i \in Selectable, Predict(i) PROVE AllSound'
  BY <1>2, <1>10, ElementsSelected DEF Predict
<1>11. ASSUME NEW n, SetStabilizationHits(n) \/ SetLearnDisabled(n) PROVE AllSound'
  BY <1>2, <1>11 DEF SetStabilizationHits, SetLearnDisabled
<1> QED BY <1>3, <1>4, <1>5, <1>6, <1>7, <1>8, <1>9, <1>10, <1>11 DEF ClientStep

\* A process keeps the networks sound, while trainings find memory.
LEMMA SoundProcess ==
    ASSUME ~TrainFailures, AnnTypeOK, AnnTypeOK', PoolInv, AllSound, ProcessStep PROVE AllSound'
<1> USE DEF listVars, poolVars, cacheVars, modeVars, hitVars
<1>0. /\ required \in Nat /\ required' \in Nat
      /\ anns \in Seq(AnnRecord) /\ ToSet(anns) \subseteq AnnRecord
  BY ToSetEmpty DEF AnnTypeOK
<1>1. ASSUME ToSet(anns') \subseteq ToSet(anns), UNCHANGED <<pseudo, required>>,
             firstRun' /\ pc' # "merging" =>
                firstRun /\ pc # "merging" /\ UNCHANGED <<inputs, outputs, memLimit>>
      PROVE  AllSound'
  <2>1. ASSUME NEW a \in ToSet(anns') PROVE Sound(a)'
    <3>1. Sound(a)
      BY <1>1 DEF AllSound
    <3>2. required <= required'
      BY <1>0, <1>1
    <3> QED BY <1>1, <3>1, <3>2, SoundKept
  <2> QED BY <2>1 DEF AllSound
<1>2. CASE HalvePool
  <2>1. /\ UNCHANGED <<anns, inputs, outputs, pseudo>>
        /\ firstRun /\ pc # "merging" /\ ~CanAlloc(Len(inputs) + Len(outputs), required)
    BY <1>2 DEF HalvePool
  <2>2. ASSUME NEW a \in ToSet(anns) PROVE Sound(a)'
    <3>1. Sound(a) /\ ~(a.erred /\ ~a.trained)
      BY <2>1 DEF AllSound, Sound
    <3> QED BY <2>1, <3>1 DEF Sound
  <2> QED BY <2>1, <2>2 DEF AllSound
<1>3. CASE \/ AllocArrays \/ AllocRefused \/ AlreadyAllocated \/ LayoutUnchanged
           \/ MergeAdd \/ MergeRemove \/ ReadFails
  BY <1>1, <1>3 DEF AllocArrays, AllocRefused, AlreadyAllocated, LayoutUnchanged,
                    MergeAdd, MergeRemove, ReadFails
<1>4. CASE LayoutRefused
  BY <1>4, NothingInEmpty DEF LayoutRefused, AllSound
<1>5. ASSUME NEW e \in Endings, LayoutChanged(e) PROVE AllSound'
  <2> DEFINE vs == Len(inputs) + Len(outputs)
             r == Trained(Fresh, required, e, vs)
  <2>1. /\ anns' = <<r.ann>> /\ required' = r.required
        /\ UNCHANGED <<inputs, outputs, pseudo, memLimit>> /\ pc = "merging"
        /\ e \in EndingsOf(Fresh, required)
    BY <1>5 DEF LayoutChanged, Merging, Fresh
  <2>2. required > 0 /\ ~Fresh.trained /\ ~Fresh.erred
    BY <2>1 DEF PoolInv, SlotsFree, Allocated, Fresh, NewAnn
  <2>3. e = "worse" => Fresh.erred
    BY <2>1 DEF EndingsOf
  <2>4. vs \in Nat
    BY DEF AnnTypeOK
  <2>5. /\ pseudo => ~r.ann.ci
        /\ ~pseudo => (r.ann.trained <=> r.ann.ci)
        /\ r.ann.ci => r.ann.obsIdx < r.ann.required
        /\ ~r.ann.ci => r.ann.obsIdx = 0
        /\ ~r.ann.trained => r.required >= 2 /\ CanAlloc(vs, r.required)
    <3> HIDE DEF vs
    <3> QED BY <1>0, <2>2, <2>3, <2>4, FreshType, FreshSound, TrainedSound
  <2> HIDE DEF r
  <2>6. ASSUME NEW b, b = r.ann PROVE Sound(b)'
    BY <2>1, <2>5, <2>6 DEF Sound, CanAlloc
  <2>7. ToSet(anns') = {r.ann}
    BY <2>1 DEF ToSet
  <2> QED BY <2>6, <2>7 DEF AllSound
<1>6. ASSUME NEW inChange \in BOOLEAN, NEW outChange \in BOOLEAN, Read(inChange, outChange)
      PROVE  AllSound'
  BY <1>1, <1>6 DEF Read
<1>7. CASE \/ StoreDisabled \/ StoreInPool \/ StoreRefused \/ StoreKnown \/ ActNothing
  BY <1>1, <1>7 DEF StoreDisabled, StoreInPool, StoreRefused, StoreKnown, ActNothing
<1>8. ASSUME NEW i \in Selectable, NEW announced \in BOOLEAN, Act(i, announced) PROVE AllSound'
  BY <1>1, <1>8, ElementsSelected DEF Act
<1>9. ASSUME NEW matching \in SUBSET DOMAIN anns, StoreInNetworks(matching) PROVE AllSound'
  <2>1. /\ DOMAIN anns' = DOMAIN anns
        /\ \A i \in DOMAIN anns : anns'[i] \in {anns[i], AddObservation(anns[i])}
        /\ UNCHANGED <<inputs, outputs, memLimit, required, pseudo, firstRun>> /\ pc # "merging"
    BY <1>9 DEF StoreInNetworks
  <2>2. ASSUME NEW i \in DOMAIN anns PROVE Sound(anns'[i])
    <3>1. anns[i] \in AnnRecord /\ Sound(anns[i])
      BY <1>0 DEF ToSet, AllSound
    <3> QED BY <2>1, <3>1, AddObservationSound
  <2>3. ASSUME NEW a \in ToSet(anns') PROVE Sound(a)'
    <3>1. Sound(a)
      BY <2>1, <2>2 DEF ToSet
    <3>2. required <= required'
      BY <1>0, <2>1
    <3> QED BY <2>1, <3>1, <3>2, SoundKept
  <2> QED BY <2>3 DEF AllSound
<1>10. ASSUME NEW e \in Endings, StoreAndTrain(e) PROVE AllSound'
  <2> DEFINE a == CacheToTrain[ToTrain]
             n == IF Rehearsing(a) THEN EXPAND_FACTOR * required ELSE required
             vs == Len(inputs) + Len(outputs) + Len(pendingAdd)
             r == Trained(a, n, e, vs)
  <2>1. /\ anns' = [CacheToTrain EXCEPT ![ToTrain] = r.ann] /\ required' = r.required
        /\ UNCHANGED <<pseudo, firstRun>> /\ pc = "storing"
        /\ e \in EndingsOf(a, required)
    BY <1>10 DEF StoreAndTrain
  <2>2. required > 0 /\ ~firstRun
    BY <2>1 DEF PoolInv, SlotsFree, Allocated, FirstRunPhases
  <2>3. /\ ToSet(CacheToTrain) \subseteq ToSet(anns) \cup {Fresh}
        /\ a \in ToSet(anns) \cup {Fresh} /\ (~pseudo => ~a.trained)
        /\ CacheToTrain \in Seq(AnnRecord) /\ ToTrain \in DOMAIN CacheToTrain
    BY ElementsToTrain, CacheToTrainProperties
  <2> HIDE DEF a
  <2>4. /\ n \in Nat /\ (n = required \/ (a.trained /\ n > 0))
        /\ vs \in Nat /\ (e = "worse" => a.erred)
    BY <1>0, <2>1, <2>2 DEF EndingsOf, Rehearsing, EXPAND_FACTOR, AnnTypeOK
  <2>5. a \in AnnRecord /\ Sound(a)
    BY <1>0, <2>3, FreshType, FreshSound DEF AllSound
  <2> HIDE DEF n, vs
  <2>6. /\ pseudo => ~r.ann.ci
        /\ ~pseudo => (r.ann.trained <=> r.ann.ci)
        /\ r.ann.ci => r.ann.obsIdx < r.ann.required
        /\ ~r.ann.ci => r.ann.obsIdx = 0
        /\ ~r.ann.trained => r.required >= 2
    BY <2>2, <2>3, <2>4, <2>5, TrainedSound
  <2>7. required <= r.required
    BY <1>0, <2>4, <2>5, TrainedProperties DEF AnnTypeOK
  <2> HIDE DEF r
  <2>8. ASSUME NEW b, b = r.ann PROVE Sound(b)'
    BY <2>1, <2>2, <2>6, <2>8 DEF Sound
  <2>9. ASSUME NEW b \in ToSet(anns) \cup {Fresh} PROVE Sound(b)'
    <3>1. Sound(b)
      BY FreshSound DEF AllSound
    <3> QED BY <2>1, <2>2, <2>7, <3>1, SoundKept
  <2>10. ToSet([CacheToTrain EXCEPT ![ToTrain] = r.ann]) \subseteq ToSet(CacheToTrain) \cup {r.ann}
    BY <2>3, ElementsExcept
  <2>11. ToSet(anns') \subseteq ToSet(anns) \cup {Fresh, r.ann}
    BY <2>1, <2>3, <2>10
  <2> QED BY <2>8, <2>9, <2>11 DEF AllSound
<1>11. ~LayoutTrainFails /\ ~StoreTrainFails
  BY DEF LayoutTrainFails, StoreTrainFails
<1> QED BY <1>2, <1>3, <1>4, <1>5, <1>6, <1>7, <1>8, <1>9, <1>10, <1>11 DEF ProcessStep

\* A trained network of a client that uses the engine well can be selected and
\* has a free slot for the next observation, while trainings find memory: no
\* sequence of trainings, halvings and loads leaves one that requires nothing.
THEOREM WellUsedUsableNetworks == ASSUME ~TrainFailures PROVE WellUsedSpec => []UsableNetworks
<1>1. AnnInit => AllSound
  BY NothingInEmpty DEF AnnInit, AllSound
<1>2. AnnTypeOK /\ AnnTypeOK' /\ PoolInv /\ AllSound /\ [AnnNext /\ WellUsed]_annVars => AllSound'
  <2> SUFFICES ASSUME AnnTypeOK, AnnTypeOK', PoolInv, AllSound, [AnnNext /\ WellUsed]_annVars
               PROVE  AllSound'
    OBVIOUS
  <2>1. CASE UNCHANGED annVars
    BY <2>1 DEF annVars, listVars, poolVars, cacheVars, modeVars, AllSound, Sound, CanAlloc
  <2> QED BY <2>1, SoundClient, SoundProcess DEF AnnNext
<1>3. AllSound => UsableNetworks
  BY DEF AllSound, Sound, UsableNetworks, ToSet
<1>4. AnnTypeOK /\ [AnnNext /\ WellUsed]_annVars => AnnTypeOK'
  BY StepTypes
<1> QED BY <1>1, <1>2, <1>3, <1>4, InitialTypes, PoolCorrect, PTL DEF WellUsedSpec

-----------------------------------------------------------------------------
(* The files                                                               *)

Network == [id : Nat, trained : BOOLEAN]

FileNames == ({"ann", "cfg"} \X Nat) \cup {PseudoFile}

Writing == at \in {"next", "ann", "open", "cfg", "deleting"}

FilesTypeOK ==
    /\ nets \in Seq(Network) /\ Len(nets) <= CacheLimit
    /\ single \in BOOLEAN /\ first_run \in BOOLEAN
    /\ DOMAIN files \subseteq FileNames
    /\ files \in [DOMAIN files -> [id : Nat, whole : BOOLEAN]]
    /\ Writing \/ at \in {"idle", "clean"}
    /\ u \in Nat /\ annIdx \in Nat /\ ids \in Nat
    /\ saved \in Seq(Seq(Nat)) /\ \A s \in 1..Len(saved) : Len(saved[s]) <= CacheLimit
    /\ finish \in [answer : BOOLEAN, failed : BOOLEAN, single : BOOLEAN]

\* The pairs of files hold networks of save s, each at its number.
Holds(s) == \A f \in DOMAIN files : Cleaned(f) =>
                /\ f[2] + 1 \in 1..Len(saved[s])
                /\ files[f].id = saved[s][f[2] + 1]

NoPairs == \A f \in DOMAIN files : ~Cleaned(f)

\* The file of pseudorehearsal holds the network of a save.
HoldsOne(s) == Len(saved[s]) = 1 /\ files[PseudoFile].id = saved[s][1]

OfSaves ==
    /\ NoPairs \/ \E s \in 1..Len(saved) : Holds(s)
    /\ PseudoFile \in DOMAIN files => \E s \in 1..Len(saved) : HoldsOne(s)

\* What a save is about is what it found, and stays so.
Saving ==
    at # "idle" => /\ nets # <<>> /\ saved # <<>>
                   /\ Last(saved) = Learned(ToSave)
                   /\ finish.single = single /\ ~finish.answer

\* The number of the next pair is the number of trained networks before it.
Numbered ==
    Writing =>
        /\ u \in 1..Len(ToSave) + 1
        /\ at # "next" => u <= Len(ToSave) /\ nets[u].trained
        /\ at \in {"open", "cfg", "deleting"} => ~single
        /\ at = "ann" => Target \in DOMAIN files
        /\ at = "cfg" => Cfg(annIdx) \in DOMAIN files
        /\ IF single THEN NoPairs /\ (at = "ann" => HoldsOne(Len(saved)))
           ELSE Holds(Len(saved)) /\ annIdx = Len(Learned(SubSeq(ToSave, 1, u - 1)))

Complete(n) == \A k \in 0..n - 1 : Readable(Ann(k)) /\ Readable(Cfg(k))

\* Unless a write failed, every network before the next one is on the disk.
Written ==
    /\ at = "deleting" => finish.failed
    /\ Writing /\ ~finish.failed =>
          IF single
          THEN u = 2 => Last(saved) = <<>> \/ (Readable(PseudoFile) /\ HoldsOne(Len(saved)))
          ELSE Complete(annIdx) /\ (at \in {"open", "cfg"} => Readable(Ann(annIdx)))

\* ... and stays there.
Kept ==
    finish.answer /\ ~finish.failed =>
        /\ saved # <<>>
        /\ IF finish.single
           THEN Last(saved) = <<>> \/ (Readable(PseudoFile) /\ HoldsOne(Len(saved)))
           ELSE Holds(Len(saved)) /\ Complete(Len(Last(saved)))

FilesInv == FilesTypeOK /\ OfSaves /\ Saving /\ Numbered /\ Written /\ Kept

-----------------------------------------------------------------------------
(* The networks that are trained                                           *)

KeepStep(c, found, n) == IF n.trained THEN Append(found, n.id) ELSE found

LoadStep(c, ns, id) == Add(ns, [id |-> id, trained |-> TRUE])

FitsCache(c, ns) == ns \in Seq(Network) /\ Len(ns) <= CacheLimit

Keeping == INSTANCE SeqLemmas WITH FoldOp <- KeepStep, FoldInv <- FitsCache

Loading == INSTANCE SeqLemmas WITH FoldOp <- LoadStep, FoldInv <- FitsCache

\* One network more.
LEMMA TrainedAppend ==
    ASSUME NEW ns \in Seq(Network), NEW n \in Network
    PROVE  /\ Learned(<<>>) = <<>>
           /\ Learned(Append(ns, n)) =
                 IF n.trained THEN Append(Learned(ns), n.id) ELSE Learned(ns)
<1>1. \A y : Learned(y) = Keeping!Folded(<<>>, <<>>, y)
  BY DEF Learned, Keeping!Folded, Keeping!IterEq, Keeping!Largest, Max, KeepStep,
         FoldLeft, MapThenFoldSet
<1>2. /\ Keeping!Folded(<<>>, <<>>, <<>>) = <<>>
      /\ Keeping!Folded(<<>>, <<>>, Append(ns, n)) =
            KeepStep(<<>>, Keeping!Folded(<<>>, <<>>, ns), n)
  BY Keeping!FoldAppend
<1> QED BY <1>1, <1>2 DEF KeepStep

\* The first k + 1 elements are the first k and another one.
LEMMA SubSeqGrows ==
    ASSUME NEW S, NEW s \in Seq(S), NEW k \in Nat, k + 1 <= Len(s)
    PROVE  /\ SubSeq(s, 1, k) \in Seq(S) /\ s[k + 1] \in S
           /\ SubSeq(s, 1, k + 1) = Append(SubSeq(s, 1, k), s[k + 1])
<1>1. Len(s) \in Nat /\ k + 1 \in 1..Len(s)
  BY LenProperties
<1> DEFINE a == SubSeq(s, 1, k)
           b == SubSeq(s, 1, k + 1)
           c == Append(a, s[k + 1])
<1>2. s[k + 1] \in S
  BY <1>1, ElementOfSeq
<1>3. a \in Seq(S) /\ Len(a) = k /\ \A j \in 1..k : a[j] = s[j]
  BY <1>1
<1>4. b \in Seq(S) /\ Len(b) = k + 1 /\ \A j \in 1..k + 1 : b[j] = s[j]
  BY <1>1
<1> HIDE DEF a, b
<1>5. /\ c \in Seq(S) /\ Len(c) = k + 1 /\ c[k + 1] = s[k + 1]
      /\ \A j \in 1..k : c[j] = a[j]
  BY <1>2, <1>3, AppendProperties
<1> HIDE DEF c
<1>6. \A j \in 1..k + 1 : b[j] = c[j]
  <2> TAKE j \in 1..k + 1
  <2>1. CASE j = k + 1
    BY <1>4, <1>5, <2>1
  <2>2. CASE j \in 1..k
    BY <1>3, <1>4, <1>5, <2>2
  <2> QED BY <2>1, <2>2
<1>7. b = c
  BY <1>4, <1>5, <1>6, SeqEqual
<1> QED BY <1>2, <1>3, <1>7 DEF a, b, c

\* One number more.
LEMMA NatAppend ==
    ASSUME NEW s \in Seq(Nat), NEW e \in Nat
    PROVE  /\ Append(s, e) \in Seq(Nat) /\ Len(s) \in Nat /\ Len(Append(s, e)) = Len(s) + 1
           /\ Append(s, e)[Len(s) + 1] = e
           /\ \A j \in 1..Len(s) : Append(s, e)[j] = s[j]
  BY AppendProperties, LenProperties

LEMMA SubSeqWhole ==
    ASSUME NEW S, NEW s \in Seq(S)
    PROVE  SubSeq(s, 1, 0) = <<>> /\ SubSeq(s, 1, Len(s)) = s
<1>1. Len(s) \in Nat
  BY LenProperties
<1>2. SubSeq(s, 1, 0) = <<>>
  BY <1>1
<1> DEFINE t == SubSeq(s, 1, Len(s))
<1>3. t \in Seq(S) /\ Len(t) = Len(s) /\ \A j \in 1..Len(s) : t[j] = s[j]
  BY <1>1
<1> HIDE DEF t
<1>4. t = s
  BY <1>3, SeqEqual
<1> QED BY <1>2, <1>4 DEF t

\* There are no more trained ones than there are.
LEMMA TrainedType ==
    ASSUME NEW ns \in Seq(Network), NEW k \in 0..Len(ns)
    PROVE  /\ Learned(SubSeq(ns, 1, k)) \in Seq(Nat)
           /\ Len(Learned(SubSeq(ns, 1, k))) <= k
           /\ Len(Learned(SubSeq(ns, 1, k))) \in Nat
<1> DEFINE T(m) == Learned(SubSeq(ns, 1, m))
           Q == {m \in Nat : m <= Len(ns) => T(m) \in Seq(Nat) /\ Len(T(m)) <= m}
<1>1. Len(ns) \in Nat
  BY LenProperties
<1>2. 0 \in Q
  <2>1. T(0) = <<>>
    <3>1. [id |-> 0, trained |-> TRUE] \in Network
      BY DEF Network
    <3> QED BY <3>1, SubSeqWhole, TrainedAppend
  <2>2. T(0) \in Seq(Nat) /\ Len(T(0)) = 0
    <3> HIDE DEF T
    <3>1. <<>> \in Seq(Nat) /\ Len(<<>>) = 0
      OBVIOUS
    <3> QED BY ONLY <2>1, <3>1
  <2> HIDE DEF T
  <2> QED BY <2>2
<1>3. ASSUME NEW m \in Nat, m \in Q PROVE m + 1 \in Q
  <2> SUFFICES ASSUME m + 1 <= Len(ns) PROVE T(m + 1) \in Seq(Nat) /\ Len(T(m + 1)) <= m + 1
    OBVIOUS
  <2>1. T(m) \in Seq(Nat) /\ Len(T(m)) <= m
    BY <1>1, <1>3
  <2> DEFINE n == ns[m + 1]
  <2>2. /\ SubSeq(ns, 1, m) \in Seq(Network) /\ n \in Network
        /\ SubSeq(ns, 1, m + 1) = Append(SubSeq(ns, 1, m), n)
    BY SubSeqGrows
  <2> HIDE DEF n
  <2>3. T(m + 1) = IF n.trained THEN Append(T(m), n.id) ELSE T(m)
    BY <2>2, TrainedAppend
  <2>4. n.id \in Nat
    BY <2>2 DEF Network
  <2> HIDE DEF T, Q
  <2>5. Len(T(m)) \in Nat
    BY <2>1, LenProperties
  <2>6. CASE n.trained
    <3>1. T(m + 1) = Append(T(m), n.id)
      BY <2>3, <2>6
    <3>2. /\ Append(T(m), n.id) \in Seq(Nat)
          /\ Len(Append(T(m), n.id)) = Len(T(m)) + 1
      BY <2>1, <2>4, NatAppend
    <3>3. T(m + 1) \in Seq(Nat) /\ Len(T(m + 1)) = Len(T(m)) + 1
      BY ONLY <3>1, <3>2
    <3> QED BY <2>1, <2>5, <3>3
  <2>7. CASE ~n.trained
    <3>1. T(m + 1) = T(m)
      BY <2>3, <2>7
    <3> QED BY <2>1, <2>5, <3>1
  <2> QED BY <2>6, <2>7
<1> HIDE DEF T, Q
<1>4. Nat \subseteq Q
  BY <1>2, <1>3, SetInduction
<1>5. T(k) \in Seq(Nat) /\ Len(T(k)) <= k
  BY <1>1, <1>4 DEF Q
<1>6. Len(T(k)) \in Nat
  BY <1>5, LenProperties
<1> QED BY <1>5, <1>6 DEF T

\* What is trained among the first stays where it is.
LEMMA TrainedGrows ==
    ASSUME NEW ns \in Seq(Network), NEW k \in 0..Len(ns)
    PROVE  LET a == Learned(SubSeq(ns, 1, k))
           IN  /\ Len(a) <= Len(Learned(ns))
               /\ \A j \in 1..Len(a) : Learned(ns)[j] = a[j]
<1> DEFINE T(m) == Learned(SubSeq(ns, 1, m))
           Q == {m \in Nat : k <= m /\ m <= Len(ns) =>
                    Len(T(k)) <= Len(T(m)) /\ \A j \in 1..Len(T(k)) : T(m)[j] = T(k)[j]}
<1>1. Len(ns) \in Nat /\ k \in Nat
  BY LenProperties
<1>2. ASSUME NEW m \in 0..Len(ns) PROVE T(m) \in Seq(Nat) /\ Len(T(m)) \in Nat
  BY TrainedType
<1>3. 0 \in Q
  <2>1. k <= 0 => k = 0
    BY <1>1
  <2>2. Len(T(k)) \in Nat
    BY <1>2
  <2> HIDE DEF T
  <2> QED BY <2>1, <2>2
<1>4. ASSUME NEW m \in Nat, m \in Q PROVE m + 1 \in Q
  <2> SUFFICES ASSUME k <= m + 1, m + 1 <= Len(ns)
               PROVE  /\ Len(T(k)) <= Len(T(m + 1))
                      /\ \A j \in 1..Len(T(k)) : T(m + 1)[j] = T(k)[j]
    OBVIOUS
  <2> DEFINE n == ns[m + 1]
  <2>1. /\ SubSeq(ns, 1, m) \in Seq(Network) /\ n \in Network
        /\ SubSeq(ns, 1, m + 1) = Append(SubSeq(ns, 1, m), n)
    BY SubSeqGrows
  <2> HIDE DEF n
  <2>2. T(m + 1) = IF n.trained THEN Append(T(m), n.id) ELSE T(m)
    BY <2>1, TrainedAppend
  <2>3. n.id \in Nat
    BY <2>1 DEF Network
  <2>4. m \in 0..Len(ns) /\ m + 1 \in 0..Len(ns)
    BY <1>1
  <2> HIDE DEF T
  <2>5. /\ T(m) \in Seq(Nat) /\ Len(T(m)) \in Nat /\ Len(T(k)) \in Nat
        /\ Len(T(m + 1)) \in Nat
    BY <1>2, <2>4
  <2>6. CASE k = m + 1
    BY <2>5, <2>6
  <2>7. CASE k <= m
    <3>1. Len(T(k)) <= Len(T(m)) /\ \A j \in 1..Len(T(k)) : T(m)[j] = T(k)[j]
      BY <1>1, <1>4, <2>7
    <3> HIDE DEF Q
    <3>2. CASE n.trained
      <4>1. T(m + 1) = Append(T(m), n.id)
        BY <2>2, <3>2
      <4>4. /\ Len(Append(T(m), n.id)) = Len(T(m)) + 1
            /\ \A j \in 1..Len(T(m)) : Append(T(m), n.id)[j] = T(m)[j]
        BY <2>3, <2>5, NatAppend
      <4>2. Len(T(m + 1)) = Len(T(m)) + 1 /\ \A j \in 1..Len(T(m)) : T(m + 1)[j] = T(m)[j]
        BY ONLY <4>1, <4>4
      <4>3. \A j \in 1..Len(T(k)) : j \in 1..Len(T(m))
        BY <2>5, <3>1
      <4> QED BY <2>5, <3>1, <4>2, <4>3
    <3>3. CASE ~n.trained
      <4>1. T(m + 1) = T(m)
        BY <2>2, <3>3
      <4> QED BY <3>1, <4>1
    <3> QED BY <3>2, <3>3
  <2> QED BY <1>1, <2>6, <2>7
<1> HIDE DEF T, Q
<1>5. Nat \subseteq Q
  BY <1>3, <1>4, SetInduction
<1>6. Len(T(k)) <= Len(T(Len(ns))) /\ \A j \in 1..Len(T(k)) : T(Len(ns))[j] = T(k)[j]
  BY <1>1, <1>5 DEF Q
<1>7. T(Len(ns)) = Learned(ns)
  BY SubSeqWhole DEF T
<1> QED BY <1>6, <1>7 DEF T

\* The number of the files of a trained network.
LEMMA TrainedAt ==
    ASSUME NEW ns \in Seq(Network), NEW k \in 1..Len(ns)
    PROVE  LET n == Len(Learned(SubSeq(ns, 1, k - 1)))
           IN  /\ n \in Nat
               /\ ns[k].trained =>
                     /\ n + 1 \in 1..Len(Learned(ns)) /\ Learned(ns)[n + 1] = ns[k].id
                     /\ Len(Learned(SubSeq(ns, 1, k))) = n + 1
               /\ ~ns[k].trained => Len(Learned(SubSeq(ns, 1, k))) = n
<1> DEFINE m == k - 1
           a == Learned(SubSeq(ns, 1, m))
           b == Learned(SubSeq(ns, 1, m + 1))
<1>1. Len(ns) \in Nat /\ m \in Nat /\ m + 1 = k /\ m + 1 <= Len(ns)
  BY LenProperties
<1>2. /\ SubSeq(ns, 1, m) \in Seq(Network) /\ ns[m + 1] \in Network
      /\ SubSeq(ns, 1, m + 1) = Append(SubSeq(ns, 1, m), ns[m + 1])
  BY <1>1, SubSeqGrows
<1>3. m \in 0..Len(ns) /\ k \in 0..Len(ns)
  BY <1>1
<1> HIDE DEF m
<1>4. b = IF ns[k].trained THEN Append(a, ns[k].id) ELSE a
  BY <1>1, <1>2, TrainedAppend
<1>5. a \in Seq(Nat) /\ Len(a) \in Nat
  BY <1>3, TrainedType
<1>6. /\ Len(b) <= Len(Learned(ns))
      /\ \A j \in 1..Len(b) : Learned(ns)[j] = b[j]
  BY <1>1, <1>3, TrainedGrows
<1>7. Len(Learned(ns)) \in Nat
  <2>1. Len(ns) \in 0..Len(ns)
    BY <1>1
  <2> QED BY <2>1, SubSeqWhole, TrainedType
<1>8. ns[k].id \in Nat
  BY <1>1, <1>2 DEF Network
<1> HIDE DEF a, b
<1>9. ASSUME ns[k].trained
      PROVE  /\ Len(a) + 1 \in 1..Len(Learned(ns)) /\ Learned(ns)[Len(a) + 1] = ns[k].id
             /\ Len(b) = Len(a) + 1
  <2>1. b = Append(a, ns[k].id)
    BY <1>4, <1>9
  <2>4. /\ Len(Append(a, ns[k].id)) = Len(a) + 1
        /\ Append(a, ns[k].id)[Len(a) + 1] = ns[k].id
    BY <1>5, <1>8, NatAppend
  <2>2. Len(b) = Len(a) + 1 /\ b[Len(a) + 1] = ns[k].id
    BY ONLY <2>1, <2>4
  <2>3. Len(a) + 1 \in 1..Len(Learned(ns)) /\ Len(a) + 1 \in 1..Len(b)
    BY <1>5, <1>6, <1>7, <2>2
  <2> QED BY <1>6, <2>2, <2>3
<1>10. ~ns[k].trained => Len(b) = Len(a)
  BY <1>4
<1> QED BY <1>1, <1>5, <1>9, <1>10 DEF a, b, m

-----------------------------------------------------------------------------
(* The directory                                                           *)

\* A file that is begun, one that is ended, and files that are removed.
LEMMA StartIs ==
    ASSUME NEW f, NEW id
    PROVE  /\ DOMAIN Start(f, id) = DOMAIN files \cup {f}
           /\ Start(f, id)[f] = [id |-> id, whole |-> FALSE]
           /\ \A g \in DOMAIN files : g # f => Start(f, id)[g] = files[g]
  BY DEF Start

LEMMA EndIs ==
    ASSUME FilesTypeOK, NEW f \in DOMAIN files
    PROVE  /\ DOMAIN End(f) = DOMAIN files
           /\ End(f)[f] = [id |-> files[f].id, whole |-> TRUE]
           /\ \A g \in DOMAIN files : g # f => End(f)[g] = files[g]
<1>1. files[f] \in [id : Nat, whole : BOOLEAN]
  BY DEF FilesTypeOK
<1> DEFINE r == files[f]
<1>2. End(f)[f] = [r EXCEPT !.whole = TRUE] /\ r \in [id : Nat, whole : BOOLEAN]
  BY <1>1 DEF End
<1>3. ASSUME NEW q \in [id : Nat, whole : BOOLEAN]
      PROVE  [q EXCEPT !.whole = TRUE] = [id |-> q.id, whole |-> TRUE]
  <2> DEFINE v == TRUE
             k == q.id
             w == q.whole
             new == [q EXCEPT !.whole = v]
  <2>1. q = [id |-> k, whole |-> w]
    OBVIOUS
  <2>2. new = [q EXCEPT !.whole = v]
    OBVIOUS
  <2> HIDE DEF v, k, w, new
  <2>3. new = [id |-> k, whole |-> v]
    BY <2>1, <2>2
  <2> QED BY <2>3 DEF v, k, new
<1> HIDE DEF r
<1>4. End(f)[f] = [id |-> r.id, whole |-> TRUE]
  BY <1>2, <1>3
<1>5. DOMAIN End(f) = DOMAIN files /\ \A g \in DOMAIN files : g # f => End(f)[g] = files[g]
  BY DEF End
<1> QED BY <1>4, <1>5 DEF r

LEMMA WithoutFilesIs ==
    ASSUME NEW fs
    PROVE  /\ DOMAIN WithoutFiles(fs) = DOMAIN files \ fs
           /\ \A g \in DOMAIN files \ fs : WithoutFiles(fs)[g] = files[g]
  BY DEF WithoutFiles

LEMMA NamesApart ==
    /\ \A n \in Nat : Cleaned(Ann(n)) /\ Cleaned(Cfg(n)) /\ ~Cleaned(PseudoFile)
    /\ \A n \in Nat : Ann(n)[2] = n /\ Cfg(n)[2] = n
    /\ \A n \in Nat : Ann(n) \in FileNames /\ Cfg(n) \in FileNames
    /\ PseudoFile \in FileNames
    /\ \A n, m \in Nat : /\ Ann(n) # Cfg(m) /\ Ann(n) # PseudoFile /\ Cfg(n) # PseudoFile
                         /\ Ann(n) = Ann(m) => n = m
                         /\ Cfg(n) = Cfg(m) => n = m
  BY DEF Cleaned, Ann, Cfg, PseudoFile, FileNames

\* What a save holds, entry by entry.
LEMMA SavedType ==
    ASSUME FilesTypeOK, NEW s \in 1..Len(saved)
    PROVE  /\ saved[s] \in Seq(Nat) /\ Len(saved[s]) \in 0..CacheLimit
           /\ \A k \in 1..Len(saved[s]) : saved[s][k] \in Nat
<1>1. saved \in Seq(Seq(Nat)) /\ Len(saved[s]) <= CacheLimit
  BY DEF FilesTypeOK
<1>2. saved[s] \in Seq(Nat)
  BY <1>1, ElementOfSeq
<1>3. Len(saved[s]) \in Nat
  BY <1>2, LenProperties
<1> QED BY <1>1, <1>2, <1>3, ElementOfSeq, FilesAssumption

\* sml_load stops at the first pair that is not complete, and there is one
\* within the cache's limit.
LEMMA PairsAre ==
    ASSUME FilesTypeOK, NoPairs \/ \E s \in 1..Len(saved) : Holds(s)
    PROVE  \E n \in 0..CacheLimit :
              /\ Complete(n) /\ ~(Readable(Ann(n)) /\ Readable(Cfg(n)))
              /\ Pairs = [k \in 1..n |-> IF files[Ann(k - 1)].id = files[Cfg(k - 1)].id
                                         THEN files[Ann(k - 1)].id ELSE Mongrel]
<1> DEFINE Stops(n) == ~(Readable(Ann(n)) /\ Readable(Cfg(n)))
           Ends(n) == Complete(n) /\ Stops(n)
           Q == {n \in Nat : Stops(n)}
           last == CHOOSE n \in 0..CacheLimit : Ends(n)
<1>1. CacheLimit \in Q
  <2>1. CacheLimit \in Nat
    BY FilesAssumption
  <2> SUFFICES ASSUME Readable(Ann(CacheLimit)) PROVE FALSE
    BY <2>1
  <2>2. Ann(CacheLimit) \in DOMAIN files /\ Cleaned(Ann(CacheLimit)) /\ Ann(CacheLimit)[2] = CacheLimit
    BY <2>1, NamesApart DEF Readable
  <2>3. PICK s \in 1..Len(saved) : Holds(s)
    BY <2>2 DEF NoPairs
  <2>4. CacheLimit + 1 \in 1..Len(saved[s])
    BY <2>2, <2>3 DEF Holds
  <2> QED BY <2>1, <2>4, SavedType
<1>2. PICK x \in Q : \A y \in Q : x <= y
  <2>1. Q \in SUBSET Nat /\ Q # {}
    BY <1>1
  <2> HIDE DEF Q
  <2> QED BY <2>1, LeastElement
<1>3. x \in 0..CacheLimit
  BY <1>1, <1>2, FilesAssumption
<1>4. Ends(x)
  <2>1. ASSUME NEW k \in 0..x - 1 PROVE Readable(Ann(k)) /\ Readable(Cfg(k))
    <3>1. k \in Nat /\ ~(x <= k)
      BY <1>3
    <3> QED BY <1>2, <3>1
  <2> QED BY <1>2, <2>1 DEF Complete
<1>5. last \in 0..CacheLimit /\ Ends(last)
  <2> HIDE DEF Ends
  <2> QED BY <1>3, <1>4
<1>6. Pairs = [k \in 1..last |-> IF files[Ann(k - 1)].id = files[Cfg(k - 1)].id
                                 THEN files[Ann(k - 1)].id ELSE Mongrel]
  BY DEF Pairs, Complete
<1> HIDE DEF last
<1> QED BY <1>5, <1>6

\* The pairs read are the first networks of the save they come from.
LEMMA PairsOf ==
    ASSUME FilesTypeOK, NEW s \in 1..Len(saved), Holds(s)
    PROVE  /\ Pairs \in Seq(Nat) /\ Len(Pairs) <= Len(saved[s])
           /\ \A k \in 1..Len(Pairs) : Pairs[k] = saved[s][k]
           /\ Complete(Len(saved[s])) => Len(Pairs) = Len(saved[s])
<1> DEFINE Both(k) == IF files[Ann(k)].id = files[Cfg(k)].id THEN files[Ann(k)].id ELSE Mongrel
<1>1. PICK n \in 0..CacheLimit : /\ Complete(n) /\ ~(Readable(Ann(n)) /\ Readable(Cfg(n)))
                                 /\ Pairs = [k \in 1..n |-> Both(k - 1)]
  BY PairsAre
<1>2. saved[s] \in Seq(Nat) /\ Len(saved[s]) \in Nat /\ \A k \in 1..Len(saved[s]) : saved[s][k] \in Nat
  BY SavedType
<1>3. ASSUME NEW k \in 1..n PROVE k \in 1..Len(saved[s]) /\ Both(k - 1) = saved[s][k]
  <2>1. k - 1 \in 0..n - 1 /\ k - 1 \in Nat /\ (k - 1) + 1 = k
    BY <1>1
  <2>2. Ann(k - 1) \in DOMAIN files /\ Cfg(k - 1) \in DOMAIN files
    BY <1>1, <2>1 DEF Complete, Readable
  <2>3. /\ Cleaned(Ann(k - 1)) /\ Cleaned(Cfg(k - 1))
        /\ Ann(k - 1)[2] = k - 1 /\ Cfg(k - 1)[2] = k - 1
    BY <2>1, NamesApart
  <2>4. /\ k \in 1..Len(saved[s])
        /\ files[Ann(k - 1)].id = saved[s][k] /\ files[Cfg(k - 1)].id = saved[s][k]
    BY <2>1, <2>2, <2>3 DEF Holds
  <2> QED BY <2>4
<1> HIDE DEF Both
<1>4. Len(Pairs) = n /\ Pairs \in Seq(Nat) /\ \A k \in 1..n : Pairs[k] = saved[s][k]
  <2>1. \A k \in 1..n : Both(k - 1) \in Nat
    BY <1>2, <1>3
  <2>2. \A k \in 1..n : Both(k - 1) = saved[s][k]
    BY <1>3
  <2>3. n \in Nat /\ Pairs = [k \in 1..n |-> Both(k - 1)]
    BY <1>1
  <2> QED BY ONLY <2>1, <2>2, <2>3
<1>5. n <= Len(saved[s])
  <2>1. CASE n = 0
    BY <1>2, <2>1
  <2>2. CASE n # 0
    <3>1. n \in 1..n
      BY <1>1, <2>2
    <3> QED BY <1>2, <1>3, <3>1
  <2> QED BY <2>1, <2>2
<1>6. ASSUME Complete(Len(saved[s])) PROVE n = Len(saved[s])
  <2> SUFFICES ASSUME n # Len(saved[s]) PROVE FALSE
    OBVIOUS
  <2>1. n \in 0..Len(saved[s]) - 1
    BY <1>1, <1>2, <1>5
  <2> QED BY <1>1, <1>6, <2>1 DEF Complete
<1> QED BY <1>4, <1>5, <1>6

LEMMA PairsNone ==
    ASSUME FilesTypeOK, NoPairs
    PROVE  Pairs = <<>>
<1>1. PICK n \in 0..CacheLimit :
              /\ Complete(n)
              /\ Pairs = [k \in 1..n |-> IF files[Ann(k - 1)].id = files[Cfg(k - 1)].id
                                         THEN files[Ann(k - 1)].id ELSE Mongrel]
  BY PairsAre
<1>2. n = 0
  <2> SUFFICES ASSUME n # 0 PROVE FALSE
    OBVIOUS
  <2>1. 0 \in 0..n - 1
    BY <1>1
  <2>2. Ann(0) \in DOMAIN files /\ Cleaned(Ann(0))
    BY <1>1, <2>1, NamesApart DEF Complete, Readable
  <2> QED BY <2>2 DEF NoPairs
<1> QED BY <1>1, <1>2

\* What is read back comes from one save, in its order.
LEMMA FoundOfOne ==
    ASSUME FilesTypeOK, OfSaves, NEW p \in BOOLEAN
    PROVE  /\ Found(p) \in Seq(Nat)
           /\ \/ Found(p) = <<>>
              \/ \E s \in 1..Len(saved) :
                    /\ Len(Found(p)) <= Len(saved[s])
                    /\ \A k \in 1..Len(Found(p)) : Found(p)[k] = saved[s][k]
<1>0. <<>> \in Seq(Nat)
  OBVIOUS
<1>1. CASE ~p /\ NoPairs
  <2>1. Found(p) = <<>>
    BY <1>1, PairsNone DEF Found
  <2> QED BY <1>0, <2>1
<1>2. CASE ~p /\ ~NoPairs
  <2>1. PICK s \in 1..Len(saved) : Holds(s)
    BY <1>2 DEF OfSaves
  <2>2. Found(p) = Pairs
    BY <1>2 DEF Found
  <2> QED BY <2>1, <2>2, PairsOf
<1>3. CASE p /\ Readable(PseudoFile)
  <2>1. PICK s \in 1..Len(saved) : HoldsOne(s)
    BY <1>3 DEF OfSaves, Readable
  <2>2. Found(p) = <<saved[s][1]>> /\ Len(saved[s]) = 1
    BY <1>3, <2>1 DEF Found, HoldsOne
  <2>3. saved[s][1] \in Nat
    BY <2>2, SavedType
  <2> DEFINE e == saved[s][1]
  <2>4. ASSUME NEW d \in Nat
        PROVE  <<d>> \in Seq(Nat) /\ Len(<<d>>) = 1 /\ \A k \in 1..1 : <<d>>[k] = d
    OBVIOUS
  <2>5. \A k \in 1..1 : k = 1
    OBVIOUS
  <2>6. /\ Found(p) \in Seq(Nat) /\ Len(Found(p)) = 1
        /\ \A k \in 1..1 : Found(p)[k] = saved[s][1]
    BY <2>2, <2>3, <2>4
  <2>7. \A k \in 1..1 : Found(p)[k] = saved[s][k]
    BY <2>5, <2>6
  <2> QED BY <2>2, <2>6, <2>7
<1>4. CASE p /\ ~Readable(PseudoFile)
  <2>1. Found(p) = <<>>
    BY <1>4 DEF Found
  <2> QED BY <1>0, <2>1
<1> QED BY <1>1, <1>2, <1>3, <1>4

-----------------------------------------------------------------------------
(* The cache                                                               *)

LEMMA PutFits ==
    ASSUME NEW ns \in Seq(Network), Len(ns) <= CacheLimit, NEW n \in Network
    PROVE  Add(ns, n) \in Seq(Network) /\ Len(Add(ns, n)) <= CacheLimit
<1>1. CacheLimit \in Nat /\ CacheLimit # 0 /\ Len(ns) \in Nat
  BY FilesAssumption, LenProperties
<1> DEFINE rest == IF Len(ns) = CacheLimit THEN Tail(ns) ELSE ns
<1>2. rest \in Seq(Network) /\ Len(rest) \in Nat /\ Len(rest) + 1 <= CacheLimit
  <2>1. CASE Len(ns) = CacheLimit
    <3>1. ns # <<>>
      BY <1>1, <2>1
    <3>2. Tail(ns) \in Seq(Network) /\ Len(Tail(ns)) = Len(ns) - 1
      BY <3>1
    <3> QED BY <1>1, <2>1, <3>2
  <2>2. CASE Len(ns) # CacheLimit
    BY <1>1, <2>2
  <2> QED BY <2>1, <2>2
<1>3. Add(ns, n) = Append(rest, n)
  BY DEF Add
<1> HIDE DEF rest
<1>4. Append(rest, n) \in Seq(Network) /\ Len(Append(rest, n)) = Len(rest) + 1
  BY <1>2, AppendProperties
<1> QED BY <1>1, <1>2, <1>3, <1>4

\* sml_load fills the cache and no more.
LEMMA LoadedFits ==
    ASSUME NEW seq \in Seq(Nat), NEW n \in 0..Len(seq)
    PROVE  LET ns == Loaded(SubSeq(seq, 1, n))
           IN  ns \in Seq(Network) /\ Len(ns) <= CacheLimit
<1> DEFINE s == SubSeq(seq, 1, n)
<1>1. s \in Seq(Nat)
  BY LenProperties
<1>2. Loaded(s) = Loading!Folded(<<>>, <<>>, s)
  BY DEF Loaded, Loading!Folded, Loading!IterEq, Loading!Largest, Max, LoadStep,
         FoldLeft, MapThenFoldSet
<1> HIDE DEF s
<1>3. FitsCache(<<>>, <<>>)
  BY FilesAssumption DEF FitsCache
<1>4. ASSUME NEW ns, NEW id \in Nat, FitsCache(<<>>, ns)
      PROVE  FitsCache(<<>>, LoadStep(<<>>, ns, id))
  <2>1. [id |-> id, trained |-> TRUE] \in Network
    BY DEF Network
  <2> QED BY <1>4, <2>1, PutFits DEF FitsCache, LoadStep
<1>5. FitsCache(<<>>, Loading!Folded(<<>>, <<>>, s))
  BY <1>1, <1>3, <1>4, Loading!FoldKeeps
<1> QED BY <1>2, <1>5 DEF FitsCache, s

\* With pseudorehearsal the first network is all there is to save.
LEMMA ToSaveIs ==
    ASSUME FilesTypeOK, nets # <<>>
    PROVE  /\ ToSave \in Seq(Network)
           /\ Len(ToSave) = IF single THEN 1 ELSE Len(nets)
           /\ Len(ToSave) \in 1..Len(nets) /\ Len(ToSave) <= CacheLimit
           /\ \A k \in 1..Len(ToSave) : ToSave[k] = nets[k] /\ k \in 1..Len(nets)
<1>1. nets \in Seq(Network) /\ Len(nets) \in Nat /\ Len(nets) # 0 /\ Len(nets) <= CacheLimit
  BY LenProperties, EmptySeq DEF FilesTypeOK
<1>2. CASE ~single
  BY <1>1, <1>2 DEF ToSave
<1>3. CASE single
  <2>1. nets[1] \in Network
    BY <1>1, ElementOfSeq
  <2>2. ToSave = <<nets[1]>>
    BY <1>3 DEF ToSave
  <2>3. ASSUME NEW d \in Network
        PROVE  <<d>> \in Seq(Network) /\ Len(<<d>>) = 1 /\ <<d>>[1] = d
    OBVIOUS
  <2>4. ToSave \in Seq(Network) /\ Len(ToSave) = 1 /\ ToSave[1] = nets[1]
    BY <2>1, <2>2, <2>3
  <2>5. \A k \in 1..Len(ToSave) : k = 1
    BY <2>4
  <2> QED BY <1>1, <1>3, <2>4, <2>5, FilesAssumption
<1> QED BY <1>2, <1>3

LEMMA ToSaveTrained ==
    ASSUME FilesTypeOK, nets # <<>>
    PROVE  /\ Learned(ToSave) \in Seq(Nat) /\ Len(Learned(ToSave)) \in Nat
           /\ Len(Learned(ToSave)) <= Len(ToSave) /\ Len(Learned(ToSave)) <= CacheLimit
<1>1. ToSave \in Seq(Network) /\ Len(ToSave) <= CacheLimit /\ Len(ToSave) \in Nat
  BY ToSaveIs, LenProperties
<1>2. Len(ToSave) \in 0..Len(ToSave) /\ SubSeq(ToSave, 1, Len(ToSave)) = ToSave
  BY <1>1, SubSeqWhole
<1>3. /\ Learned(ToSave) \in Seq(Nat) /\ Len(Learned(ToSave)) \in Nat
      /\ Len(Learned(ToSave)) <= Len(ToSave)
  <2> DEFINE ns == ToSave
             k == Len(ToSave)
  <2>1. Learned(SubSeq(ns, 1, k)) = Learned(ns)
    BY <1>2
  <2> HIDE DEF ns
  <2> QED BY <1>1, <1>2, <2>1, TrainedType DEF ns
<1> QED BY <1>1, <1>3, FilesAssumption

-----------------------------------------------------------------------------
(* Every step keeps the types                                              *)

LEMMA StartType ==
    ASSUME FilesTypeOK, NEW f \in FileNames, NEW id \in Nat
    PROVE  /\ DOMAIN Start(f, id) \subseteq FileNames
           /\ Start(f, id) \in [DOMAIN Start(f, id) -> [id : Nat, whole : BOOLEAN]]
<1> DEFINE t == Start(f, id)
<1>1. t = [g \in DOMAIN t |-> t[g]]
  BY DEF Start
<1>2. /\ DOMAIN t = DOMAIN files \cup {f} /\ t[f] = [id |-> id, whole |-> FALSE]
      /\ \A g \in DOMAIN files : g # f => t[g] = files[g]
  BY DEF Start
<1>3. \A g \in DOMAIN files : files[g] \in [id : Nat, whole : BOOLEAN]
  BY DEF FilesTypeOK
<1>4. [id |-> id, whole |-> FALSE] \in [id : Nat, whole : BOOLEAN]
  OBVIOUS
<1> HIDE DEF t
<1>5. \A g \in DOMAIN t : t[g] \in [id : Nat, whole : BOOLEAN]
  BY <1>2, <1>3, <1>4
<1>6. DOMAIN t \subseteq FileNames
  BY <1>2 DEF FilesTypeOK
<1> QED BY <1>1, <1>5, <1>6 DEF t

LEMMA EndType ==
    ASSUME FilesTypeOK, NEW f \in DOMAIN files
    PROVE  /\ DOMAIN End(f) \subseteq FileNames
           /\ End(f) \in [DOMAIN End(f) -> [id : Nat, whole : BOOLEAN]]
<1> DEFINE t == End(f)
<1>1. t = [g \in DOMAIN t |-> t[g]]
  BY DEF End
<1>2. /\ DOMAIN t = DOMAIN files /\ t[f] = [id |-> files[f].id, whole |-> TRUE]
      /\ \A g \in DOMAIN files : g # f => t[g] = files[g]
  BY EndIs
<1>3. \A g \in DOMAIN files : files[g] \in [id : Nat, whole : BOOLEAN]
  BY DEF FilesTypeOK
<1>4. [id |-> files[f].id, whole |-> TRUE] \in [id : Nat, whole : BOOLEAN]
  BY <1>3
<1> HIDE DEF t
<1>5. \A g \in DOMAIN t : t[g] \in [id : Nat, whole : BOOLEAN]
  BY <1>2, <1>3, <1>4
<1>6. DOMAIN t \subseteq FileNames
  BY <1>2 DEF FilesTypeOK
<1> QED BY <1>1, <1>5, <1>6 DEF t

LEMMA WithoutFilesType ==
    ASSUME FilesTypeOK, NEW fs
    PROVE  /\ DOMAIN WithoutFiles(fs) \subseteq FileNames
           /\ WithoutFiles(fs) \in [DOMAIN WithoutFiles(fs) -> [id : Nat, whole : BOOLEAN]]
<1>1. \A g \in DOMAIN files : files[g] \in [id : Nat, whole : BOOLEAN]
  BY DEF FilesTypeOK
<1>2. DOMAIN files \subseteq FileNames
  BY DEF FilesTypeOK
<1> QED BY <1>1, <1>2 DEF WithoutFiles

\* Where a save is when it touches a network.
LEMMA SavePlace ==
    ASSUME FilesInv, Writing
    PROVE  /\ nets # <<>> /\ Len(ToSave) \in Nat /\ u \in 1..Len(ToSave) + 1 /\ annIdx \in Nat
           /\ Target \in FileNames /\ Cfg(annIdx) \in FileNames
           /\ u <= Len(ToSave) => /\ nets[u] = ToSave[u] /\ nets[u] \in Network
                                  /\ nets[u].id \in Nat /\ u \in 1..Len(ToSave)
<1>1. nets # <<>> /\ u \in 1..Len(ToSave) + 1 /\ annIdx \in Nat /\ u \in Nat
  BY DEF FilesInv, Saving, Numbered, Writing, FilesTypeOK
<1>2. /\ Len(ToSave) \in 1..Len(nets) /\ nets \in Seq(Network)
      /\ \A k \in 1..Len(ToSave) : ToSave[k] = nets[k] /\ k \in 1..Len(nets)
  BY <1>1, ToSaveIs DEF FilesInv, FilesTypeOK
<1>3. Len(ToSave) \in Nat
  BY <1>2
<1>4. Target \in FileNames /\ Cfg(annIdx) \in FileNames
  BY <1>1, NamesApart DEF Target
<1>5. ASSUME u <= Len(ToSave)
      PROVE  /\ nets[u] = ToSave[u] /\ nets[u] \in Network
             /\ nets[u].id \in Nat /\ u \in 1..Len(ToSave)
  <2>1. u \in 1..Len(ToSave)
    BY <1>1, <1>3, <1>5
  <2>2. nets[u] = ToSave[u] /\ nets[u] \in Network
    BY <1>2, <2>1, ElementOfSeq
  <2> QED BY <2>1, <2>2 DEF Network
<1> QED BY <1>1, <1>3, <1>4, <1>5

LEMMA LearnFits ==
    ASSUME FilesTypeOK, NEW k \in 1..Len(nets), NEW n \in Network
    PROVE  LET ns == Append(RemoveAt(nets, k), n)
           IN  ns \in Seq(Network) /\ Len(ns) <= CacheLimit
<1>1. nets \in Seq(Network) /\ Len(nets) <= CacheLimit /\ Len(nets) \in Nat /\ CacheLimit \in Nat
  BY LenProperties, FilesAssumption DEF FilesTypeOK
<1> DEFINE r == RemoveAt(nets, k)
<1>2. r \in Seq(Network) /\ Len(r) = Len(nets) - 1
  BY <1>1, RemoveAtProperties
<1> HIDE DEF r
<1>3. Append(r, n) \in Seq(Network) /\ Len(Append(r, n)) = Len(r) + 1
  BY <1>2, AppendProperties
<1>4. Append(r, n) \in Seq(Network) /\ Len(Append(r, n)) <= CacheLimit
  BY <1>1, <1>2, <1>3
<1> QED BY <1>4 DEF r

\* A save enters what it found.
LEMMA SavedGrows ==
    ASSUME FilesTypeOK, NEW e \in Seq(Nat), Len(e) <= CacheLimit, saved' = Append(saved, e)
    PROVE  /\ saved' \in Seq(Seq(Nat)) /\ Len(saved) \in Nat /\ Len(saved') = Len(saved) + 1
           /\ saved'[Len(saved')] = e /\ \A s \in 1..Len(saved) : saved'[s] = saved[s]
           /\ \A s \in 1..Len(saved') : Len(saved'[s]) <= CacheLimit
<1>1. saved \in Seq(Seq(Nat)) /\ \A s \in 1..Len(saved) : Len(saved[s]) <= CacheLimit
  BY DEF FilesTypeOK
<1> DEFINE a == Append(saved, e)
<1>2. /\ a \in Seq(Seq(Nat)) /\ Len(saved) \in Nat /\ Len(a) = Len(saved) + 1
      /\ a[Len(saved) + 1] = e /\ \A s \in 1..Len(saved) : a[s] = saved[s]
  BY <1>1, LenProperties, AppendProperties
<1> HIDE DEF a
<1>3. \A s \in 1..Len(a) : Len(a[s]) <= CacheLimit
  <2> TAKE s \in 1..Len(a)
  <2>1. CASE s = Len(saved) + 1
    BY <1>2, <2>1
  <2>2. CASE s \in 1..Len(saved)
    BY <1>1, <1>2, <2>2
  <2> QED BY <1>2, <2>1, <2>2
<1> QED BY <1>2, <1>3 DEF a

LEMMA FilesTypeKept ==
    ASSUME FilesInv, [FilesNext]_filesVars
    PROVE  FilesTypeOK'
<1> USE DEF FilesInv
<1>1. /\ nets \in Seq(Network) /\ Len(nets) <= CacheLimit
      /\ u \in Nat /\ annIdx \in Nat /\ ids \in Nat
      /\ single \in BOOLEAN /\ first_run \in BOOLEAN
      /\ finish \in [answer : BOOLEAN, failed : BOOLEAN, single : BOOLEAN]
  BY DEF FilesTypeOK
<1>2. /\ <<>> \in Seq(Network) /\ Len(<<>>) <= CacheLimit
      /\ 0 \in Nat /\ 1 \in Nat /\ u + 1 \in Nat /\ annIdx + 1 \in Nat /\ ids + 1 \in Nat
  BY <1>1, FilesAssumption
\* A failure and an answer leave finish a record of its kind.
<1>3. /\ Failed => finish' \in [answer : BOOLEAN, failed : BOOLEAN, single : BOOLEAN]
      /\ Answer(TRUE) => finish' \in [answer : BOOLEAN, failed : BOOLEAN, single : BOOLEAN]
  BY <1>1 DEF Failed, Answer
<1>4. CASE UNCHANGED filesVars
  BY <1>4 DEF FilesTypeOK, filesVars, Writing
<1>5. CASE NewNetwork
  <2>1. [id |-> ids + 1, trained |-> FALSE] \in Network
    BY <1>2 DEF Network
  <2>2. nets' \in Seq(Network) /\ Len(nets') <= CacheLimit
    BY <1>1, <1>5, <2>1, PutFits DEF NewNetwork, NewId
  <2> QED BY <1>2, <1>5, <2>2 DEF NewNetwork, NewId, Directory, FilesTypeOK, Writing
<1>6. ASSUME NEW k \in 1..Len(nets), Learn(k) PROVE FilesTypeOK'
  <2>1. [id |-> ids + 1, trained |-> TRUE] \in Network
    BY <1>2 DEF Network
  <2>2. nets' \in Seq(Network) /\ Len(nets') <= CacheLimit
    BY <1>6, <2>1, LearnFits DEF Learn, NewId
  <2> QED BY <1>2, <1>6, <2>2 DEF Learn, NewId, Directory, FilesTypeOK, Writing
<1>7. CASE ForgetNetworks
  BY <1>2, <1>7 DEF ForgetNetworks, Directory, FilesTypeOK, Writing
<1>8. CASE LoadFiles
  <2>1. PICK n \in 0..Len(Found(single)) : nets' = Loaded(SubSeq(Found(single), 1, n))
    BY <1>8 DEF LoadFiles
  <2>2. Found(single) \in Seq(Nat)
    BY <1>1, FoundOfOne
  <2>3. nets' \in Seq(Network) /\ Len(nets') <= CacheLimit
    BY <2>1, <2>2, LoadedFits
  <2> QED BY <1>8, <2>3 DEF LoadFiles, Directory, FilesTypeOK, Writing
<1>9. ASSUME NEW b \in BOOLEAN, SetPseudorehearsal(b) PROVE FilesTypeOK'
  BY <1>9 DEF SetPseudorehearsal, Directory, FilesTypeOK, Writing
<1>10. CASE SaveStart
  <2>1. nets # <<>> /\ saved' = Append(saved, Learned(ToSave))
    BY <1>10 DEF SaveStart
  <2>2. saved' \in Seq(Seq(Nat)) /\ \A s \in 1..Len(saved') : Len(saved'[s]) <= CacheLimit
    BY <2>1, ToSaveTrained, SavedGrows
  <2>3. finish' \in [answer : BOOLEAN, failed : BOOLEAN, single : BOOLEAN]
    BY <1>1, <1>10 DEF SaveStart
  <2> QED BY <1>10, <2>2, <2>3 DEF SaveStart, Step, FilesTypeOK, Writing
<1>11. ASSUME NEW f \in DOMAIN files, CleanOne(f) PROVE FilesTypeOK'
  <2>1. DOMAIN files' \subseteq FileNames /\ files' \in [DOMAIN files' -> [id : Nat, whole : BOOLEAN]]
    BY <1>11, WithoutFilesType DEF CleanOne
  <2> QED BY <1>11, <2>1 DEF CleanOne, FilesTypeOK, Writing
<1>12. ASSUME NEW f \in DOMAIN files, CleanFails(f) PROVE FilesTypeOK'
  BY <1>3, <1>12 DEF CleanFails, Step, FilesTypeOK, Writing
<1>13. CASE CleanDone
  BY <1>2, <1>13 DEF CleanDone, Step, FilesTypeOK, Writing
<1>14. CASE SkipUntrained
  BY <1>2, <1>14 DEF SkipUntrained, FilesTypeOK, Writing
<1>15. CASE BeginAnn
  <2>1. Writing /\ u <= Len(ToSave) /\ files' = Start(Target, nets[u].id)
    BY <1>15 DEF BeginAnn, Step, Writing
  <2>2. DOMAIN files' \subseteq FileNames /\ files' \in [DOMAIN files' -> [id : Nat, whole : BOOLEAN]]
    BY <2>1, SavePlace, StartType
  <2> QED BY <1>15, <2>2 DEF BeginAnn, Step, FilesTypeOK, Writing
<1>16. CASE EndAnn
  <2>1. Target \in DOMAIN files /\ files' = End(Target)
    BY <1>16 DEF EndAnn, Step, Writing, Numbered
  <2>2. DOMAIN files' \subseteq FileNames /\ files' \in [DOMAIN files' -> [id : Nat, whole : BOOLEAN]]
    BY <2>1, EndType
  <2> QED BY <1>2, <1>16, <2>2 DEF EndAnn, Step, FilesTypeOK, Writing
<1>17. CASE AnnFails
  BY <1>2, <1>3, <1>17 DEF AnnFails, NextPair, Step, FilesTypeOK, Writing
<1>18. CASE BeginCfg
  <2>1. Writing /\ u <= Len(ToSave) /\ files' = Start(Cfg(annIdx), nets[u].id)
    BY <1>18 DEF BeginCfg, Step, Writing, Numbered
  <2>2. DOMAIN files' \subseteq FileNames /\ files' \in [DOMAIN files' -> [id : Nat, whole : BOOLEAN]]
    BY <2>1, SavePlace, StartType
  <2> QED BY <1>18, <2>2 DEF BeginCfg, Step, FilesTypeOK, Writing
<1>19. CASE OpenCfgFails
  BY <1>2, <1>3, <1>19 DEF OpenCfgFails, NextPair, Step, FilesTypeOK, Writing
<1>20. CASE EndCfg
  <2>1. Cfg(annIdx) \in DOMAIN files /\ files' = End(Cfg(annIdx))
    BY <1>20 DEF EndCfg, Step, Writing, Numbered
  <2>2. DOMAIN files' \subseteq FileNames /\ files' \in [DOMAIN files' -> [id : Nat, whole : BOOLEAN]]
    BY <2>1, EndType
  <2> QED BY <1>2, <1>20, <2>2 DEF EndCfg, NextPair, Step, FilesTypeOK, Writing
<1>21. CASE CfgFails
  <2>1. DOMAIN files' \subseteq FileNames /\ files' \in [DOMAIN files' -> [id : Nat, whole : BOOLEAN]]
    BY <1>21, WithoutFilesType DEF CfgFails
  <2> QED BY <1>3, <1>21, <2>1 DEF CfgFails, Step, FilesTypeOK, Writing
<1>22. CASE DeleteCfg
  <2>1. DOMAIN files' \subseteq FileNames /\ files' \in [DOMAIN files' -> [id : Nat, whole : BOOLEAN]]
    BY <1>22, WithoutFilesType DEF DeleteCfg
  <2> QED BY <1>2, <1>22, <2>1 DEF DeleteCfg, NextPair, Step, FilesTypeOK, Writing
<1>23. CASE SaveEnd
  BY <1>3, <1>23 DEF SaveEnd, Step, FilesTypeOK, Writing
<1>24. CASE Crash
  BY <1>2, <1>24 DEF Crash, FilesTypeOK, Writing
<1> QED BY <1>4, <1>5, <1>6, <1>7, <1>8, <1>9, <1>10, <1>11, <1>12, <1>13, <1>14, <1>15,
           <1>16, <1>17, <1>18, <1>19, <1>20, <1>21, <1>22, <1>23, <1>24 DEF FilesNext

-----------------------------------------------------------------------------
(* Every step keeps what is on the disk of the saves                       *)

\* What a save found is never changed.
LEMMA SavedStays ==
    ASSUME FilesInv, [FilesNext]_filesVars
    PROVE  /\ Len(saved) \in Nat /\ Len(saved') \in Nat /\ Len(saved) <= Len(saved')
           /\ \A s \in 1..Len(saved) : saved'[s] = saved[s]
           /\ saved' = saved \/ SaveStart
<1>1. Len(saved) \in Nat
  BY LenProperties DEF FilesInv, FilesTypeOK
<1>2. CASE SaveStart
  <2>1. nets # <<>> /\ saved' = Append(saved, Learned(ToSave))
    BY <1>2 DEF SaveStart
  <2> QED BY <1>1, <1>2, <2>1, ToSaveTrained, SavedGrows DEF FilesInv
<1>3. CASE ~SaveStart
  <2>1. saved' = saved
    BY <1>3 DEF FilesNext, filesVars, Directory, NewNetwork, Learn, ForgetNetworks, LoadFiles,
                SetPseudorehearsal, CleanOne, CleanFails, CleanDone, SkipUntrained, BeginAnn,
                EndAnn, AnnFails, BeginCfg, OpenCfgFails, EndCfg, CfgFails, DeleteCfg,
                SaveEnd, Crash
  <2> QED BY <1>1, <2>1
<1> QED BY <1>2, <1>3

\* Only the beginning of a file adds to the disk.
LEMMA FilesStay ==
    ASSUME FilesInv, [FilesNext]_filesVars
    PROVE  \/ BeginAnn \/ BeginCfg
           \/ /\ DOMAIN files' \subseteq DOMAIN files
              /\ \A g \in DOMAIN files' : files'[g].id = files[g].id
<1> DEFINE Stay == /\ DOMAIN files' \subseteq DOMAIN files
                   /\ \A g \in DOMAIN files' : files'[g].id = files[g].id
<1>1. ASSUME NEW f \in DOMAIN files, files' = End(f) PROVE Stay
  <2>1. /\ DOMAIN files' = DOMAIN files
        /\ files'[f] = [id |-> files[f].id, whole |-> TRUE]
        /\ \A g \in DOMAIN files : g # f => files'[g] = files[g]
    BY <1>1, EndIs DEF FilesInv
  <2> QED BY <2>1
<1>2. ASSUME NEW fs, files' = WithoutFiles(fs) PROVE Stay
  BY <1>2 DEF WithoutFiles
<1>3. files' = files => Stay
  OBVIOUS
<1> HIDE DEF Stay
<1>4. EndAnn => Stay
  BY <1>1 DEF EndAnn, Step, FilesInv, Numbered, Writing
<1>5. EndCfg => Stay
  BY <1>1 DEF EndCfg, Step, FilesInv, Numbered, Writing
<1>6. CfgFails \/ DeleteCfg \/ (\E f \in DOMAIN files : CleanOne(f)) => Stay
  BY <1>2 DEF CfgFails, DeleteCfg, CleanOne
<1>7. ASSUME ~EndAnn, ~EndCfg, ~CfgFails, ~DeleteCfg, ~BeginAnn, ~BeginCfg,
             ~(\E f \in DOMAIN files : CleanOne(f))
      PROVE  Stay
  BY <1>3, <1>7 DEF FilesNext, filesVars, Directory, NewNetwork, Learn, ForgetNetworks, LoadFiles,
                SetPseudorehearsal, SaveStart, CleanFails, CleanDone, SkipUntrained,
                AnnFails, OpenCfgFails, SaveEnd, Crash
<1> QED BY <1>4, <1>5, <1>6, <1>7 DEF Stay

\* Less on the disk, or as much, is of the same saves.
LEMMA FewerFiles ==
    ASSUME DOMAIN files' \subseteq DOMAIN files,
           \A g \in DOMAIN files' : files'[g].id = files[g].id,
           Len(saved) \in Nat, Len(saved') \in Nat, Len(saved) <= Len(saved'),
           \A s \in 1..Len(saved) : saved'[s] = saved[s]
    PROVE  /\ NoPairs => NoPairs'
           /\ \A s \in 1..Len(saved) : Holds(s) => Holds(s)'
           /\ PseudoFile \in DOMAIN files' => \A s \in 1..Len(saved) : HoldsOne(s) => HoldsOne(s)'
           /\ OfSaves => OfSaves'
<1>1. NoPairs => NoPairs'
  BY DEF NoPairs, Cleaned
<1>2. \A s \in 1..Len(saved) : Holds(s) => Holds(s)'
  BY DEF Holds, Cleaned
<1>3. PseudoFile \in DOMAIN files' => \A s \in 1..Len(saved) : HoldsOne(s) => HoldsOne(s)'
  BY DEF HoldsOne, PseudoFile
<1>4. \A s \in 1..Len(saved) : s \in 1..Len(saved')
  OBVIOUS
<1>5. ASSUME OfSaves PROVE OfSaves'
  <2>1. NoPairs' \/ \E s \in 1..Len(saved') : Holds(s)'
    BY <1>1, <1>2, <1>4, <1>5 DEF OfSaves
  <2>2. PseudoFile \in DOMAIN files' => \E s \in 1..Len(saved') : HoldsOne(s)'
    BY <1>3, <1>4, <1>5 DEF OfSaves
  <2> QED BY <2>1, <2>2 DEF OfSaves, PseudoFile
<1> QED BY <1>1, <1>2, <1>3, <1>5

\* A file more, that holds the network with its number.
LEMMA HoldsMore ==
    ASSUME NEW s, Holds(s), NEW f, NEW id,
           f[2] + 1 \in 1..Len(saved[s]), id = saved[s][f[2] + 1],
           files' = Start(f, id), saved' = saved
    PROVE  Holds(s)' /\ (s = Len(saved) => Holds(Len(saved))')
<1>1. /\ DOMAIN files' = DOMAIN files \cup {f} /\ files'[f].id = id
      /\ \A g \in DOMAIN files : g # f => files'[g] = files[g]
  BY DEF Start
<1>2. Holds(s)'
  BY <1>1 DEF Holds, Cleaned
<1>3. s = Len(saved) => s = Len(saved')
  OBVIOUS
<1> QED BY <1>2, <1>3 DEF Holds, Cleaned

\* The network a save has come to: which one of those it found.
LEMMA SaveEntry ==
    ASSUME FilesInv, Writing, u <= Len(ToSave)
    PROVE  LET last == saved[Len(saved)]
           IN  /\ Len(saved) \in 1..Len(saved) /\ Last(saved) = last
               /\ single => u = 1
               /\ single /\ nets[u].trained => Len(last) = 1 /\ last[1] = nets[u].id
               /\ single /\ ~nets[u].trained => last = <<>>
               /\ ~single => Len(Learned(SubSeq(ToSave, 1, u))) =
                                IF nets[u].trained THEN annIdx + 1 ELSE annIdx
               /\ ~single /\ nets[u].trained => /\ annIdx + 1 \in 1..Len(last)
                                                /\ last[annIdx + 1] = nets[u].id
<1> DEFINE last == saved[Len(saved)]
           n == Len(Learned(SubSeq(ToSave, 1, u - 1)))
           ns == ToSave
<1>1. /\ nets # <<>> /\ saved # <<>> /\ Last(saved) = Learned(ns)
      /\ saved \in Seq(Seq(Nat))
  BY DEF FilesInv, Saving, Writing, FilesTypeOK
<1>2. Len(saved) \in 1..Len(saved) /\ Last(saved) = last
  BY <1>1, EmptySeq DEF Last
<1>3. /\ ns \in Seq(Network) /\ u \in 1..Len(ns) /\ ns[u] = nets[u] /\ Len(ns) \in Nat
      /\ single => Len(ns) = 1
  BY <1>1, SavePlace, ToSaveIs DEF FilesInv
<1>4. ~single => annIdx = n
  BY DEF FilesInv, Numbered
<1>5. single => u = 1
  <2> SUFFICES ASSUME single PROVE u = 1
    OBVIOUS
  <2>1. u \in 1..Len(ns) /\ Len(ns) = 1
    BY <1>3
  <2> HIDE DEF ns
  <2> QED BY ONLY <2>1
<1>6. single => n = 0
  <2> SUFFICES ASSUME single PROVE n = 0
    OBVIOUS
  <2>1. u - 1 = 0
    BY <1>5
  <2>2. SubSeq(ns, 1, 0) = <<>>
    BY <1>3, SubSeqWhole
  <2>3. Learned(<<>>) = <<>>
    <3>1. ns[u] \in Network
      BY <1>3, ElementOfSeq
    <3> QED BY <1>3, <3>1, TrainedAppend
  <2>4. Len(<<>>) = 0
    OBVIOUS
  <2> HIDE DEF ns
  <2>5. SubSeq(ns, 1, u - 1) = <<>>
    BY <2>1, <2>2
  <2> QED BY <2>3, <2>4, <2>5 DEF ns
<1>7. Len(Learned(ns)) \in Nat /\ Len(Learned(ns)) <= Len(ns) /\ Learned(ns) \in Seq(Nat)
  BY <1>1, ToSaveTrained DEF FilesInv
<1>8. /\ n \in Nat
      /\ ns[u].trained => /\ n + 1 \in 1..Len(Learned(ns)) /\ Learned(ns)[n + 1] = ns[u].id
                          /\ Len(Learned(SubSeq(ns, 1, u))) = n + 1
      /\ ~ns[u].trained => Len(Learned(SubSeq(ns, 1, u))) = n
  <2> HIDE DEF ns
  <2> QED BY <1>3, TrainedAt DEF ns
<1>9. last = Learned(ns)
  BY <1>1, <1>2
<1> HIDE DEF last, n
<1>10. single /\ nets[u].trained => Len(last) = 1 /\ last[1] = nets[u].id
  <2> HIDE DEF ns
  <2> QED BY <1>3, <1>6, <1>7, <1>8, <1>9
<1>11. ASSUME single, ~nets[u].trained PROVE last = <<>>
  <2>1. SubSeq(ns, 1, u) = ns
    <3> HIDE DEF ns
    <3> QED BY <1>3, <1>5, <1>11, SubSeqWhole
  <2>2. Len(last) = 0
    <3> HIDE DEF ns
    <3> QED BY <1>3, <1>6, <1>8, <1>9, <1>11, <2>1
  <2> QED BY <1>7, <1>9, <2>2, EmptySeq
<1>12. ~single => Len(Learned(SubSeq(ns, 1, u))) = IF nets[u].trained THEN annIdx + 1 ELSE annIdx
  <2> HIDE DEF ns
  <2> QED BY <1>3, <1>4, <1>8
<1>13. ~single /\ nets[u].trained => annIdx + 1 \in 1..Len(last) /\ last[annIdx + 1] = nets[u].id
  <2> HIDE DEF ns
  <2> QED BY <1>3, <1>4, <1>8, <1>9
<1> QED BY <1>2, <1>5, <1>10, <1>11, <1>12, <1>13 DEF last

\* The file of the network a save has come to is of that save.
LEMMA BeginAnnHolds ==
    ASSUME FilesInv, BeginAnn
    PROVE  /\ saved' = saved /\ Len(saved) \in 1..Len(saved)
           /\ single => /\ NoPairs' /\ HoldsOne(Len(saved))' /\ PseudoFile \in DOMAIN files'
           /\ ~single => /\ Holds(Len(saved))' /\ Ann(annIdx) \in DOMAIN files'
                         /\ PseudoFile \in DOMAIN files' => /\ PseudoFile \in DOMAIN files
                                                            /\ files'[PseudoFile] = files[PseudoFile]
<1>1. /\ Writing /\ u <= Len(ToSave) /\ nets[u].trained
      /\ files' = Start(Target, nets[u].id) /\ saved' = saved
  BY DEF BeginAnn, Step, Writing
<1> DEFINE s == Len(saved)
<1>2. /\ s \in 1..s
      /\ single => Len(saved[s]) = 1 /\ saved[s][1] = nets[u].id
      /\ ~single => annIdx + 1 \in 1..Len(saved[s]) /\ saved[s][annIdx + 1] = nets[u].id
  BY <1>1, SaveEntry
<1>3. annIdx \in Nat
  BY DEF FilesInv, FilesTypeOK
<1>4. ASSUME single
      PROVE  NoPairs' /\ HoldsOne(Len(saved))' /\ PseudoFile \in DOMAIN files'
  <2>1. NoPairs /\ Target = PseudoFile
    BY <1>1, <1>4 DEF FilesInv, Numbered, Target
  <2>2. /\ DOMAIN files' = DOMAIN files \cup {PseudoFile} /\ files'[PseudoFile].id = nets[u].id
        /\ ~Cleaned(PseudoFile)
    BY <1>1, <2>1, NamesApart DEF Start
  <2>3. NoPairs'
    BY <2>1, <2>2 DEF NoPairs, Cleaned
  <2>4. HoldsOne(Len(saved))'
    BY <1>1, <1>2, <1>4, <2>2 DEF HoldsOne, PseudoFile
  <2> QED BY <2>2, <2>3, <2>4
<1>5. ASSUME ~single
      PROVE  /\ Holds(Len(saved))' /\ Ann(annIdx) \in DOMAIN files'
             /\ PseudoFile \in DOMAIN files' => /\ PseudoFile \in DOMAIN files
                                                /\ files'[PseudoFile] = files[PseudoFile]
  <2>1. Holds(s) /\ Target = Ann(annIdx)
    BY <1>1, <1>5 DEF FilesInv, Numbered, Target
  <2>2. Ann(annIdx)[2] = annIdx /\ Ann(annIdx) # PseudoFile
    BY <1>3, NamesApart
  <2>3. /\ DOMAIN files' = DOMAIN files \cup {Ann(annIdx)}
        /\ \A g \in DOMAIN files : g # Ann(annIdx) => files'[g] = files[g]
    BY <1>1, <2>1 DEF Start
  <2>4. Holds(Len(saved))'
    <3> DEFINE f == Ann(annIdx)
               e == nets[u].id
    <3>1. /\ f[2] + 1 \in 1..Len(saved[s]) /\ e = saved[s][f[2] + 1]
          /\ files' = Start(f, e) /\ saved' = saved /\ Holds(s)
      BY <1>1, <1>2, <1>5, <2>1, <2>2
    <3> QED BY <3>1, HoldsMore
  <2> QED BY <2>2, <2>3, <2>4
<1> QED BY <1>1, <1>2, <1>4, <1>5

LEMMA BeginCfgHolds ==
    ASSUME FilesInv, BeginCfg
    PROVE  /\ saved' = saved /\ Len(saved) \in 1..Len(saved) /\ ~single
           /\ Holds(Len(saved))' /\ Cfg(annIdx) \in DOMAIN files'
           /\ PseudoFile \in DOMAIN files' => /\ PseudoFile \in DOMAIN files
                                              /\ files'[PseudoFile] = files[PseudoFile]
<1>1. /\ Writing /\ u <= Len(ToSave) /\ nets[u].trained /\ ~single /\ Holds(Len(saved))
      /\ files' = Start(Cfg(annIdx), nets[u].id) /\ saved' = saved
  BY DEF BeginCfg, Step, Writing, FilesInv, Numbered
<1> DEFINE s == Len(saved)
           f == Cfg(annIdx)
           e == nets[u].id
<1>2. s \in 1..s /\ annIdx + 1 \in 1..Len(saved[s]) /\ saved[s][annIdx + 1] = nets[u].id
  BY <1>1, SaveEntry
<1>3. annIdx \in Nat
  BY DEF FilesInv, FilesTypeOK
<1>4. f[2] = annIdx /\ f # PseudoFile
  BY <1>3, NamesApart
<1>5. /\ DOMAIN files' = DOMAIN files \cup {f}
      /\ \A g \in DOMAIN files : g # f => files'[g] = files[g]
  BY <1>1 DEF Start
<1>6. Holds(Len(saved))'
  <2>1. /\ f[2] + 1 \in 1..Len(saved[s]) /\ e = saved[s][f[2] + 1]
        /\ files' = Start(f, e) /\ saved' = saved /\ Holds(s)
    BY <1>1, <1>2, <1>4
  <2> QED BY <2>1, HoldsMore
<1> QED BY <1>1, <1>2, <1>4, <1>5, <1>6

LEMMA OfSavesKept ==
    ASSUME FilesInv, [FilesNext]_filesVars
    PROVE  OfSaves'
<1>1. CASE BeginAnn
  <2>1. /\ saved' = saved /\ Len(saved') \in 1..Len(saved')
        /\ single => /\ NoPairs' /\ HoldsOne(Len(saved))' /\ PseudoFile \in DOMAIN files'
        /\ ~single => /\ Holds(Len(saved))'
                      /\ PseudoFile \in DOMAIN files' => /\ PseudoFile \in DOMAIN files
                                                         /\ files'[PseudoFile] = files[PseudoFile]
    BY <1>1, BeginAnnHolds
  <2>2. CASE single
    BY <2>1, <2>2 DEF OfSaves, PseudoFile
  <2>3. CASE ~single
    <3>1. PseudoFile \in DOMAIN files' => \E s \in 1..Len(saved') : HoldsOne(s)'
      BY <2>1, <2>3 DEF FilesInv, OfSaves, HoldsOne, PseudoFile
    <3> QED BY <2>1, <2>3, <3>1 DEF OfSaves, PseudoFile
  <2> QED BY <2>2, <2>3
<1>2. CASE BeginCfg
  <2>1. /\ saved' = saved /\ Len(saved') \in 1..Len(saved') /\ Holds(Len(saved))'
        /\ PseudoFile \in DOMAIN files' => /\ PseudoFile \in DOMAIN files
                                           /\ files'[PseudoFile] = files[PseudoFile]
    BY <1>2, BeginCfgHolds
  <2>2. PseudoFile \in DOMAIN files' => \E s \in 1..Len(saved') : HoldsOne(s)'
    BY <2>1 DEF FilesInv, OfSaves, HoldsOne, PseudoFile
  <2> QED BY <2>1, <2>2 DEF OfSaves, PseudoFile
<1>3. CASE ~BeginAnn /\ ~BeginCfg
  <2>1. /\ DOMAIN files' \subseteq DOMAIN files
        /\ \A g \in DOMAIN files' : files'[g].id = files[g].id
    BY <1>3, FilesStay
  <2>2. /\ Len(saved) \in Nat /\ Len(saved') \in Nat /\ Len(saved) <= Len(saved')
        /\ \A s \in 1..Len(saved) : saved'[s] = saved[s]
    BY SavedStays
  <2> QED BY <2>1, <2>2, FewerFiles DEF FilesInv
<1> QED BY <1>1, <1>2, <1>3

\* What stays of the save, when no file is begun.
LEMMA HoldsStay ==
    ASSUME FilesInv, [FilesNext]_filesVars, ~BeginAnn, ~BeginCfg, saved' = saved, saved # <<>>
    PROVE  /\ NoPairs => NoPairs'
           /\ Holds(Len(saved)) => Holds(Len(saved))'
           /\ PseudoFile \in DOMAIN files' /\ HoldsOne(Len(saved)) => HoldsOne(Len(saved))'
<1>1. /\ DOMAIN files' \subseteq DOMAIN files
      /\ \A g \in DOMAIN files' : files'[g].id = files[g].id
  BY FilesStay
<1>2. NoPairs => NoPairs'
  BY <1>1 DEF NoPairs, Cleaned
<1>3. Holds(Len(saved)) => Holds(Len(saved))'
  BY <1>1 DEF Holds, Cleaned
<1>4. PseudoFile \in DOMAIN files' /\ HoldsOne(Len(saved)) => HoldsOne(Len(saved))'
  BY <1>1 DEF HoldsOne, PseudoFile
<1> QED BY <1>2, <1>3, <1>4

-----------------------------------------------------------------------------
(* Every step keeps what a save knows of itself                            *)

LEMMA ResultIs ==
    ASSUME FilesTypeOK
    PROVE  /\ Failed => /\ finish'.failed /\ finish'.answer = finish.answer
                        /\ finish'.single = finish.single
           /\ Answer(TRUE) => /\ finish'.answer /\ finish'.failed = finish.failed
                              /\ finish'.single = finish.single
<1>1. finish \in [answer : BOOLEAN, failed : BOOLEAN, single : BOOLEAN]
  BY DEF FilesTypeOK
<1> QED BY <1>1 DEF Failed, Answer

\* A save in progress owns the engine.
LEMMA SaveOwns ==
    ASSUME FilesInv, [FilesNext]_filesVars, at # "idle", at' # "idle"
    PROVE  /\ nets' = nets /\ single' = single /\ saved' = saved /\ ToSave' = ToSave
           /\ finish' = finish \/ (Failed /\ finish'.failed)
           /\ finish'.answer = finish.answer /\ finish'.single = finish.single
<1>1. /\ nets' = nets /\ single' = single /\ saved' = saved
      /\ finish' = finish \/ Failed
  BY DEF FilesNext, filesVars, Directory, NewNetwork, Learn, ForgetNetworks, LoadFiles,
         SetPseudorehearsal, SaveStart, CleanOne, CleanFails, CleanDone, SkipUntrained,
         BeginAnn, EndAnn, AnnFails, BeginCfg, OpenCfgFails, EndCfg, CfgFails, DeleteCfg,
         SaveEnd, Crash, Step
<1>2. ToSave' = ToSave
  BY <1>1 DEF ToSave
<1> QED BY <1>1, <1>2, ResultIs DEF FilesInv

LEMMA SavingKept ==
    ASSUME FilesInv, [FilesNext]_filesVars
    PROVE  Saving'
<1>1. CASE at' = "idle"
  BY <1>1 DEF Saving
<1>2. CASE at' # "idle" /\ at # "idle"
  BY <1>2, SaveOwns DEF FilesInv, Saving
<1>3. CASE at' # "idle" /\ at = "idle"
  <2>1. SaveStart
    BY <1>3 DEF FilesNext, filesVars, Directory, NewNetwork, Learn, ForgetNetworks, LoadFiles,
         SetPseudorehearsal, CleanOne, CleanFails, CleanDone, SkipUntrained,
         BeginAnn, EndAnn, AnnFails, BeginCfg, OpenCfgFails, EndCfg, CfgFails, DeleteCfg,
         SaveEnd, Crash, Step
  <2>2. /\ nets # <<>> /\ nets' = nets /\ single' = single
        /\ saved' = Append(saved, Learned(ToSave))
        /\ finish'.single = single /\ ~finish'.answer
    BY <2>1 DEF SaveStart
  <2>3. ToSave' = ToSave
    BY <2>2 DEF ToSave
  <2>4. /\ Len(saved) \in Nat /\ Len(saved') = Len(saved) + 1
        /\ saved'[Len(saved')] = Learned(ToSave)
    BY <2>2, ToSaveTrained, SavedGrows DEF FilesInv
  <2>5. saved' # <<>>
    BY <2>4
  <2>6. Last(saved') = Learned(ToSave)
    BY <2>4 DEF Last
  <2> QED BY <2>2, <2>3, <2>5, <2>6 DEF Saving
<1> QED BY <1>1, <1>2, <1>3

\* The next network of a save, and its number.
LEMMA NextNumber ==
    ASSUME FilesInv, Writing, u <= Len(ToSave)
    PROVE  /\ u + 1 \in 1..Len(ToSave) + 1
           /\ ~single /\ nets[u].trained => annIdx + 1 = Len(Learned(SubSeq(ToSave, 1, (u + 1) - 1)))
           /\ ~single /\ ~nets[u].trained => annIdx = Len(Learned(SubSeq(ToSave, 1, (u + 1) - 1)))
<1>1. Len(ToSave) \in Nat /\ u \in 1..Len(ToSave)
  BY SavePlace
<1>2. (u + 1) - 1 = u /\ u + 1 \in 1..Len(ToSave) + 1
  BY <1>1
<1>3. ~single => Len(Learned(SubSeq(ToSave, 1, u))) = IF nets[u].trained THEN annIdx + 1 ELSE annIdx
  BY SaveEntry
<1> QED BY <1>2, <1>3

LEMMA NumberedKept ==
    ASSUME FilesInv, [FilesNext]_filesVars
    PROVE  Numbered'
<1> SUFFICES ASSUME Writing' PROVE Numbered'
  BY DEF Numbered
<1> DEFINE Goes(n, a) == /\ n \in 1..Len(ToSave) + 1
                         /\ ~single => a = Len(Learned(SubSeq(ToSave, 1, n - 1)))
           Pairs0 == IF single THEN NoPairs' ELSE Holds(Len(saved))'
<1>1. at' # "idle" /\ at # "idle"
  <2>1. SaveStart => at' = "clean"
    BY DEF SaveStart, Step
  <2> QED BY <2>1 DEF Writing, FilesNext, filesVars, Directory, NewNetwork, Learn, ForgetNetworks, LoadFiles,
         SetPseudorehearsal, CleanOne, CleanFails, CleanDone, SkipUntrained,
         BeginAnn, EndAnn, AnnFails, BeginCfg, OpenCfgFails, EndCfg, CfgFails, DeleteCfg,
         SaveEnd, Crash, Step
<1>2. /\ nets' = nets /\ single' = single /\ saved' = saved /\ ToSave' = ToSave
      /\ saved # <<>> /\ nets # <<>>
  BY <1>1, SaveOwns DEF FilesInv, Saving
\* What it takes to come to a network, and to be at one.
<1>3. ASSUME at' = "next", Goes(u', annIdx'), Pairs0
      PROVE  Numbered'
  <2>1. ~(at' \in {"open", "cfg", "deleting"}) /\ at' # "ann" /\ at' # "cfg"
    BY <1>3
  <2>2. Goes(u', annIdx') /\ Pairs0
    BY <1>3
  <2> QED BY <1>2, <1>3, <2>1, <2>2 DEF Numbered
<1>4. ASSUME at' \in {"open", "cfg", "deleting"}, ~single, u <= Len(ToSave), nets[u].trained,
             Writing, u' = u, annIdx' = annIdx, Holds(Len(saved))',
             at' = "cfg" => Cfg(annIdx') \in DOMAIN files'
      PROVE  Numbered'
  <2>1. u \in 1..Len(ToSave) + 1 /\ annIdx = Len(Learned(SubSeq(ToSave, 1, u - 1)))
    BY <1>4 DEF FilesInv, Numbered
  <2>2. Cfg(annIdx)' = Cfg(annIdx') /\ at' # "ann"
    BY <1>4 DEF Cfg
  <2> QED BY <1>2, <1>4, <2>1, <2>2 DEF Numbered, Cfg
<1>5. ASSUME ~BeginAnn, ~BeginCfg
      PROVE  /\ NoPairs => NoPairs' 
             /\ Holds(Len(saved)) => Holds(Len(saved))'
             /\ PseudoFile \in DOMAIN files' /\ HoldsOne(Len(saved)) => HoldsOne(Len(saved))'
  BY <1>2, <1>5, HoldsStay
<1>6. ASSUME ~BeginAnn, ~BeginCfg, Writing PROVE Pairs0
  BY <1>5, <1>6 DEF FilesInv, Numbered
<1>7. ASSUME Writing, u <= Len(ToSave), nets[u].trained, ~single PROVE Goes(u + 1, annIdx + 1)
  BY <1>7, NextNumber
<1> HIDE DEF Goes, Pairs0
<1>8. CASE UNCHANGED filesVars
  <2>1. Writing /\ at' = at /\ u' = u /\ annIdx' = annIdx /\ files' = files
    BY <1>8 DEF Writing, filesVars
  <2>2. NoPairs' <=> NoPairs
    BY <2>1 DEF NoPairs, Cleaned
  <2>3. Holds(Len(saved))' <=> Holds(Len(saved))
    BY <1>2, <2>1 DEF Holds, Cleaned
  <2>4. HoldsOne(Len(saved))' <=> HoldsOne(Len(saved))
    BY <1>2, <2>1 DEF HoldsOne, PseudoFile
  <2>5. Target' = Target /\ Cfg(annIdx)' = Cfg(annIdx)
    BY <1>2, <2>1 DEF Target, Cfg, Ann, PseudoFile
  <2>6. Numbered
    BY DEF FilesInv
  <2> QED BY <1>2, <2>1, <2>2, <2>3, <2>4, <2>5, <2>6 DEF Numbered
<1>9. CASE \E f \in DOMAIN files : CleanOne(f) \/ CleanFails(f)
  BY <1>9 DEF CleanOne, CleanFails, Step, Writing
<1>10. CASE CleanDone
  <2>1. NoPairs /\ at' = "next" /\ u' = 1 /\ annIdx' = 0 /\ files' = files
    BY <1>10 DEF CleanDone, Step, NoPairs
  <2>2. NoPairs' /\ Holds(Len(saved))'
    BY <2>1 DEF NoPairs, Holds, Cleaned
  <2>3. ToSave \in Seq(Network) /\ Len(ToSave) \in 1..Len(nets)
    BY <1>2, ToSaveIs DEF FilesInv
  <2>4. Learned(SubSeq(ToSave, 1, 0)) = <<>> /\ Len(<<>>) = 0
    <3>1. [id |-> 0, trained |-> TRUE] \in Network
      BY DEF Network
    <3> QED BY <2>3, <3>1, SubSeqWhole, TrainedAppend
  <2>5. 0 = Len(Learned(SubSeq(ToSave, 1, 1 - 1)))
    <3>1. 1 - 1 = 0
      OBVIOUS
    <3> QED BY <2>4, <3>1
  <2>6. Goes(u', annIdx') /\ Pairs0
    BY <2>1, <2>2, <2>3, <2>5 DEF Goes, Pairs0
  <2> QED BY <1>3, <2>1, <2>6
<1>11. CASE SkipUntrained
  <2>1. /\ Writing /\ at' = "next" /\ u <= Len(ToSave) /\ ~nets[u].trained
        /\ u' = u + 1 /\ annIdx' = annIdx
    BY <1>11 DEF SkipUntrained, Writing
  <2>2. Goes(u', annIdx')
    BY <2>1, NextNumber DEF Goes
  <2>3. ~BeginAnn /\ ~BeginCfg
    BY <2>1 DEF BeginAnn, BeginCfg, Step
  <2> QED BY <1>3, <1>6, <2>1, <2>2, <2>3
<1>12. CASE BeginAnn
  <2>1. /\ Writing /\ at' = "ann" /\ u <= Len(ToSave) /\ nets[u].trained
        /\ u' = u /\ annIdx' = annIdx
    BY <1>12 DEF BeginAnn, Step, Writing
  <2>2. u \in 1..Len(ToSave) + 1 /\ (~single => annIdx = Len(Learned(SubSeq(ToSave, 1, u - 1))))
    BY <2>1 DEF FilesInv, Numbered
  <2>3. /\ single => NoPairs' /\ HoldsOne(Len(saved))' /\ PseudoFile \in DOMAIN files'
        /\ ~single => Holds(Len(saved))' /\ Ann(annIdx) \in DOMAIN files'
    BY <1>12, BeginAnnHolds
  <2>4. Target' \in DOMAIN files'
    BY <1>2, <2>1, <2>3 DEF Target, Ann, PseudoFile
  <2> QED BY <1>2, <2>1, <2>2, <2>3, <2>4 DEF Numbered
<1>13. CASE EndAnn
  <2>1. /\ Writing /\ at = "ann" /\ u <= Len(ToSave) /\ nets[u].trained /\ annIdx' = annIdx
        /\ u' = IF single THEN u + 1 ELSE u
        /\ at' = IF single THEN "next" ELSE "open"
    BY <1>13 DEF EndAnn, Step, Writing, FilesInv, Numbered
  <2>2. ~BeginAnn /\ ~BeginCfg
    BY <2>1 DEF BeginAnn, BeginCfg, Step
  <2>3. Pairs0
    BY <1>6, <2>1, <2>2
  <2>4. CASE single
    <3>1. Goes(u', annIdx')
      BY <2>1, <2>4, NextNumber DEF Goes
    <3> QED BY <1>3, <2>1, <2>3, <2>4, <3>1
  <2>5. CASE ~single
    <3>1. Holds(Len(saved))'
      BY <2>3, <2>5 DEF Pairs0
    <3> QED BY <1>4, <2>1, <2>5, <3>1
  <2> QED BY <2>4, <2>5
<1>14. CASE AnnFails
  <2>1. /\ Writing /\ at = "ann" /\ u <= Len(ToSave) /\ nets[u].trained
        /\ ~single /\ at' = "next" /\ u' = u + 1 /\ annIdx' = annIdx + 1
    BY <1>1, <1>14 DEF AnnFails, NextPair, Step, Writing, FilesInv, Numbered
  <2>2. ~BeginAnn /\ ~BeginCfg
    BY <2>1 DEF BeginAnn, BeginCfg, Step
  <2> QED BY <1>3, <1>6, <1>7, <2>1, <2>2
<1>15. CASE BeginCfg
  <2>1. /\ Writing /\ at' = "cfg" /\ u <= Len(ToSave) /\ nets[u].trained
        /\ u' = u /\ annIdx' = annIdx
    BY <1>15 DEF BeginCfg, Step, Writing, FilesInv, Numbered
  <2>2. ~single /\ Holds(Len(saved))' /\ Cfg(annIdx) \in DOMAIN files'
    BY <1>15, BeginCfgHolds
  <2> QED BY <1>4, <2>1, <2>2
<1>16. CASE OpenCfgFails \/ EndCfg \/ DeleteCfg
  <2>1. /\ Writing /\ at \in {"open", "cfg", "deleting"} /\ u <= Len(ToSave) /\ nets[u].trained
        /\ ~single /\ at' = "next" /\ u' = u + 1 /\ annIdx' = annIdx + 1
    BY <1>16 DEF OpenCfgFails, EndCfg, DeleteCfg, NextPair, Step, Writing, FilesInv, Numbered
  <2>2. ~BeginAnn /\ ~BeginCfg
    BY <2>1, <1>16 DEF BeginAnn, BeginCfg, Step
  <2> QED BY <1>3, <1>6, <1>7, <2>1, <2>2
<1>17. CASE CfgFails
  <2>1. /\ Writing /\ at' = "deleting" /\ u <= Len(ToSave) /\ nets[u].trained
        /\ ~single /\ u' = u /\ annIdx' = annIdx /\ at = "cfg"
    BY <1>17 DEF CfgFails, Step, Writing, FilesInv, Numbered
  <2>2. ~BeginAnn /\ ~BeginCfg
    BY <2>1 DEF BeginAnn, BeginCfg, Step
  <2>3. Holds(Len(saved))'
    BY <1>6, <2>1, <2>2 DEF Pairs0
  <2> QED BY <1>4, <2>1, <2>3
<1>18. CASE SaveEnd \/ Crash \/ SaveStart
  BY <1>1, <1>18 DEF SaveEnd, Crash, SaveStart, Step
<1>19. CASE NewNetwork \/ (\E k \in 1..Len(nets) : Learn(k)) \/ ForgetNetworks \/ LoadFiles
            \/ \E b \in BOOLEAN : SetPseudorehearsal(b)
  BY <1>1, <1>19 DEF NewNetwork, Learn, ForgetNetworks, LoadFiles, SetPseudorehearsal
<1> QED BY <1>8, <1>9, <1>10, <1>11, <1>12, <1>13, <1>14, <1>15, <1>16, <1>17, <1>18, <1>19
        DEF FilesNext

-----------------------------------------------------------------------------
(* Every step keeps what is written                                        *)

\* A file is only lost to the clean_dir of a save, or with its pair.
LEMMA ReadableStays ==
    ASSUME FilesInv, [FilesNext]_filesVars, NEW f, Readable(f), at # "clean",
           BeginAnn => f # Target, BeginCfg => f # Cfg(annIdx),
           ~CfgFails, ~DeleteCfg
    PROVE  Readable(f)'
<1>1. f \in DOMAIN files /\ files[f].whole
  BY DEF Readable
<1>2. ASSUME NEW g \in DOMAIN files, files' = End(g) PROVE Readable(f)'
  <2>1. /\ DOMAIN files' = DOMAIN files /\ files'[g] = [id |-> files[g].id, whole |-> TRUE]
        /\ \A h \in DOMAIN files : h # g => files'[h] = files[h]
    BY <1>2, EndIs DEF FilesInv
  <2>2. f = g => files'[f].whole
    BY <2>1
  <2>3. f # g => files'[f].whole
    BY <1>1, <2>1
  <2> QED BY <1>1, <2>1, <2>2, <2>3 DEF Readable
<1>3. ASSUME NEW g, g # f, NEW id, files' = Start(g, id) PROVE Readable(f)'
  BY <1>1, <1>3 DEF Readable, Start
<1>4. files' = files => Readable(f)'
  BY <1>1 DEF Readable
<1>5. EndAnn => Readable(f)'
  BY <1>2 DEF EndAnn, Step, FilesInv, Numbered, Writing
<1>6. EndCfg => Readable(f)'
  BY <1>2 DEF EndCfg, Step, FilesInv, Numbered, Writing
<1>7. BeginAnn => Readable(f)'
  BY <1>3 DEF BeginAnn
<1>8. BeginCfg => Readable(f)'
  BY <1>3 DEF BeginCfg
<1>9. ASSUME ~EndAnn, ~EndCfg, ~BeginAnn, ~BeginCfg PROVE Readable(f)'
  <2>1. files' = files
    BY <1>9 DEF FilesNext, filesVars, Directory, NewNetwork, Learn, ForgetNetworks, LoadFiles,
                SetPseudorehearsal, SaveStart, CleanOne, CleanFails, CleanDone, SkipUntrained,
                AnnFails, OpenCfgFails, SaveEnd, Crash
  <2> QED BY <1>4, <2>1
<1> QED BY <1>5, <1>6, <1>7, <1>8, <1>9

\* The pairs before the one that is written are not touched.
LEMMA CompleteStays ==
    ASSUME FilesInv, [FilesNext]_filesVars, NEW n \in Nat, Complete(n), at # "clean",
           BeginAnn => ~single /\ n <= annIdx, BeginCfg => n <= annIdx,
           ~CfgFails, ~DeleteCfg
    PROVE  Complete(n)'
<1>1. annIdx \in Nat
  BY DEF FilesInv, FilesTypeOK
<1>2. ASSUME NEW k \in 0..n - 1 PROVE Readable(Ann(k))' /\ Readable(Cfg(k))'
  <2>1. k \in Nat /\ (n <= annIdx => k # annIdx)
    BY <1>1
  <2>2. Readable(Ann(k)) /\ Readable(Cfg(k))
    BY DEF Complete
  <2>3. BeginAnn => Ann(k) # Target /\ Cfg(k) # Target
    BY <1>1, <2>1, NamesApart DEF Target
  <2>4. BeginCfg => Ann(k) # Cfg(annIdx) /\ Cfg(k) # Cfg(annIdx)
    BY <1>1, <2>1, NamesApart
  <2>5. /\ \A f : f = Ann(k) => Readable(f)'
        /\ \A f : f = Cfg(k) => Readable(f)'
    BY <2>2, <2>3, <2>4, ReadableStays
  <2> QED BY <2>5 DEF Ann, Cfg, Readable
<1> QED BY <1>2 DEF Complete, Readable, Ann, Cfg

\* A save that goes to the next network with no failure has written both files.
LEMMA WrittenKept ==
    ASSUME FilesInv, [FilesNext]_filesVars
    PROVE  Written'
<1> DEFINE One == Last(saved') = <<>> \/ (Readable(PseudoFile) /\ HoldsOne(Len(saved)))'
<1>1. FilesTypeOK'
  BY FilesTypeKept
<1>2. at' = "deleting" => finish'.failed
  <2>1. CfgFails => finish'.failed
    BY ResultIs DEF CfgFails, FilesInv
  <2>2. ASSUME at' = "deleting", ~CfgFails PROVE UNCHANGED filesVars \/ at = "deleting"
    BY <2>2 DEF FilesNext, Directory, NewNetwork, Learn, ForgetNetworks, LoadFiles,
         SetPseudorehearsal, SaveStart, CleanOne, CleanFails, CleanDone, SkipUntrained,
         BeginAnn, EndAnn, AnnFails, BeginCfg, OpenCfgFails, EndCfg, DeleteCfg,
         SaveEnd, Crash, Step
  <2>3. ASSUME at' = "deleting", at = "deleting" PROVE finish'.failed
    <3>1. finish' = finish \/ finish'.failed
      BY <2>3, SaveOwns
    <3> QED BY <2>3, <3>1 DEF FilesInv, Written
  <2>4. UNCHANGED filesVars /\ at' = "deleting" => finish'.failed
    BY DEF filesVars, FilesInv, Written
  <2> QED BY <2>1, <2>2, <2>3, <2>4
<1> SUFFICES ASSUME Writing', ~finish'.failed
             PROVE  IF single' THEN u' = 2 => One
                    ELSE Complete(annIdx)' /\ (at' \in {"open", "cfg"} => Readable(Ann(annIdx))')
  BY <1>2 DEF Written
<1>3. at' # "idle" /\ at # "idle"
  <2>1. SaveStart => at' = "clean"
    BY DEF SaveStart, Step
  <2> QED BY <2>1 DEF Writing, FilesNext, filesVars, Directory, NewNetwork, Learn, ForgetNetworks, LoadFiles,
         SetPseudorehearsal, CleanOne, CleanFails, CleanDone, SkipUntrained,
         BeginAnn, EndAnn, AnnFails, BeginCfg, OpenCfgFails, EndCfg, CfgFails, DeleteCfg,
         SaveEnd, Crash, Step
<1>4. /\ nets' = nets /\ single' = single /\ saved' = saved /\ saved # <<>>
      /\ finish' = finish /\ ~finish.failed
  BY <1>3, SaveOwns DEF FilesInv, Saving
<1>5. annIdx \in Nat /\ u \in Nat
  BY DEF FilesInv, FilesTypeOK
<1>6. Writing => IF single
                 THEN u = 2 => Last(saved) = <<>> \/ (Readable(PseudoFile) /\ HoldsOne(Len(saved)))
                 ELSE Complete(annIdx) /\ (at \in {"open", "cfg"} => Readable(Ann(annIdx)))
  BY <1>4 DEF FilesInv, Written
<1>7. ~Failed
  BY <1>4, ResultIs DEF FilesInv
<1>8. CASE UNCHANGED filesVars
  BY <1>4, <1>6, <1>8 DEF filesVars, Writing, Complete, Readable, Ann, Cfg, HoldsOne, PseudoFile
<1>9. CASE CleanDone
  <2>1. u' = 1 /\ annIdx' = 0 /\ at' = "next"
    BY <1>9 DEF CleanDone, Step
  <2> QED BY <2>1 DEF Complete
<1>10. CASE SkipUntrained
  <2>1. /\ Writing /\ u <= Len(ToSave) /\ ~nets[u].trained /\ at' = "next"
        /\ u' = u + 1 /\ annIdx' = annIdx /\ files' = files
    BY <1>10 DEF SkipUntrained, Writing
  <2>2. single => Last(saved') = <<>>
    BY <1>4, <2>1, SaveEntry
  <2>3. ~single => Complete(annIdx)'
    BY <1>6, <2>1 DEF Complete, Readable, Ann, Cfg
  <2> QED BY <1>4, <2>1, <2>2, <2>3
<1>11. CASE BeginAnn
  <2>1. /\ Writing /\ u <= Len(ToSave) /\ u' = u /\ annIdx' = annIdx /\ at' = "ann" /\ at = "next"
    BY <1>11 DEF BeginAnn, Step, Writing
  <2>2. single => u' # 2
    BY <2>1, SaveEntry
  <2>3. ASSUME ~single PROVE Complete(annIdx)'
    <3>1. \A n \in Nat : n = annIdx => Complete(n)'
      <4>1. ~CfgFails /\ ~DeleteCfg /\ ~BeginCfg
        BY <2>1 DEF CfgFails, DeleteCfg, BeginCfg, Step
      <4> QED BY <1>5, <1>6, <2>1, <2>3, <4>1, CompleteStays
    <3> QED BY <1>5, <2>1, <3>1 DEF Complete, Readable, Ann, Cfg
  <2> QED BY <1>4, <2>1, <2>2, <2>3
<1>12. CASE EndAnn
  <2>1. /\ Writing /\ at = "ann" /\ Target \in DOMAIN files /\ files' = End(Target)
        /\ annIdx' = annIdx /\ u' = IF single THEN u + 1 ELSE u
        /\ at' = IF single THEN "next" ELSE "open"
    BY <1>12 DEF EndAnn, Step, Writing, FilesInv, Numbered
  <2>2. DOMAIN files' = DOMAIN files /\ files'[Target] = [id |-> files[Target].id, whole |-> TRUE]
    BY <2>1, EndIs DEF FilesInv
  <2>3. ~BeginAnn /\ ~BeginCfg /\ ~CfgFails /\ ~DeleteCfg
    BY <2>1 DEF BeginAnn, BeginCfg, CfgFails, DeleteCfg, Step
  <2>4. ASSUME single PROVE One
    <3>1. Target = PseudoFile /\ HoldsOne(Len(saved))
      BY <2>1, <2>4 DEF Target, FilesInv, Numbered
    <3>2. HoldsOne(Len(saved))'
      BY <1>4, <2>1, <2>2, <2>3, <3>1, HoldsStay
    <3>3. PseudoFile \in DOMAIN files' /\ files'[PseudoFile].whole
      BY <2>1, <2>2, <3>1
    <3> QED BY <3>2, <3>3 DEF Readable, PseudoFile
  <2>5. ASSUME ~single PROVE Complete(annIdx)' /\ Readable(Ann(annIdx))'
    <3>1. Target = Ann(annIdx)
      BY <2>5 DEF Target
    <3>2. Readable(Ann(annIdx))'
      BY <2>1, <2>2, <3>1 DEF Readable, Ann
    <3>3. \A n \in Nat : n = annIdx => Complete(n)'
      BY <1>5, <1>6, <2>1, <2>3, <2>5, CompleteStays
    <3> QED BY <1>5, <2>1, <3>2, <3>3 DEF Complete, Readable, Ann, Cfg
  <2> QED BY <1>4, <2>4, <2>5
<1>13. CASE BeginCfg
  <2>1. Writing /\ at = "open" /\ at' = "cfg" /\ annIdx' = annIdx
    BY <1>13 DEF BeginCfg, Step, Writing
  <2>2. ~BeginAnn /\ ~CfgFails /\ ~DeleteCfg /\ ~single
    BY <2>1 DEF BeginAnn, CfgFails, DeleteCfg, Step, FilesInv, Numbered
  <2>3. \A n \in Nat : n = annIdx => Complete(n)'
    BY <1>5, <1>6, <2>1, <2>2, CompleteStays
  <2>4. Readable(Ann(annIdx)) /\ Ann(annIdx) # Cfg(annIdx)
    BY <1>5, <1>6, <2>1, <2>2, NamesApart
  <2>5. \A f : f = Ann(annIdx) => Readable(f)'
    BY <2>1, <2>2, <2>4, ReadableStays
  <2> QED BY <1>4, <1>5, <2>1, <2>2, <2>3, <2>5 DEF Complete, Readable, Ann, Cfg
<1>14. CASE EndCfg
  <2>1. /\ Writing /\ at = "cfg" /\ at' = "next" /\ annIdx' = annIdx + 1
        /\ Cfg(annIdx) \in DOMAIN files /\ files' = End(Cfg(annIdx)) /\ ~single
    BY <1>14 DEF EndCfg, NextPair, Step, Writing, FilesInv, Numbered
  <2>2. ~BeginAnn /\ ~BeginCfg /\ ~CfgFails /\ ~DeleteCfg
    BY <2>1 DEF BeginAnn, BeginCfg, CfgFails, DeleteCfg, Step
  <2>3. \A n \in Nat : n = annIdx => Complete(n)'
    BY <1>5, <1>6, <2>1, <2>2, CompleteStays
  <2>4. \A f : f = Ann(annIdx) => Readable(f)'
    BY <1>6, <2>1, <2>2, ReadableStays
  <2>5. \A f : f = Cfg(annIdx) => Readable(f)'
    <3>1. /\ DOMAIN files' = DOMAIN files
          /\ files'[Cfg(annIdx)] = [id |-> files[Cfg(annIdx)].id, whole |-> TRUE]
      BY <2>1, EndIs DEF FilesInv
    <3> QED BY <2>1, <3>1 DEF Readable
  <2>6. ASSUME NEW k \in 0..annIdx' - 1 PROVE Readable(Ann(k))' /\ Readable(Cfg(k))'
    <3>1. CASE k = annIdx
      BY <2>4, <2>5, <3>1 DEF Readable, Ann, Cfg
    <3>2. CASE k # annIdx
      <4>1. k \in 0..annIdx - 1
        BY <1>5, <2>1, <3>2
      <4>2. \A n \in Nat : n = annIdx => \A j \in 0..n - 1 : Readable(Ann(j))' /\ Readable(Cfg(j))'
        BY <2>3 DEF Complete, Readable, Ann, Cfg
      <4> QED BY <1>5, <4>1, <4>2
    <3> QED BY <3>1, <3>2
  <2>7. Complete(annIdx)'
    BY <2>6 DEF Complete, Readable, Ann, Cfg
  <2> QED BY <1>4, <2>1, <2>7
<1>15. CASE DeleteCfg
  BY <1>4, <1>15 DEF DeleteCfg, Step, FilesInv, Written
<1>16. CASE AnnFails \/ OpenCfgFails \/ CfgFails \/ \E f \in DOMAIN files : CleanFails(f)
  BY <1>7, <1>16 DEF AnnFails, OpenCfgFails, CfgFails, CleanFails
<1>17. CASE (\E f \in DOMAIN files : CleanOne(f)) \/ SaveEnd \/ Crash \/ SaveStart
  BY <1>3, <1>17 DEF CleanOne, SaveEnd, Crash, SaveStart, Step, Writing
<1>18. CASE NewNetwork \/ (\E k \in 1..Len(nets) : Learn(k)) \/ ForgetNetworks \/ LoadFiles
            \/ \E b \in BOOLEAN : SetPseudorehearsal(b)
  BY <1>3, <1>18 DEF NewNetwork, Learn, ForgetNetworks, LoadFiles, SetPseudorehearsal
<1> QED BY <1>8, <1>9, <1>10, <1>11, <1>12, <1>13, <1>14, <1>15, <1>16, <1>17, <1>18
        DEF FilesNext

\* What a save that succeeded has written stays until the next one begins.
LEMMA KeptKept ==
    ASSUME FilesInv, [FilesNext]_filesVars
    PROVE  Kept'
<1> SUFFICES ASSUME finish'.answer, ~finish'.failed
             PROVE  /\ saved' # <<>>
                    /\ IF finish'.single
                       THEN Last(saved') = <<>> \/ (Readable(PseudoFile) /\ HoldsOne(Len(saved)))'
                       ELSE Holds(Len(saved))' /\ Complete(Len(Last(saved)))'
  BY DEF Kept
<1>1. CASE SaveEnd
  <2>1. /\ Writing /\ at = "next" /\ u > Len(ToSave) /\ saved' = saved /\ files' = files
        /\ Answer(TRUE)
    BY <1>1 DEF SaveEnd, Step, Writing
  <2>2. /\ saved # <<>> /\ nets # <<>> /\ Last(saved) = Learned(ToSave)
        /\ finish'.single = single /\ ~finish.failed
    BY <2>1, ResultIs DEF FilesInv, Saving, Writing
  <2>3. /\ ToSave \in Seq(Network) /\ Len(ToSave) \in Nat /\ u = Len(ToSave) + 1
        /\ single => Len(ToSave) = 1
    <3>1. Len(ToSave) \in Nat /\ u \in 1..Len(ToSave) + 1
      BY <2>1, SavePlace
    <3>2. ToSave \in Seq(Network) /\ (single => Len(ToSave) = 1)
      BY <2>2, ToSaveIs DEF FilesInv
    <3> QED BY <2>1, <3>1, <3>2
  <2>4. ASSUME single
        PROVE  Last(saved') = <<>> \/ (Readable(PseudoFile) /\ HoldsOne(Len(saved)))'
    <3>1. u = 2
      <4>1. u = Len(ToSave) + 1 /\ Len(ToSave) = 1
        BY <2>3, <2>4
      <4> QED BY ONLY <4>1
    <3>2. Last(saved) = <<>> \/ (Readable(PseudoFile) /\ HoldsOne(Len(saved)))
      BY <2>1, <2>2, <2>4, <3>1 DEF FilesInv, Written
    <3> QED BY <2>1, <3>2 DEF Readable, HoldsOne, PseudoFile
  <2>5. ASSUME ~single
        PROVE  Holds(Len(saved))' /\ Complete(Len(Last(saved)))'
    <3>1. Holds(Len(saved)) /\ annIdx = Len(Learned(SubSeq(ToSave, 1, u - 1)))
      BY <2>1, <2>5 DEF FilesInv, Numbered
    <3>2. u - 1 = Len(ToSave)
      BY <2>3
    <3>3. annIdx = Len(Last(saved))
      BY <2>2, <2>3, <3>1, <3>2, SubSeqWhole
    <3>4. Complete(Len(Last(saved)))
      BY <2>1, <2>2, <2>5, <3>3 DEF FilesInv, Written
    <3> QED BY <2>1, <3>1, <3>4 DEF Holds, Cleaned, Complete, Readable, Ann, Cfg
  <2> QED BY <2>1, <2>2, <2>4, <2>5
<1>2. CASE ~SaveEnd
  <2>1. /\ files' = files /\ saved' = saved /\ finish' = finish
    <3>1. ~SaveStart
      BY DEF SaveStart
    <3>2. at # "idle" /\ at' # "idle" => FALSE
      BY SaveOwns DEF FilesInv, Saving
    <3>3. at # "idle" => ~finish.answer
      BY DEF FilesInv, Saving
    <3>4. ASSUME Failed PROVE FALSE
      BY <3>4, ResultIs DEF FilesInv
    <3> QED BY <1>2, <3>1, <3>2, <3>4 DEF FilesNext, filesVars, Directory, NewNetwork, Learn,
         ForgetNetworks, LoadFiles, SetPseudorehearsal, CleanOne, CleanFails, CleanDone,
         SkipUntrained, BeginAnn, EndAnn, AnnFails, BeginCfg, OpenCfgFails, EndCfg,
         CfgFails, DeleteCfg, Crash, Step
  <2> QED BY <2>1 DEF FilesInv, Kept, Holds, HoldsOne, Cleaned, Complete, Readable, Ann, Cfg,
                      PseudoFile
<1> QED BY <1>1, <1>2

-----------------------------------------------------------------------------

LEMMA FilesStart ==
    ASSUME FilesInit
    PROVE  FilesInv
<1>1. FilesTypeOK
  <2>1. <<>> \in Seq(Network) /\ <<>> \in Seq(Seq(Nat)) /\ Len(<<>>) = 0 /\ DOMAIN <<>> = {}
    OBVIOUS
  <2>2. <<>> \in [DOMAIN <<>> -> [id : Nat, whole : BOOLEAN]]
    OBVIOUS
  <2>3. [answer |-> FALSE, failed |-> FALSE, single |-> FALSE]
           \in [answer : BOOLEAN, failed : BOOLEAN, single : BOOLEAN]
    OBVIOUS
  <2>4. files \in [DOMAIN files -> [id : Nat, whole : BOOLEAN]] /\ DOMAIN files = {}
    BY <2>1, <2>2 DEF FilesInit
  <2>5. nets \in Seq(Network) /\ Len(nets) = 0 /\ saved \in Seq(Seq(Nat)) /\ Len(saved) = 0
    BY <2>1 DEF FilesInit
  <2>6. single \in BOOLEAN /\ first_run \in BOOLEAN
    BY DEF FilesInit
  <2>7. at = "idle" /\ u \in Nat /\ annIdx \in Nat /\ ids \in Nat
    BY DEF FilesInit
  <2>8. finish \in [answer : BOOLEAN, failed : BOOLEAN, single : BOOLEAN]
    BY <2>3 DEF FilesInit
  <2>9. Len(nets) <= CacheLimit /\ 1..Len(saved) = {}
    BY <2>5, FilesAssumption
  <2> QED BY <2>4, <2>5, <2>6, <2>7, <2>8, <2>9 DEF FilesTypeOK, Writing
<1>2. DOMAIN files = {}
  BY DEF FilesInit
<1>3. OfSaves
  BY <1>2 DEF OfSaves, NoPairs
<1>4. Saving /\ Numbered /\ Written /\ Kept
  BY DEF FilesInit, Saving, Numbered, Written, Writing, Kept
<1> QED BY <1>1, <1>3, <1>4 DEF FilesInv

\* The invariant holds whatever fails and whenever the process dies
\* (_sml_ann_save and _sml_ann_load over clean_dir, sml_ann.c).
THEOREM FilesSteady == FilesSpec => []FilesInv
<1>1. FilesInit => FilesInv
  BY FilesStart
<1>2. FilesInv /\ [FilesNext]_filesVars => FilesInv'
  BY FilesTypeKept, OfSavesKept, SavingKept, NumberedKept, WrittenKept, KeptKept DEF FilesInv
<1> QED BY <1>1, <1>2, PTL DEF FilesSpec

\* What is read back comes from one save, in its order: the numbers of the
\* files follow the networks of the save, and clean_dir went before.
THEOREM FilesNeverMixed == FilesSpec => []NeverMixed
<1>1. ASSUME FilesInv PROVE NeverMixed
  <2> SUFFICES ASSUME NEW p \in BOOLEAN, Found(p) # <<>>
               PROVE  \E s \in 1..Len(saved) : IsPrefix(Found(p), saved[s])
    BY DEF NeverMixed
  <2> DEFINE a == Found(p)
  <2>1. PICK s \in 1..Len(saved) : /\ Len(a) <= Len(saved[s])
                                   /\ \A k \in 1..Len(a) : a[k] = saved[s][k]
    BY <1>1, FoundOfOne DEF FilesInv
  <2>2. a \in Seq(Nat) /\ saved[s] \in Seq(Nat) /\ Len(saved[s]) \in Nat
    BY <1>1, FoundOfOne, SavedType DEF FilesInv
  <2> DEFINE b == saved[s]
             c == SubSeq(b, 1, Len(a))
  <2> HIDE DEF a
  <2>3. Len(a) \in Nat /\ Len(a) <= Len(b)
    BY <2>1, <2>2, LenProperties
  <2> HIDE DEF b
  <2>4. b \in Seq(Nat) /\ Len(b) \in Nat
    BY <2>2 DEF b
  <2>5. c \in Seq(Nat) /\ Len(c) = Len(a) /\ \A k \in 1..Len(a) : c[k] = b[k]
    BY <2>3, <2>4
  <2>6. \A k \in 1..Len(a) : b[k] = a[k]
    BY <2>1 DEF b
  <2> HIDE DEF c
  <2>7. a = c
    BY <2>2, <2>5, <2>6, SeqEqual
  <2>8. SubSeq(a, 1, Len(a)) = a
    BY <2>2, SubSeqWhole
  <2>9. IsPrefix(a, b)
    BY <2>3, <2>7, <2>8 DEF IsPrefix, c
  <2> QED BY <2>9 DEF a, b
<1> QED BY <1>1, FilesSteady, PTL

\* A save that answered true and had no failed write keeps every trained
\* network, at its place, until the next save begins.
THEOREM FilesDurable == FilesSpec => []Durable
<1>1. ASSUME FilesInv PROVE Durable
  <2> SUFFICES ASSUME at = "idle", finish.answer, ~finish.failed,
                      ~(finish.single /\ Last(saved) = <<>>)
               PROVE  Found(finish.single) = Last(saved)
    BY DEF Durable
  <2>1. FilesTypeOK /\ saved # <<>> /\ finish.single \in BOOLEAN
    BY <1>1 DEF FilesInv, Kept, FilesTypeOK
  <2> DEFINE s == Len(saved)
             b == saved[s]
  <2>2. s \in 1..Len(saved) /\ Last(saved) = b
    BY <2>1, EmptySeq DEF FilesTypeOK, Last
  <2>3. b \in Seq(Nat) /\ Len(b) \in Nat
    BY <2>1, <2>2, SavedType
  <2>4. CASE finish.single
    <3>1. Readable(PseudoFile) /\ HoldsOne(s)
      BY <1>1, <2>4 DEF FilesInv, Kept
    <3>2. Found(finish.single) = <<b[1]>> /\ Len(b) = 1
      BY <2>4, <3>1 DEF Found, HoldsOne
    <3>3. b[1] \in Nat
      BY <2>3, <3>2, ElementOfSeq
    <3> HIDE DEF b
    <3>4. <<b[1]>> \in Seq(Nat) /\ Len(<<b[1]>>) = 1 /\ <<b[1]>>[1] = b[1]
      BY <3>3
    <3>5. \A k \in 1..Len(b) : <<b[1]>>[k] = b[k]
      BY <3>2, <3>4
    <3>6. <<b[1]>> = b
      BY <2>3, <3>2, <3>4, <3>5, SeqEqual
    <3> QED BY <2>2, <3>2, <3>6 DEF b
  <2>5. CASE ~finish.single
    <3>1. Holds(s) /\ Complete(Len(b))
      BY <1>1, <2>2, <2>5 DEF FilesInv, Kept
    <3>2. Found(finish.single) = Pairs
      BY <2>5 DEF Found
    <3>3. Pairs \in Seq(Nat) /\ Len(Pairs) = Len(b) /\ \A k \in 1..Len(Pairs) : Pairs[k] = b[k]
      BY <2>1, <2>2, <3>1, PairsOf
    <3> DEFINE a == Pairs
    <3> HIDE DEF a, b
    <3>4. a \in Seq(Nat) /\ Len(a) = Len(b) /\ \A k \in 1..Len(a) : a[k] = b[k]
      BY <3>3 DEF a, b
    <3>5. a = b
      BY <2>3, <3>4, SeqEqual
    <3> QED BY <2>2, <3>2, <3>5 DEF a, b
  <2> QED BY <2>4, <2>5
<1> QED BY <1>1, FilesSteady, PTL

=============================================================================
