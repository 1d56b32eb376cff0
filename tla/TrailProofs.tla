----------------------------- MODULE TrailProofs -----------------------------
(* Proofs about module Trail, for any data, values, variables and bounds:    *)
(* its invariants, that a literal's position always tells its level, and     *)
(* what backtracking brings back: the trail implements the store with        *)
(* snapshots (BacktrackStore), and a lazy explanation is computed in the     *)
(* state in which its literal was enqueued.                                  *)
EXTENDS Trail, SequenceTheorems, NaturalFacts, TLAPS

Inv == TypeOK /\ LimitsOrdered /\ PositionsInLevel /\ PositionsInOrder

LEMMA InitInv == Init => Inv
  <1> SUFFICES ASSUME Init PROVE Inv
    OBVIOUS
  <1> USE DEF Init, liveLevels, decisionLevel, top, NoUndo, Nowhere
  <1>1. TypeOK
    BY DEF TypeOK, Never, Presents, Record
  <1>2. LimitsOrdered
    BY DEF LimitsOrdered
  <1>3. PositionsInLevel /\ PositionsInOrder
    BY DEF PositionsInLevel, PositionsInOrder
  <1> QED
    BY <1>1, <1>2, <1>3 DEF Inv

(* What the type invariant says, in the form the steps below use it. *)
LEMMA TypeFacts ==
  ASSUME TypeOK
  PROVE  /\ trail \in Seq(Record) /\ trail_lim \in Seq(Nat) /\ size \in Seq(Nat)
         /\ Len(trail) \in Nat /\ decisionLevel \in Nat
         /\ \A l \in 1 .. decisionLevel : trail_lim[l] \in Nat
         /\ Len(size) = liveLevels + 1 /\ liveLevels \in 0 .. decisionLevel
         /\ \A l \in 0 .. liveLevels : size[l + 1] \in Nat
         /\ mode # "undo" => top = Len(trail) /\ liveLevels = decisionLevel
         /\ \A x \in assigns :
              /\ x \in Var
              /\ slot[x].level \in Nat /\ slot[x].nth \in Nat
              /\ trailpos[x] \in Int /\ trailpos[x] >= -1
  <1>1. /\ trail \in Seq(Record) /\ trail_lim \in Seq(Nat) /\ size \in Seq(Nat)
        /\ Len(size) = liveLevels + 1 /\ liveLevels <= decisionLevel
        /\ assigns \subseteq Var /\ slot \in [Var -> [level : Nat, nth : Nat]]
        /\ trailpos \in [Var -> Nat \cup {-1}]
    BY DEF TypeOK
  <1>2. liveLevels \in Nat /\ decisionLevel \in Nat
    BY DEF TypeOK, liveLevels, decisionLevel
  <1>3. \A l \in 1 .. decisionLevel : trail_lim[l] \in Nat
    BY <1>1 DEF decisionLevel
  <1>4. \A l \in 0 .. liveLevels : size[l + 1] \in Nat
    BY <1>1, <1>2
  <1>5. mode # "undo" => top = Len(trail) /\ liveLevels = decisionLevel
    BY DEF top, liveLevels
  <1> QED
    BY <1>1, <1>2, <1>3, <1>4, <1>5

LEMMA AssignInv ==
  ASSUME Inv, NEW c \in Cell, NEW v \in Val, Assign(c, v)
  PROVE  Inv'
  <1> USE DEF Inv, Assign
  <1>1. /\ [pt |-> c, x |-> mem[c]] \in Record
        /\ Len(trail') = Len(trail) + 1
    BY DEF TypeOK, Record
  <1>2. liveLevels' = liveLevels /\ top = Len(trail) /\ top' = Len(trail) + 1
    BY <1>1 DEF liveLevels, decisionLevel, top
  <1>3. TypeOK'
    BY <1>1, <1>2 DEF TypeOK, decisionLevel
  <1>4. LimitsOrdered'
    BY <1>1, <1>2 DEF TypeOK, LimitsOrdered
  <1>5. PositionsInLevel' /\ PositionsInOrder'
    BY <1>1, <1>2 DEF TypeOK, PositionsInLevel, PositionsInOrder
  <1> QED
    BY <1>3, <1>4, <1>5

LEMMA EnqueueInv ==
  ASSUME Inv, NEW x \in Var, Enqueue(x)
  PROVE  Inv'
  <1> USE DEF Inv, Enqueue
  <1>1. /\ top = Len(trail) /\ top' = top
        /\ liveLevels = decisionLevel /\ liveLevels' = liveLevels /\ decisionLevel' = decisionLevel
        /\ decisionLevel \in Nat /\ Len(trail) \in Nat
        /\ Len(size) = decisionLevel + 1
    BY DEF TypeOK, liveLevels, decisionLevel, top
  <1>2. TypeOK'
    BY <1>1 DEF TypeOK, Present, Presents
  <1>3. LimitsOrdered'
    BY <1>1 DEF LimitsOrdered
  <1>4. /\ trailpos'[x] = Len(trail)
        /\ slot'[x] = [level |-> decisionLevel, nth |-> size[decisionLevel + 1] + 1]
        /\ \A y \in assigns : y # x /\ slot'[y] = slot[y] /\ trailpos'[y] = trailpos[y]
    BY DEF TypeOK
  <1>5. decisionLevel > 0 => trail_lim[decisionLevel] <= Len(trail)
    BY <1>1 DEF LimitsOrdered
  <1>6. PositionsInLevel'
    BY <1>1, <1>4, <1>5 DEF PositionsInLevel
  <1>7. /\ size[decisionLevel + 1] \in Nat
        /\ size'[decisionLevel + 1] = size[decisionLevel + 1] + 1
        /\ \A l \in 0 .. decisionLevel : size[l + 1] <= size'[l + 1] /\ size[l + 1] \in Nat /\ size'[l + 1] \in Nat
    BY <1>1 DEF TypeOK
  <1>8. \A y \in assigns :
          /\ trailpos[y] <= Len(trail) /\ trailpos[y] \in Int
          /\ slot[y].level \in 0 .. decisionLevel /\ slot[y].nth \in Nat
          /\ slot[y].nth <= size[slot[y].level + 1]
    BY <1>1, TypeFacts DEF PositionsInLevel, PositionsInOrder
  <1>9. \A y \in assigns' :
          /\ slot'[y].nth <= size'[slot'[y].level + 1]
          /\ slot'[y].nth = 0 <=> trailpos'[y] = -1
          /\ slot'[y].nth = 0 => slot'[y].level = 0
    <2> SUFFICES ASSUME NEW y \in assigns'
                 PROVE  /\ slot'[y].nth <= size'[slot'[y].level + 1]
                        /\ slot'[y].nth = 0 <=> trailpos'[y] = -1
                        /\ slot'[y].nth = 0 => slot'[y].level = 0
      OBVIOUS
    <2>1. CASE y = x
      BY <2>1, <1>1, <1>4, <1>7
    <2>2. CASE y \in assigns
      <3>1. slot[y].nth <= size'[slot[y].level + 1]
        BY <2>2, <1>7, <1>8
      <3> QED
        BY <2>2, <3>1, <1>4 DEF PositionsInOrder
    <2> QED
      BY <2>1, <2>2
  <1>10. ASSUME NEW y \in assigns', NEW z \in assigns',
                slot'[y].level = slot'[z].level, slot'[y].nth <= slot'[z].nth
         PROVE  trailpos'[y] <= trailpos'[z]
    <2>1. CASE y = x
      <3>1. z \notin assigns
        BY <2>1, <1>4, <1>7, <1>8, <1>10
      <3> QED
        BY <2>1, <3>1, <1>1, <1>4
    <2>2. CASE y # x /\ z = x
      BY <2>2, <1>4, <1>8
    <2>3. CASE y # x /\ z # x
      BY <2>3, <1>4, <1>10 DEF PositionsInOrder
    <2> QED
      BY <2>1, <2>2, <2>3
  <1>11. PositionsInOrder'
    BY <1>9, <1>10 DEF PositionsInOrder
  <1> QED
    BY <1>2, <1>3, <1>6, <1>11

LEMMA newDecisionLevelInv ==
  ASSUME Inv, newDecisionLevel
  PROVE  Inv'
  <1>1. /\ top = Len(trail)
        /\ liveLevels = decisionLevel
        /\ decisionLevel \in Nat /\ Len(trail) \in Nat
        /\ Len(size) = decisionLevel + 1
        /\ trail' \in Seq(Record) /\ Len(trail') = Len(trail) + 1
    BY DEF Inv, newDecisionLevel, TypeOK, Record, liveLevels, decisionLevel, top
  <1>2. /\ trail_lim' \in Seq(Nat)
        /\ decisionLevel' = decisionLevel + 1
        /\ trail_lim'[decisionLevel + 1] = Len(trail) + 1
        /\ \A l \in 1 .. decisionLevel : trail_lim'[l] = trail_lim[l]
    BY <1>1 DEF Inv, newDecisionLevel, TypeOK, decisionLevel
  <1>3. /\ size' \in Seq(Nat) /\ Len(size') = decisionLevel + 2
        /\ \A l \in 0 .. decisionLevel : size'[l + 1] = size[l + 1]
    BY <1>1 DEF Inv, newDecisionLevel, TypeOK
  <1>4. /\ top' = Len(trail) + 1 /\ liveLevels' = decisionLevel + 1
        /\ UNCHANGED <<slot, assigns, trailpos>>
    BY <1>1, <1>2 DEF newDecisionLevel, top, liveLevels
  <1>5. TypeOK'
    BY <1>1, <1>2, <1>3, <1>4 DEF Inv, newDecisionLevel, TypeOK
  <1>6. LimitsOrdered'
    <2>1. \A l \in 1 .. decisionLevel : trail_lim'[l] \in 1 .. Len(trail)
      BY <1>1, <1>2 DEF Inv, LimitsOrdered
    <2>2. \A k, l \in 1 .. decisionLevel : k < l => trail_lim'[k] < trail_lim'[l]
      BY <1>1, <1>2 DEF Inv, LimitsOrdered
    <2>3. \A l \in 1 .. decisionLevel + 1 : trail_lim'[l] \in 1 .. Len(trail) + 1
      BY <2>1, <1>1, <1>2
    <2>4. ASSUME NEW k \in 1 .. decisionLevel + 1, NEW l \in 1 .. decisionLevel + 1, k < l
          PROVE  trail_lim'[k] < trail_lim'[l]
      <3>1. k \in 1 .. decisionLevel
        BY <2>4, <1>1
      <3>2. CASE l = decisionLevel + 1
        BY <3>1, <3>2, <2>1, <1>1, <1>2
      <3>3. CASE l # decisionLevel + 1
        BY <3>1, <3>3, <2>2, <2>4, <1>1
      <3> QED
        BY <3>2, <3>3
    <2> QED
      BY <2>3, <2>4, <1>1, <1>4 DEF LimitsOrdered
  <1>7. PositionsInLevel'
    <2>1. \A x \in assigns :
            /\ slot[x].level \in 0 .. decisionLevel
            /\ trailpos[x] <= Len(trail) /\ trailpos[x] \in Int
            /\ slot[x].level > 0 => trail_lim[slot[x].level] <= trailpos[x]
            /\ slot[x].level < decisionLevel => trailpos[x] < trail_lim[slot[x].level + 1]
      BY <1>1, TypeFacts DEF Inv, PositionsInLevel
    <2>2. ASSUME NEW x \in assigns
          PROVE  LET l == slot[x].level IN
                 /\ l <= decisionLevel + 1
                 /\ trailpos[x] <= Len(trail) + 1
                 /\ l > 0 => trail_lim'[l] <= trailpos[x]
                 /\ l < decisionLevel + 1 => trailpos[x] < trail_lim'[l + 1]
      <3> DEFINE l == slot[x].level
      <3>1. /\ l \in 0 .. decisionLevel
            /\ trailpos[x] <= Len(trail) /\ trailpos[x] \in Int
            /\ l > 0 => trail_lim[l] <= trailpos[x]
            /\ l < decisionLevel => trailpos[x] < trail_lim[l + 1]
        BY <2>1
      <3> HIDE DEF l
      <3>2. l > 0 => trail_lim'[l] <= trailpos[x]
        BY <3>1, <1>1, <1>2
      <3>3. trailpos[x] < trail_lim'[l + 1]
        <4>1. CASE l = decisionLevel
          BY <4>1, <3>1, <1>1, <1>2
        <4>2. CASE l # decisionLevel
          BY <4>2, <3>1, <1>1, <1>2
        <4> QED
          BY <4>1, <4>2
      <3> QED
        BY <3>1, <3>2, <3>3, <1>1 DEF l
    <2> QED
      BY <2>2, <1>4 DEF PositionsInLevel
  <1>8. PositionsInOrder'
    <2>1. \A x \in assigns : slot[x].level \in 0 .. decisionLevel
      BY <1>1, TypeFacts DEF Inv, PositionsInLevel
    <2>2. \A x \in assigns : slot[x].nth <= size'[slot[x].level + 1]
      BY <2>1, <1>3 DEF Inv, PositionsInOrder
    <2> QED
      BY <2>2, <1>4 DEF Inv, PositionsInOrder
  <1> QED
    BY <1>5, <1>6, <1>7, <1>8 DEF Inv

LEMMA btToLevelInv ==
  ASSUME Inv, NEW level \in 0 .. decisionLevel - 1, btToLevel(level)
  PROVE  Inv'
  <1> USE DEF btToLevel
  <1>1. /\ top = Len(trail) /\ liveLevels = decisionLevel
        /\ decisionLevel \in Nat /\ Len(trail) \in Nat
        /\ size \in Seq(Nat) /\ Len(size) = decisionLevel + 1
        /\ \A l \in 1 .. decisionLevel : trail_lim[l] \in Nat
    BY TypeFacts DEF Inv
  <1>2. /\ size' \in Seq(Nat) /\ Len(size') = level + 1
        /\ \A l \in 0 .. level : size'[l + 1] = size[l + 1]
    BY <1>1
  <1>3. top' = trail_lim[level + 1] /\ liveLevels' = level /\ decisionLevel' = decisionLevel
    BY DEF top, liveLevels, decisionLevel
  <1>4. TypeOK'
    <2>1. undo' \in [pos : Nat, lim : Nat, then : {"search", "explain"}]
      BY <1>1
    <2>2. assigns' \in SUBSET Var /\ slot' \in [Var -> [level : Nat, nth : Nat]]
      BY DEF Inv, TypeOK, Untrail, Nowhere
    <2>3. born' \in [Var -> Presents \cup {Never}]
      BY DEF Inv, TypeOK, Untrail
    <2>4. /\ mem' \in [Cell -> Val] /\ trail' \in Seq(Record) /\ trail_lim' \in Seq(Nat)
          /\ trailpos' \in [Var -> Nat \cup {-1}] /\ mode' = "undo"
          /\ asked' \in Presents \cup {Never}
      BY DEF TypeOK, Inv
    <2>5. size' \in Seq(Nat) /\ Len(size') = liveLevels' + 1 /\ liveLevels' <= decisionLevel'
      BY <1>1, <1>2, <1>3
    <2> QED
      BY <2>1, <2>2, <2>3, <2>4, <2>5 DEF TypeOK
  <1>5. LimitsOrdered'
    BY <1>1, <1>3 DEF LimitsOrdered, Inv
  <1>6. \A x \in assigns' :
          /\ x \in assigns /\ slot'[x] = slot[x] /\ slot[x].level \in 0 .. level
          /\ trailpos[x] \in Int /\ slot[x].nth \in Nat
    <2> SUFFICES ASSUME NEW x \in assigns'
                 PROVE  /\ x \in assigns /\ slot'[x] = slot[x] /\ slot[x].level \in 0 .. level
                        /\ trailpos[x] \in Int /\ slot[x].nth \in Nat
      OBVIOUS
    <2>1. x \in assigns /\ ~(slot[x].level > level)
      BY DEF Untrail
    <2>2. x \in Var /\ slot[x].level \in Nat /\ trailpos[x] \in Int /\ slot[x].nth \in Nat
      BY <2>1, TypeFacts DEF Inv
    <2>3. slot'[x] = slot[x]
      BY <2>1, <2>2 DEF Untrail
    <2> QED
      BY <2>1, <2>2, <2>3
  <1>7. PositionsInLevel'
    <2> SUFFICES ASSUME NEW x \in assigns'
                 PROVE  LET l == slot[x].level IN
                        /\ l <= level
                        /\ trailpos[x] <= trail_lim[level + 1]
                        /\ l > 0 => trail_lim[l] <= trailpos[x]
                        /\ l < level => trailpos[x] < trail_lim[l + 1]
      BY <1>3, <1>6 DEF PositionsInLevel
    <2> DEFINE l == slot[x].level
    <2>1. /\ l \in 0 .. level /\ trailpos[x] \in Int
          /\ l > 0 => trail_lim[l] <= trailpos[x]
          /\ trailpos[x] < trail_lim[l + 1]
      BY <1>1, <1>6 DEF PositionsInLevel, Inv
    <2> HIDE DEF l
    <2>2. /\ trail_lim[l + 1] <= trail_lim[level + 1]
          /\ trail_lim[l + 1] \in Nat /\ trail_lim[level + 1] \in Nat
      <3>1. /\ l + 1 \in 1 .. decisionLevel /\ level + 1 \in 1 .. decisionLevel
            /\ (l + 1 = level + 1 \/ l + 1 < level + 1)
        <4> DEFINE d == decisionLevel
        <4>1. d \in Nat /\ level \in 0 .. d - 1 /\ l \in 0 .. level
          BY <2>1, <1>1
        <4> HIDE DEF d
        <4>2. l + 1 \in 1 .. d /\ level + 1 \in 1 .. d /\ (l + 1 = level + 1 \/ l + 1 < level + 1)
          BY ONLY <4>1
        <4> QED
          BY ONLY <4>2 DEF d
      <3>2. trail_lim[l + 1] \in Nat /\ trail_lim[level + 1] \in Nat
        BY <3>1, <1>1
      <3>3. \A i, j \in 1 .. decisionLevel : i < j => trail_lim[i] < trail_lim[j]
        BY <1>1 DEF LimitsOrdered, Inv
      <3>4. CASE l + 1 = level + 1
        BY <3>2, <3>4
      <3>5. CASE l + 1 < level + 1
        <4>1. trail_lim[l + 1] < trail_lim[level + 1]
          BY <3>1, <3>3, <3>5
        <4> QED
          BY <4>1, <3>2
      <3> QED
        BY <3>1, <3>2, <3>4, <3>5
    <2>3. trailpos[x] <= trail_lim[level + 1]
      BY <2>1, <2>2
    <2> QED
      BY <2>1, <2>3 DEF l
  <1>8. PositionsInOrder'
    BY <1>2, <1>6 DEF PositionsInOrder, Inv
  <1> QED
    BY <1>4, <1>5, <1>7, <1>8 DEF Inv

LEMMA explainInv ==
  ASSUME Inv, NEW p \in Var, explain(p)
  PROVE  Inv'
  <1> USE DEF explain
  <1> DEFINE gone == {x \in assigns : slot[x].level = decisionLevel /\ slot[x].nth >= slot[p].nth}
  <1>1. /\ top = Len(trail) /\ liveLevels = decisionLevel
        /\ decisionLevel \in Nat /\ decisionLevel > 0 /\ Len(trail) \in Nat
        /\ size \in Seq(Nat) /\ Len(size) = decisionLevel + 1
        /\ \A l \in 1 .. decisionLevel : trail_lim[l] \in Nat
        /\ \A l \in 0 .. decisionLevel : size[l + 1] \in Nat
    BY TypeFacts DEF Inv
  <1>2. /\ p \in assigns /\ slot[p].level = decisionLevel
        /\ slot[p].nth \in Nat /\ slot[p].nth > 0
        /\ trailpos[p] \in Nat /\ trailpos[p] <= Len(trail)
        /\ trail_lim[decisionLevel] <= trailpos[p]
    <2>1. p \in assigns /\ slot[p].level = decisionLevel
      OBVIOUS
    <2>2. slot[p].nth \in Nat /\ trailpos[p] \in Int /\ trailpos[p] >= -1
      BY <2>1, TypeFacts DEF Inv
    <2>3. trailpos[p] <= Len(trail) /\ trail_lim[decisionLevel] <= trailpos[p]
      BY <2>1, <1>1 DEF Inv, PositionsInLevel
    <2>4. slot[p].nth > 0
      BY <2>1, <2>2, <1>1 DEF Inv, PositionsInOrder
    <2> QED
      BY <2>1, <2>2, <2>3, <2>4, <1>1
  <1>3. top' = trailpos[p] /\ liveLevels' = decisionLevel /\ decisionLevel' = decisionLevel
    BY DEF top, liveLevels, decisionLevel
  <1>4. /\ size' \in Seq(Nat) /\ Len(size') = decisionLevel + 1
        /\ size'[decisionLevel + 1] = slot[p].nth - 1
        /\ \A l \in 0 .. decisionLevel - 1 : size'[l + 1] = size[l + 1]
    BY <1>1, <1>2
  <1>5. TypeOK'
    <2>1. undo' \in [pos : Nat, lim : Nat, then : {"search", "explain"}]
      BY <1>1, <1>2
    <2>2. assigns' \in SUBSET Var /\ slot' \in [Var -> [level : Nat, nth : Nat]]
      BY DEF Inv, TypeOK, Untrail, Nowhere
    <2>3. born' \in [Var -> Presents \cup {Never}]
      BY DEF Inv, TypeOK, Untrail
    <2>4. /\ mem' \in [Cell -> Val] /\ trail' \in Seq(Record) /\ trail_lim' \in Seq(Nat)
          /\ trailpos' \in [Var -> Nat \cup {-1}] /\ mode' = "undo"
          /\ asked' \in Presents \cup {Never}
      BY DEF TypeOK, Inv
    <2>5. size' \in Seq(Nat) /\ Len(size') = liveLevels' + 1 /\ liveLevels' <= decisionLevel'
      BY <1>1, <1>3, <1>4
    <2> QED
      BY <2>1, <2>2, <2>3, <2>4, <2>5 DEF TypeOK
  <1>6. LimitsOrdered'
    <2>1. \A l \in 1 .. decisionLevel : trail_lim[l] \in 1 .. Len(trail)
      BY <1>1 DEF LimitsOrdered, Inv
    <2>2. \A l \in 1 .. decisionLevel : trail_lim[l] <= trail_lim[decisionLevel]
      BY <1>1, <2>1 DEF LimitsOrdered, Inv
    <2>3. \A l \in 1 .. decisionLevel : trail_lim[l] \in 1 .. trailpos[p]
      BY <2>1, <2>2, <1>1, <1>2
    <2>4. \A k, l \in 1 .. decisionLevel : k < l => trail_lim[k] < trail_lim[l]
      BY <1>1 DEF LimitsOrdered, Inv
    <2> QED
      BY <2>3, <2>4, <1>2, <1>3 DEF LimitsOrdered
  <1>7. \A x \in assigns' :
          /\ x \in assigns /\ slot'[x] = slot[x]
          /\ slot[x].level \in 0 .. decisionLevel /\ slot[x].nth \in Nat /\ trailpos[x] \in Int
          /\ slot[x].level = decisionLevel => slot[x].nth < slot[p].nth
    <2> SUFFICES ASSUME NEW x \in assigns'
                 PROVE  /\ x \in assigns /\ slot'[x] = slot[x]
                        /\ slot[x].level \in 0 .. decisionLevel
                        /\ slot[x].nth \in Nat /\ trailpos[x] \in Int
                        /\ slot[x].level = decisionLevel => slot[x].nth < slot[p].nth
      OBVIOUS
    <2>1. x \in assigns /\ ~(slot[x].level = decisionLevel /\ slot[x].nth >= slot[p].nth)
      BY DEF Untrail
    <2>2. /\ x \in Var /\ slot[x].level \in Nat /\ trailpos[x] \in Int /\ slot[x].nth \in Nat
          /\ slot[x].level <= decisionLevel
      BY <2>1, <1>1, TypeFacts DEF Inv, PositionsInLevel
    <2>3. slot'[x] = slot[x]
      BY <2>1, <2>2 DEF Untrail
    <2> QED
      BY <2>1, <2>2, <2>3, <1>1, <1>2
  <1>8. PositionsInLevel'
    <2> SUFFICES ASSUME NEW x \in assigns'
                 PROVE  LET l == slot[x].level IN
                        /\ l <= decisionLevel
                        /\ trailpos[x] <= trailpos[p]
                        /\ l > 0 => trail_lim[l] <= trailpos[x]
                        /\ l < decisionLevel => trailpos[x] < trail_lim[l + 1]
      BY <1>3, <1>7 DEF PositionsInLevel
    <2> DEFINE l == slot[x].level
    <2>1. /\ l \in 0 .. decisionLevel /\ trailpos[x] \in Int
          /\ l > 0 => trail_lim[l] <= trailpos[x]
          /\ l < decisionLevel => trailpos[x] < trail_lim[l + 1]
      BY <1>1, <1>7 DEF PositionsInLevel, Inv
    <2>2. CASE l = decisionLevel
      <3>1. trailpos[x] <= trailpos[p]
        BY <2>2, <1>2, <1>7 DEF PositionsInOrder, Inv
      <3> QED
        BY <3>1, <2>1, <1>1
    <2>3. CASE l # decisionLevel
      <3> HIDE DEF l
      <3>1. /\ trailpos[x] < trail_lim[l + 1]
            /\ trail_lim[l + 1] <= trail_lim[decisionLevel]
            /\ trail_lim[l + 1] \in Nat /\ trail_lim[decisionLevel] \in Nat
        BY <2>1, <2>3, <1>1 DEF LimitsOrdered, Inv
      <3>2. trailpos[x] <= trailpos[p]
        BY <3>1, <2>1, <1>2
      <3> QED
        BY <3>2, <2>1, <1>1 DEF l
    <2> QED
      BY <2>2, <2>3
  <1>9. PositionsInOrder'
    <2>1. \A x \in assigns' : slot[x].nth <= size'[slot[x].level + 1]
      <3> SUFFICES ASSUME NEW x \in assigns' PROVE slot[x].nth <= size'[slot[x].level + 1]
        OBVIOUS
      <3>1. CASE slot[x].level = decisionLevel
        BY <3>1, <1>2, <1>4, <1>7
      <3>2. CASE slot[x].level # decisionLevel
        BY <3>2, <1>1, <1>4, <1>7 DEF PositionsInOrder, Inv
      <3> QED
        BY <3>1, <3>2
    <2> QED
      BY <2>1, <1>7 DEF PositionsInOrder, Inv
  <1> QED
    BY <1>5, <1>6, <1>8, <1>9 DEF Inv

LEMMA undoLastInv ==
  ASSUME Inv, undoLast
  PROVE  Inv'
  <1> USE DEF undoLast
  <1>1. /\ trail \in Seq(Record) /\ Len(trail) \in Nat
        /\ top = undo.pos /\ undo.pos \in Nat /\ liveLevels = undo.lim
    BY TypeFacts DEF Inv, TypeOK, top, liveLevels
  <1>2. /\ trail' \in Seq(Record) /\ Len(trail') = Len(trail) - 1
        /\ trail[Len(trail)] \in Record
    <2>1. /\ Len(trail) \in 1 .. Len(trail) /\ Len(trail) - 1 \in 0 .. Len(trail)
          /\ trail' = SubSeq(trail, 1, Len(trail) - 1)
      BY <1>1
    <2> HIDE DEF undoLast
    <2>2. trail[Len(trail)] \in Record
      <3>1. \A n \in 1 .. Len(trail) : trail[n] \in Record
        BY <1>1
      <3> QED
        BY <2>1, <3>1
    <2>3. trail' \in Seq(Record) /\ Len(trail') = Len(trail) - 1
      <3> DEFINE n == Len(trail) - 1
      <3>1. /\ n \in Nat /\ trail' = SubSeq(trail, 1, n)
            /\ \A i \in 1 .. n : trail[i] \in Record
        BY <2>1, <1>1
      <3> HIDE DEF n
      <3>2. SubSeq(trail, 1, n) \in Seq(Record) /\ Len(SubSeq(trail, 1, n)) = n
        BY <3>1, SubSeqProperties
      <3> QED
        BY <3>1, <3>2 DEF n
    <2> QED
      BY <2>2, <2>3
  <1>3. top' = top /\ liveLevels' = liveLevels /\ decisionLevel' = decisionLevel
    BY DEF top, liveLevels, decisionLevel
  <1>4. mem' \in [Cell -> Val]
    <2>1. \A c \in Cell : c = trail[Len(trail)].pt => trail[Len(trail)].x \in Val
      BY <1>2, TrailIncAssumption DEF Record
    <2> QED
      BY <2>1 DEF Inv, TypeOK, Undone
  <1>5. TypeOK'
    BY <1>2, <1>3, <1>4 DEF Inv, TypeOK
  <1>6. LimitsOrdered'
    BY <1>1, <1>2, <1>3 DEF Inv, LimitsOrdered
  <1>7. PositionsInLevel' /\ PositionsInOrder'
    BY <1>3 DEF Inv, PositionsInLevel, PositionsInOrder
  <1> QED
    BY <1>5, <1>6, <1>7 DEF Inv

LEMMA undoDoneInv ==
  ASSUME Inv, undoDone
  PROVE  Inv'
  <1> USE DEF undoDone
  <1>1. /\ trail_lim \in Seq(Nat) /\ Len(trail) \in Nat
        /\ top = undo.pos /\ undo.pos \in Nat /\ undo.lim \in Nat
        /\ liveLevels = undo.lim /\ undo.lim <= decisionLevel /\ decisionLevel = Len(trail_lim)
        /\ undo.then # "undo"
    BY TypeFacts DEF Inv, TypeOK, top, liveLevels, decisionLevel
  <1>2. top = Len(trail)
    BY <1>1 DEF Inv, LimitsOrdered
  <1>3. /\ trail_lim' \in Seq(Nat) /\ Len(trail_lim') = undo.lim
        /\ \A l \in 1 .. undo.lim : trail_lim'[l] = trail_lim[l]
    <2>1. undo.lim \in 0 .. Len(trail_lim) /\ trail_lim' = SubSeq(trail_lim, 1, undo.lim)
      BY <1>1
    <2> QED
      BY <2>1, <1>1
  <1>4. top' = top /\ liveLevels' = liveLevels /\ decisionLevel' = liveLevels
    BY <1>1, <1>2, <1>3 DEF top, liveLevels, decisionLevel
  <1>5. TypeOK'
    BY <1>1, <1>3, <1>4 DEF Inv, TypeOK, NoUndo
  <1>6. LimitsOrdered'
    BY <1>1, <1>3, <1>4 DEF Inv, LimitsOrdered
  <1>7. \A x \in assigns : slot[x].level \in 0 .. undo.lim
    BY <1>1, TypeFacts DEF Inv, PositionsInLevel
  <1>8. PositionsInLevel'
    <2>1. ASSUME NEW x \in assigns
          PROVE  LET l == slot[x].level IN
                 /\ l <= undo.lim
                 /\ trailpos[x] <= top
                 /\ l > 0 => trail_lim'[l] <= trailpos[x]
                 /\ l < undo.lim => trailpos[x] < trail_lim'[l + 1]
      <3>1. slot[x].level \in 0 .. undo.lim
        BY <1>7
      <3>2. /\ trailpos[x] <= top
            /\ slot[x].level > 0 => trail_lim[slot[x].level] <= trailpos[x]
            /\ slot[x].level < undo.lim => trailpos[x] < trail_lim[slot[x].level + 1]
        BY <1>1 DEF Inv, PositionsInLevel
      <3> DEFINE l == slot[x].level
      <3>3. l \in 0 .. undo.lim
        BY <3>1
      <3> HIDE DEF l
      <3>4. (l > 0 => trail_lim'[l] = trail_lim[l]) /\ (l < undo.lim => trail_lim'[l + 1] = trail_lim[l + 1])
        <4>1. l > 0 => l \in 1 .. undo.lim
          BY <3>3
        <4>2. l < undo.lim => l + 1 \in 1 .. undo.lim
          BY <3>3, <1>1
        <4> QED
          BY <4>1, <4>2, <1>3
      <3> QED
        BY <3>2, <3>3, <3>4, <1>1 DEF l
    <2> QED
      BY <2>1, <1>1, <1>4 DEF PositionsInLevel
  <1>9. PositionsInOrder'
    BY DEF Inv, PositionsInOrder
  <1> QED
    BY <1>5, <1>6, <1>8, <1>9 DEF Inv

LEMMA topLevelCleanUpInv ==
  ASSUME Inv, topLevelCleanUp
  PROVE  Inv'
  <1> USE DEF topLevelCleanUp
  <1>1. /\ liveLevels = 0 /\ decisionLevel = 0
        /\ liveLevels' = 0 /\ decisionLevel' = 0 /\ top' = 0
    BY DEF liveLevels, decisionLevel, top
  <1>2. TypeOK'
    BY <1>1 DEF Inv, TypeOK, Nowhere
  <1>3. LimitsOrdered'
    BY <1>1 DEF LimitsOrdered
  <1>4. \A x \in assigns :
          slot'[x].level = 0 /\ slot'[x].nth = 0 /\ trailpos'[x] = -1
    <2> SUFFICES ASSUME NEW x \in assigns
                 PROVE  slot'[x].level = 0 /\ slot'[x].nth = 0 /\ trailpos'[x] = -1
      OBVIOUS
    <2>1. x \in Var /\ slot[x].level \in Nat /\ slot[x].nth \in Nat
      BY TypeFacts DEF Inv
    <2>2. CASE Listed(x)
      BY <2>1, <2>2 DEF Nowhere
    <2>3. CASE ~Listed(x)
      BY <2>1, <2>3 DEF Inv, PositionsInOrder, Listed
    <2> QED
      BY <2>2, <2>3
  <1>5. assigns' = assigns /\ size'[0 + 1] = 0
    OBVIOUS
  <1> HIDE DEF topLevelCleanUp
  <1>6. PositionsInLevel'
    <2>1. \A x \in assigns' : slot'[x].level = 0 /\ trailpos'[x] = -1
      BY <1>4, <1>5
    <2> QED
      BY <1>1, <2>1 DEF PositionsInLevel
  <1>7. PositionsInOrder'
    <2>1. \A x \in assigns' : slot'[x].level = 0 /\ slot'[x].nth = 0 /\ trailpos'[x] = -1
      BY <1>4, <1>5
    <2> QED
      BY <1>5, <2>1 DEF PositionsInOrder
  <1> QED
    BY <1>2, <1>3, <1>6, <1>7 DEF Inv

LEMMA NextInv == Inv /\ [Next]_vars => Inv'
  <1>1. ASSUME Inv, UNCHANGED vars PROVE Inv'
    BY <1>1 DEF Inv, TypeOK, LimitsOrdered, PositionsInLevel, PositionsInOrder,
                vars, top, liveLevels, decisionLevel
  <1> QED
    BY <1>1, AssignInv, EnqueueInv, newDecisionLevelInv, btToLevelInv, explainInv,
       undoLastInv, undoDoneInv, topLevelCleanUpInv DEF Next

THEOREM Invariance == Spec => []Inv
  BY InitInv, NextInv, PTL DEF Spec

THEOREM TypeCorrect == Spec => []TypeOK
  BY Invariance, PTL DEF Inv

(* A literal's position lies between the starts of its level and of the next *)
(* one, and the starts are strictly apart thanks to trail_inc: there is just *)
(* one level tpToLevel can answer.                                           *)
LEMMA LevelUnique == Inv => LevelOfPosition
  <1> SUFFICES ASSUME Inv, mode # "undo", NEW x \in assigns
               PROVE  tpToLevel(trailpos[x]) = slot[x].level
    BY DEF LevelOfPosition
  <1> DEFINE l == slot[x].level
             started == {k \in 1 .. decisionLevel : trailpos[x] >= trail_lim[k]}
  <1>1. /\ decisionLevel \in Nat /\ liveLevels = decisionLevel
        /\ \A k \in 1 .. decisionLevel : trail_lim[k] \in Nat
        /\ l \in 0 .. decisionLevel /\ trailpos[x] \in Int
    BY TypeFacts DEF Inv, PositionsInLevel
  <1>2. /\ l > 0 => trail_lim[l] <= trailpos[x]
        /\ l < decisionLevel => trailpos[x] < trail_lim[l + 1]
    BY <1>1 DEF Inv, PositionsInLevel
  <1>3. \A k \in 1 .. decisionLevel : k > l => trailpos[x] < trail_lim[k]
    <2> SUFFICES ASSUME NEW k \in 1 .. decisionLevel, k > l
                 PROVE  trailpos[x] < trail_lim[k]
      OBVIOUS
    <2> HIDE DEF l
    <2>1. l < decisionLevel /\ l + 1 \in 1 .. decisionLevel
      BY <1>1
    <2>2. trail_lim[l + 1] <= trail_lim[k]
      BY <2>1, <1>1 DEF Inv, LimitsOrdered
    <2> QED
      BY <2>1, <2>2, <1>1, <1>2
  <1> HIDE DEF l
  <1>4. CASE l = 0
    <2>1. started = {}
      BY <1>1, <1>3, <1>4
    <2> QED
      BY <2>1, <1>4 DEF tpToLevel, l
  <1>5. CASE l > 0
    <2>1. l \in started /\ \A k \in started : k <= l
      BY <1>1, <1>2, <1>3, <1>5
    <2>2. started \subseteq Int
      BY <1>1
    <2> HIDE DEF started
    <2>3. \A k \in started : (\A j \in started : j <= k) => k = l
      BY <2>1, <2>2
    <2>4. (CHOOSE k \in started : \A j \in started : j <= k) = l
      BY <2>1, <2>3
    <2> QED
      BY <2>1, <2>4 DEF tpToLevel, l, started
  <1> QED
    BY <1>1, <1>4, <1>5

(* The level that conflict analysis reads off the position of a literal is   *)
(* the level it was enqueued at, in every reachable state (tpToLevel,        *)
(* findConflictLevel, findBackTrackLevel).                                   *)
THEOREM PositionsTellLevels == Spec => []LevelOfPosition
  BY Invariance, LevelUnique, PTL

-----------------------------------------------------------------------------
(* What going back brings back. *)

(* v is what undoing the records after position pos leaves in c, read off    *)
(* the records: the oldest one of c holds it, or there is none and the datum *)
(* does.                                                                     *)
LeavesBehind(tr, m, pos, c, v) ==
  \/ /\ \A i \in pos + 1 .. Len(tr) : tr[i].pt # c
     /\ v = m[c]
  \/ \E i \in pos + 1 .. Len(tr) :
       /\ tr[i].pt = c /\ tr[i].x = v
       /\ \A j \in pos + 1 .. i - 1 : tr[j].pt # c

(* StoreAt as a function of the trail and of the data, so that the lemmas    *)
(* below speak of the state before a step and of the state after it.         *)
StoreOf(tr, m, pos) ==
  LET writes(c) == {i \in pos + 1 .. Len(tr) : tr[i].pt = c}
      first(c) == CHOOSE i \in writes(c) : \A j \in writes(c) : i <= j
  IN  [c \in Cell |-> IF writes(c) = {} THEN m[c] ELSE tr[first(c)].x]

LEMMA StoreOfLeaves ==
  ASSUME NEW tr, Len(tr) \in Nat, NEW m, NEW pos \in Nat, NEW c \in Cell
  PROVE  LeavesBehind(tr, m, pos, c, StoreOf(tr, m, pos)[c])
  <1> DEFINE writes == {i \in pos + 1 .. Len(tr) : tr[i].pt = c}
             first == CHOOSE i \in writes : \A j \in writes : i <= j
  <1>1. StoreOf(tr, m, pos)[c] = IF writes = {} THEN m[c] ELSE tr[first].x
    BY DEF StoreOf
  <1>2. CASE writes = {}
    BY <1>1, <1>2 DEF LeavesBehind
  <1>3. CASE writes # {}
    <2>1. writes \in SUBSET Nat
      OBVIOUS
    <2> HIDE DEF writes
    <2>2. first \in writes /\ \A j \in writes : first <= j
      BY <1>3, <2>1, Least
    <2> HIDE DEF first
    <2> USE DEF writes
    <2>3. first \in pos + 1 .. Len(tr) /\ tr[first].pt = c
      BY <2>2
    <2>4. \A j \in pos + 1 .. first - 1 : tr[j].pt # c
      BY <2>1, <2>2, <2>3
    <2> QED
      BY <1>1, <1>3, <2>3, <2>4 DEF LeavesBehind
  <1> QED
    BY <1>2, <1>3

LEMMA LeavesOne ==
  ASSUME NEW tr, Len(tr) \in Nat, NEW m, NEW pos \in Nat, NEW c, NEW v, NEW w,
         LeavesBehind(tr, m, pos, c, v), LeavesBehind(tr, m, pos, c, w)
  PROVE  v = w
  <1>1. CASE \A i \in pos + 1 .. Len(tr) : tr[i].pt # c
    BY <1>1 DEF LeavesBehind
  <1>2. CASE ~ \A i \in pos + 1 .. Len(tr) : tr[i].pt # c
    <2>1. PICK i \in pos + 1 .. Len(tr) :
            tr[i].pt = c /\ tr[i].x = v /\ \A j \in pos + 1 .. i - 1 : tr[j].pt # c
      BY <1>2 DEF LeavesBehind
    <2>2. PICK k \in pos + 1 .. Len(tr) :
            tr[k].pt = c /\ tr[k].x = w /\ \A j \in pos + 1 .. k - 1 : tr[j].pt # c
      BY <1>2 DEF LeavesBehind
    <2>3. ~(i < k) /\ ~(k < i)
      BY <2>1, <2>2
    <2> QED
      BY <2>1, <2>2, <2>3
  <1> QED
    BY <1>1, <1>2

(* Two trails that leave the same behind in every datum give one store. *)
LEMMA SameStoreOf ==
  ASSUME NEW tr, NEW tr2, Len(tr) \in Nat, Len(tr2) \in Nat,
         NEW m, NEW m2, NEW pos \in Nat,
         \A c \in Cell : \A v : LeavesBehind(tr, m, pos, c, v) => LeavesBehind(tr2, m2, pos, c, v)
  PROVE  StoreOf(tr2, m2, pos) = StoreOf(tr, m, pos)
  <1>1. ASSUME NEW c \in Cell PROVE StoreOf(tr2, m2, pos)[c] = StoreOf(tr, m, pos)[c]
    <2>1. LeavesBehind(tr2, m2, pos, c, StoreOf(tr, m, pos)[c])
      BY StoreOfLeaves
    <2>2. LeavesBehind(tr2, m2, pos, c, StoreOf(tr2, m2, pos)[c])
      BY StoreOfLeaves
    <2> QED
      BY <2>1, <2>2, LeavesOne
  <1> QED
    BY <1>1 DEF StoreOf

(* With nothing to undo, the store is the data as they are. *)
LEMMA StoreOfNothing ==
  ASSUME NEW tr, NEW m \in [Cell -> Val], NEW pos \in Nat, Len(tr) \in Nat, Len(tr) <= pos
  PROVE  StoreOf(tr, m, pos) = m
  <1>1. {i \in pos + 1 .. Len(tr) : TRUE} = {}
    OBVIOUS
  <1> QED
    BY <1>1 DEF StoreOf

(* Undoing brings back data: the values on the trail are values of data. *)
LEMMA StoreOfType ==
  ASSUME NEW tr \in Seq(Record), NEW m \in [Cell -> Val], NEW pos \in Nat
  PROVE  StoreOf(tr, m, pos) \in [Cell -> Val]
  <1>1. ASSUME NEW c \in Cell PROVE StoreOf(tr, m, pos)[c] \in Val
    <2>1. Len(tr) \in Nat /\ \A i \in 1 .. Len(tr) : tr[i] \in Record
      OBVIOUS
    <2>2. \A i \in 1 .. Len(tr) : tr[i].pt = c => tr[i].x \in Val
      BY <2>1, TrailIncAssumption DEF Record
    <2>3. LeavesBehind(tr, m, pos, c, StoreOf(tr, m, pos)[c])
      BY <2>1, StoreOfLeaves
    <2> QED
      BY <2>1, <2>2, <2>3 DEF LeavesBehind
  <1> QED
    BY <1>1 DEF StoreOf

-----------------------------------------------------------------------------
(* What each write of the trail leaves of the positions before it. *)

(* A write that is recorded changes nothing before its own position. *)
LEMMA WriteKeepsStoreOf ==
  ASSUME NEW tr \in Seq(Record), NEW m \in [Cell -> Val], NEW c \in Cell, NEW v \in Val,
         NEW pos \in Nat, pos <= Len(tr)
  PROVE  StoreOf(Append(tr, [pt |-> c, x |-> m[c]]), [m EXCEPT ![c] = v], pos) = StoreOf(tr, m, pos)
  <1> DEFINE e == [pt |-> c, x |-> m[c]]
             tr2 == Append(tr, e)
             m2 == [m EXCEPT ![c] = v]
  <1>1. e \in Record /\ e.pt = c /\ e.x = m[c]
    BY DEF Record
  <1> HIDE DEF e
  <1>2. /\ Len(tr) \in Nat /\ Len(tr2) = Len(tr) + 1 /\ tr2[Len(tr) + 1] = e
        /\ \A i \in 1 .. Len(tr) : tr2[i] = tr[i]
    BY <1>1
  <1>3. ASSUME NEW d \in Cell, NEW w, LeavesBehind(tr, m, pos, d, w)
        PROVE  LeavesBehind(tr2, m2, pos, d, w)
    <2> HIDE DEF tr2
    <2>1. CASE \A i \in pos + 1 .. Len(tr) : tr[i].pt # d
      <3>1. w = m[d] /\ \A i \in pos + 1 .. Len(tr) : tr2[i].pt # d
        BY <1>2, <1>3, <2>1 DEF LeavesBehind
      <3>2. CASE d = c
        <4>1. Len(tr) + 1 \in pos + 1 .. Len(tr2) /\ (Len(tr) + 1) - 1 = Len(tr)
          BY <1>2
        <4> QED
          BY <4>1, <3>1, <3>2, <1>1, <1>2 DEF LeavesBehind
      <3>3. CASE d # c
        <4>1. m2[d] = m[d] /\ \A i \in pos + 1 .. Len(tr2) : tr2[i].pt # d
          BY <3>1, <3>3, <1>1, <1>2
        <4> QED
          BY <3>1, <4>1 DEF LeavesBehind
      <3> QED
        BY <3>2, <3>3
    <2>2. CASE ~ \A i \in pos + 1 .. Len(tr) : tr[i].pt # d
      <3>1. PICK i \in pos + 1 .. Len(tr) :
              tr[i].pt = d /\ tr[i].x = w /\ \A j \in pos + 1 .. i - 1 : tr[j].pt # d
        BY <1>3, <2>2 DEF LeavesBehind
      <3>2. i \in pos + 1 .. Len(tr2) /\ tr2[i] = tr[i] /\ \A j \in pos + 1 .. i - 1 : tr2[j] = tr[j]
        BY <1>2
      <3> QED
        BY <3>1, <3>2 DEF LeavesBehind
    <2> QED
      BY <2>1, <2>2
  <1>4. Len(tr2) \in Nat
    BY <1>2
  <1> HIDE DEF tr2, m2
  <1>5. StoreOf(tr2, m2, pos) = StoreOf(tr, m, pos)
    BY <1>2, <1>3, <1>4, SameStoreOf
  <1> QED
    BY <1>5 DEF tr2, m2, e

(* The record of trail_inc, which newDecisionLevel adds, is no datum's. *)
LEMMA IncKeepsStoreOf ==
  ASSUME NEW tr \in Seq(Record), NEW m \in [Cell -> Val], NEW pos \in Nat, pos <= Len(tr)
  PROVE  StoreOf(Append(tr, [pt |-> trail_inc, x |-> Pad]), m, pos) = StoreOf(tr, m, pos)
  <1> DEFINE e == [pt |-> trail_inc, x |-> Pad]
             tr2 == Append(tr, e)
  <1>1. e \in Record /\ e.pt \notin Cell
    BY TrailIncAssumption DEF Record
  <1> HIDE DEF e
  <1>2. /\ Len(tr) \in Nat /\ Len(tr2) = Len(tr) + 1 /\ tr2[Len(tr) + 1] = e
        /\ \A i \in 1 .. Len(tr) : tr2[i] = tr[i]
    BY <1>1
  <1>3. ASSUME NEW d \in Cell, NEW w, LeavesBehind(tr, m, pos, d, w)
        PROVE  LeavesBehind(tr2, m, pos, d, w)
    <2> HIDE DEF tr2
    <2>1. CASE \A i \in pos + 1 .. Len(tr) : tr[i].pt # d
      BY <2>1, <1>1, <1>2, <1>3 DEF LeavesBehind
    <2>2. CASE ~ \A i \in pos + 1 .. Len(tr) : tr[i].pt # d
      <3>1. PICK i \in pos + 1 .. Len(tr) :
              tr[i].pt = d /\ tr[i].x = w /\ \A j \in pos + 1 .. i - 1 : tr[j].pt # d
        BY <1>3, <2>2 DEF LeavesBehind
      <3>2. i \in pos + 1 .. Len(tr2) /\ tr2[i] = tr[i] /\ \A j \in pos + 1 .. i - 1 : tr2[j] = tr[j]
        BY <1>2
      <3> QED
        BY <3>1, <3>2 DEF LeavesBehind
    <2> QED
      BY <2>1, <2>2
  <1>4. Len(tr2) \in Nat
    BY <1>2
  <1> HIDE DEF tr2
  <1>5. StoreOf(tr2, m, pos) = StoreOf(tr, m, pos)
    BY <1>2, <1>3, <1>4, SameStoreOf
  <1> QED
    BY <1>5 DEF tr2, e

(* One turn of the loop of Engine::btToPos, down to pos at most. *)
LEMMA UndoKeepsStoreOf ==
  ASSUME NEW tr \in Seq(Record), NEW m \in [Cell -> Val], NEW pos \in Nat, pos < Len(tr)
  PROVE  StoreOf(SubSeq(tr, 1, Len(tr) - 1), Undone(m, tr[Len(tr)]), pos) = StoreOf(tr, m, pos)
  <1> DEFINE n == Len(tr) - 1
             tr2 == SubSeq(tr, 1, n)
             m2 == Undone(m, tr[Len(tr)])
  <1>1. n \in Nat /\ Len(tr) = n + 1 /\ \A i \in 1 .. n : tr[i] \in Record
    OBVIOUS
  <1> HIDE DEF n
  <1>2. Len(tr2) = n /\ \A i \in 1 .. n : tr2[i] = tr[i]
    BY <1>1, SubSeqProperties
  <1>3. \A d \in Cell : m2[d] = IF d = tr[n + 1].pt THEN tr[n + 1].x ELSE m[d]
    BY <1>1 DEF Undone
  <1>4. ASSUME NEW d \in Cell, NEW w, LeavesBehind(tr, m, pos, d, w)
        PROVE  LeavesBehind(tr2, m2, pos, d, w)
    <2> HIDE DEF tr2, m2
    <2>1. CASE \A i \in pos + 1 .. Len(tr) : tr[i].pt # d
      <3>1. w = m[d] /\ tr[n + 1].pt # d
        BY <1>1, <1>4, <2>1 DEF LeavesBehind
      <3> QED
        BY <3>1, <2>1, <1>1, <1>2, <1>3 DEF LeavesBehind
    <2>2. CASE ~ \A i \in pos + 1 .. Len(tr) : tr[i].pt # d
      <3>1. PICK i \in pos + 1 .. Len(tr) :
              tr[i].pt = d /\ tr[i].x = w /\ \A j \in pos + 1 .. i - 1 : tr[j].pt # d
        BY <1>4, <2>2 DEF LeavesBehind
      <3>2. CASE i = n + 1
        <4>1. m2[d] = w
          BY <3>1, <3>2, <1>3
        <4>2. \A j \in pos + 1 .. n : tr2[j].pt # d
          BY <3>1, <3>2, <1>1, <1>2
        <4> QED
          BY <4>1, <4>2, <1>2 DEF LeavesBehind
      <3>3. CASE i # n + 1
        <4>1. i \in pos + 1 .. Len(tr2) /\ tr2[i] = tr[i] /\ \A j \in pos + 1 .. i - 1 : tr2[j] = tr[j]
          BY <3>3, <1>1, <1>2
        <4> QED
          BY <3>1, <4>1 DEF LeavesBehind
      <3> QED
        BY <3>2, <3>3
    <2> QED
      BY <2>1, <2>2
  <1>5. Len(tr2) \in Nat /\ Len(tr) \in Nat
    BY <1>1, <1>2
  <1> QED
    BY <1>4, <1>5, SameStoreOf DEF n

-----------------------------------------------------------------------------
(* The trail implements the store with snapshots. *)

(* The present and the remembered ones, as the refinement mapping has them. *)
Now == [store |-> IF mode = "undo" THEN StoreAt(undo.pos) ELSE mem, assigned |-> assigns]
Past == [l \in 1 .. liveLevels |-> LevelState(l)]

LEMMA NowIs ==
  /\ Now = [store |-> IF mode = "undo" THEN StoreOf(trail, mem, undo.pos) ELSE mem,
            assigned |-> assigns]
  /\ Now' = [store |-> IF mode' = "undo" THEN StoreOf(trail', mem', undo'.pos) ELSE mem',
             assigned |-> assigns']
  BY DEF Now, StoreAt, StoreOf

LEMMA PastIs ==
  /\ Past = [l \in 1 .. liveLevels |->
               [store |-> StoreOf(trail, mem, trail_lim[l]),
                assigned |-> {x \in assigns : slot[x].level < l}]]
  /\ Past' = [l \in 1 .. liveLevels' |->
                [store |-> StoreOf(trail', mem', trail_lim'[l]),
                 assigned |-> {x \in assigns' : slot'[x].level < l}]]
  BY DEF Past, LevelState, StoreAt, StoreOf

LEMMA PresentType ==
  ASSUME Inv
  PROVE  /\ Now \in Presents
         /\ Past \in Seq(Presents) /\ Len(Past) = liveLevels /\ DOMAIN Past = 1 .. liveLevels
         /\ trail \in Seq(Record) /\ mem \in [Cell -> Val] /\ assigns \subseteq Var
         /\ liveLevels \in Nat /\ top \in Nat /\ Len(trail) \in Nat /\ top <= Len(trail)
         /\ \A l \in 1 .. liveLevels : trail_lim[l] \in Nat /\ trail_lim[l] <= top
  <1>1. /\ trail \in Seq(Record) /\ mem \in [Cell -> Val] /\ assigns \subseteq Var
        /\ liveLevels \in Nat /\ Len(trail) \in Nat /\ undo.pos \in Nat
    BY TypeFacts DEF Inv, TypeOK
  <1>2. top \in Nat /\ top <= Len(trail)
    BY <1>1 DEF Inv, LimitsOrdered, top
  <1>3. \A l \in 1 .. liveLevels : trail_lim[l] \in Nat /\ trail_lim[l] <= top
    BY <1>2 DEF Inv, LimitsOrdered
  <1>4. Now \in Presents
    BY <1>1, NowIs, StoreOfType DEF Presents
  <1>5. \A l \in 1 .. liveLevels :
          [store |-> StoreOf(trail, mem, trail_lim[l]),
           assigned |-> {x \in assigns : slot[x].level < l}] \in Presents
    BY <1>1, <1>3, StoreOfType DEF Presents
  <1>6. Past \in [1 .. liveLevels -> Presents]
    BY <1>5, PastIs
  <1>7. Past \in Seq(Presents) /\ Len(Past) = liveLevels
    BY <1>1, <1>6
  <1> QED
    BY <1>1, <1>2, <1>3, <1>4, <1>6, <1>7

(* The remembered presents are the same after a step that keeps the levels,  *)
(* what the records leave of their starts, and the literals below each.      *)
LEMMA PastKept ==
  ASSUME liveLevels' = liveLevels,
         \A l \in 1 .. liveLevels :
           /\ StoreOf(trail', mem', trail_lim'[l]) = StoreOf(trail, mem, trail_lim[l])
           /\ {x \in assigns' : slot'[x].level < l} = {x \in assigns : slot[x].level < l}
  PROVE  Past' = Past
  BY PastIs

LEMMA InitStore == Init => Now \in Presents /\ Past = <<>>
  <1> SUFFICES ASSUME Init PROVE Now \in Presents /\ Past = <<>>
    OBVIOUS
  <1>1. Inv
    BY InitInv
  <1>2. liveLevels = 0
    BY DEF Init, liveLevels, decisionLevel
  <1>3. Now \in Presents /\ Past \in Seq(Presents) /\ Len(Past) = 0
    BY <1>1, <1>2, PresentType
  <1> QED
    BY <1>3

LEMMA AssignStore ==
  ASSUME Inv, NEW c \in Cell, NEW v \in Val, Assign(c, v)
  PROVE  Past' = Past
  <1>1. /\ trail' = Append(trail, [pt |-> c, x |-> mem[c]]) /\ mem' = [mem EXCEPT ![c] = v]
        /\ UNCHANGED <<trail_lim, assigns, slot>>
        /\ liveLevels' = liveLevels
    BY DEF Assign, liveLevels, decisionLevel
  <1>2. \A l \in 1 .. liveLevels :
          StoreOf(trail', mem', trail_lim[l]) = StoreOf(trail, mem, trail_lim[l])
    <2> SUFFICES ASSUME NEW l \in 1 .. liveLevels
                 PROVE  StoreOf(trail', mem', trail_lim[l]) = StoreOf(trail, mem, trail_lim[l])
      OBVIOUS
    <2>1. /\ trail \in Seq(Record) /\ mem \in [Cell -> Val] /\ trail_lim[l] \in Nat
          /\ trail_lim[l] <= Len(trail)
      BY PresentType
    <2> QED
      BY <2>1, <1>1, WriteKeepsStoreOf
  <1> QED
    BY <1>1, <1>2, PastKept

LEMMA EnqueueStore ==
  ASSUME Inv, NEW x \in Var, Enqueue(x)
  PROVE  Past' = Past
  <1>1. /\ assigns' = assigns \cup {x} /\ x \notin assigns /\ slot'[x].level = decisionLevel
        /\ \A y \in assigns : slot'[y] = slot[y]
        /\ UNCHANGED <<trail, mem, trail_lim>>
        /\ liveLevels' = liveLevels /\ liveLevels = decisionLevel /\ decisionLevel \in Nat
    BY TypeFacts DEF Enqueue, Inv, TypeOK, liveLevels, decisionLevel
  <1>2. \A l \in 1 .. liveLevels :
          {y \in assigns' : slot'[y].level < l} = {y \in assigns : slot[y].level < l}
    BY <1>1
  <1> QED
    BY <1>1, <1>2, PastKept

LEMMA newDecisionLevelStore ==
  ASSUME Inv, newDecisionLevel
  PROVE  Past' = Append(Past, Now) /\ Now' = Now
  <1> DEFINE n == decisionLevel
  <1>1. /\ trail' = Append(trail, [pt |-> trail_inc, x |-> Pad])
        /\ trail_lim' = Append(trail_lim, Len(trail'))
        /\ mode = "search" /\ UNCHANGED <<mem, assigns, slot, mode>>
        /\ n \in Nat /\ liveLevels = n /\ liveLevels' = n + 1 /\ trail_lim \in Seq(Nat)
        /\ n = Len(trail_lim) /\ top = Len(trail)
    BY TypeFacts DEF newDecisionLevel, liveLevels, decisionLevel, Inv, TypeOK
  <1> HIDE DEF n
  <1>2. Len(trail') \in Nat
    BY <1>1, PresentType
  <1>3. trail_lim'[n + 1] = Len(trail') /\ \A l \in 1 .. n : trail_lim'[l] = trail_lim[l]
    BY <1>1, <1>2
  <1>4. Now' = Now /\ Now = [store |-> mem, assigned |-> assigns]
    BY <1>1, NowIs
  <1>5. \A l \in 1 .. n : Past'[l] = Past[l]
    <2>1. \A l \in 1 .. n :
            StoreOf(trail', mem, trail_lim[l]) = StoreOf(trail, mem, trail_lim[l])
      BY <1>1, PresentType, IncKeepsStoreOf
    <2> QED
      <3> SUFFICES ASSUME NEW l \in 1 .. n PROVE Past'[l] = Past[l]
        OBVIOUS
      <3>1. l \in 1 .. n + 1
        BY <1>1
      <3>2. Past'[l] = [store |-> StoreOf(trail', mem', trail_lim'[l]),
                        assigned |-> {x \in assigns' : slot'[x].level < l}]
        BY <3>1, <1>1, PastIs
      <3>3. Past[l] = [store |-> StoreOf(trail, mem, trail_lim[l]),
                       assigned |-> {x \in assigns : slot[x].level < l}]
        BY <1>1, PastIs
      <3> QED
        BY <2>1, <3>2, <3>3, <1>1, <1>3
  <1>6. Past'[n + 1] = Now
    <2>1. StoreOf(trail', mem, Len(trail')) = mem
      BY <1>2, PresentType, StoreOfNothing
    <2>2. {x \in assigns : slot[x].level < n + 1} = assigns
      BY <1>1, TypeFacts DEF Inv, PositionsInLevel
    <2> QED
      <3>1. n + 1 \in 1 .. n + 1
        BY <1>1
      <3>2. Past'[n + 1] = [store |-> StoreOf(trail', mem', trail_lim'[n + 1]),
                            assigned |-> {x \in assigns' : slot'[x].level < n + 1}]
        BY <3>1, <1>1, PastIs
      <3> QED
        BY <2>1, <2>2, <3>2, <1>1, <1>3, <1>4
  <1>7. Past' = Append(Past, Now)
    <2>1. Past' = [l \in 1 .. n + 1 |-> Past'[l]]
      BY <1>1, PastIs
    <2>2. Past \in Seq(Presents) /\ Len(Past) = n /\ Now \in Presents
      BY <1>1, PresentType
    <2>3. Append(Past, Now) = [l \in 1 .. n + 1 |-> Append(Past, Now)[l]]
      BY <2>2, AppendProperties, LenProperties
    <2>4. \A l \in 1 .. n + 1 : Past'[l] = Append(Past, Now)[l]
      BY <2>2, <1>1, <1>5, <1>6
    <2> QED
      BY <2>1, <2>3, <2>4
  <1> QED
    BY <1>4, <1>7

(* The literals that a backtrack unassigns, and those it leaves alone. *)
LEMMA btToLevelFacts ==
  ASSUME Inv, NEW level \in 0 .. decisionLevel - 1, btToLevel(level)
  PROVE  /\ assigns' = {x \in assigns : slot[x].level < level + 1}
         /\ \A x \in assigns' : slot'[x] = slot[x] /\ born'[x] = born[x]
         /\ liveLevels = decisionLevel /\ liveLevels' = level /\ decisionLevel \in Nat
         /\ mode # "undo" /\ mode' = "undo"
         /\ undo'.pos = trail_lim[level + 1] /\ undo'.then = "search"
         /\ UNCHANGED <<trail, mem, trail_lim, trailpos>>
  <1>1. /\ mode # "undo" /\ mode' = "undo" /\ undo'.lim = level
        /\ undo'.pos = trail_lim[level + 1] /\ undo'.then = "search"
        /\ UNCHANGED <<trail, mem, trail_lim, trailpos>>
        /\ Untrail({x \in assigns : slot[x].level > level})
    BY DEF btToLevel
  <1>2. decisionLevel \in Nat /\ liveLevels = decisionLevel /\ liveLevels' = level
    BY <1>1, TypeFacts DEF Inv, liveLevels
  <1>3. \A x \in assigns : x \in Var /\ slot[x].level \in Nat
    BY TypeFacts DEF Inv
  <1>4. assigns' = {x \in assigns : slot[x].level < level + 1}
    BY <1>1, <1>2, <1>3 DEF Untrail
  <1>5. \A x \in assigns' : slot'[x] = slot[x] /\ born'[x] = born[x]
    BY <1>1, <1>3 DEF Untrail
  <1> QED
    BY <1>1, <1>2, <1>4, <1>5

LEMMA btToLevelStore ==
  ASSUME Inv, NEW level \in 0 .. decisionLevel - 1, btToLevel(level)
  PROVE  Now' = Past[level + 1] /\ Past' = SubSeq(Past, 1, level)
  <1>1. /\ assigns' = {x \in assigns : slot[x].level < level + 1}
        /\ \A x \in assigns' : slot'[x] = slot[x]
        /\ liveLevels = decisionLevel /\ liveLevels' = level /\ decisionLevel \in Nat
        /\ mode' = "undo" /\ undo'.pos = trail_lim[level + 1]
        /\ UNCHANGED <<trail, mem, trail_lim>>
    BY btToLevelFacts
  <1>2. Past[level + 1] = [store |-> StoreOf(trail, mem, trail_lim[level + 1]),
                           assigned |-> {x \in assigns : slot[x].level < level + 1}]
    <2>1. level + 1 \in 1 .. decisionLevel
      BY <1>1
    <2> QED
      BY <2>1, <1>1, PastIs
  <1>3. Now' = Past[level + 1]
    BY <1>1, <1>2, NowIs
  <1>4. ASSUME NEW l \in 1 .. level PROVE Past'[l] = Past[l]
    <2>1. l \in 1 .. decisionLevel
      BY <1>1
    <2>2. \A x \in assigns : slot[x].level \in Nat
      BY TypeFacts DEF Inv
    <2>3. {x \in assigns' : slot'[x].level < l} = {x \in assigns : slot[x].level < l}
      BY <1>1, <2>2
    <2>4. Past'[l] = [store |-> StoreOf(trail', mem', trail_lim'[l]),
                      assigned |-> {x \in assigns' : slot'[x].level < l}]
      BY <1>1, PastIs
    <2>5. Past[l] = [store |-> StoreOf(trail, mem, trail_lim[l]),
                     assigned |-> {x \in assigns : slot[x].level < l}]
      BY <2>1, <1>1, PastIs
    <2> QED
      BY <2>3, <2>4, <2>5, <1>1
  <1>5. Past' = SubSeq(Past, 1, level)
    <2>1. Past' = [l \in 1 .. level |-> Past'[l]]
      BY <1>1, PastIs
    <2>2. Past \in Seq(Presents) /\ Len(Past) = decisionLevel
      BY <1>1, PresentType
    <2>3. SubSeq(Past, 1, level) = [l \in 1 .. level |-> Past[l]]
      <3>1. level \in Nat /\ \A l \in 1 .. level : Past[l] \in Presents
        BY <2>2, <1>1
      <3>2. /\ SubSeq(Past, 1, level) \in Seq(Presents) /\ Len(SubSeq(Past, 1, level)) = level
            /\ \A l \in 1 .. level : SubSeq(Past, 1, level)[l] = Past[l]
        BY <3>1, SubSeqProperties
      <3> QED
        BY <3>2, LenProperties
    <2> QED
      BY <2>1, <2>3, <1>4
  <1> QED
    BY <1>3, <1>5

LEMMA explainFacts ==
  ASSUME Inv, NEW p \in Var, explain(p)
  PROVE  /\ p \in assigns /\ slot[p].level = decisionLevel
         /\ assigns' = {x \in assigns : \/ slot[x].level < decisionLevel
                                       \/ (slot[x].level = decisionLevel /\ slot[x].nth < slot[p].nth)}
         /\ \A x \in assigns' : slot'[x] = slot[x] /\ born'[x] = born[x]
         /\ liveLevels = decisionLevel /\ liveLevels' = decisionLevel /\ decisionLevel \in Nat
         /\ mode # "undo" /\ mode' = "undo" /\ decisionLevel > 0
         /\ undo'.pos = trailpos[p] /\ asked' = born[p]
         /\ UNCHANGED <<trail, mem, trail_lim, trailpos>>
  <1> DEFINE gone == {x \in assigns : slot[x].level = decisionLevel /\ slot[x].nth >= slot[p].nth}
  <1>1. /\ mode # "undo" /\ mode' = "undo" /\ decisionLevel > 0 /\ undo'.lim = decisionLevel
        /\ undo'.pos = trailpos[p] /\ asked' = born[p]
        /\ UNCHANGED <<trail, mem, trail_lim, trailpos>>
        /\ p \in assigns /\ slot[p].level = decisionLevel
        /\ Untrail(gone)
    BY DEF explain
  <1>2. decisionLevel \in Nat /\ liveLevels = decisionLevel /\ liveLevels' = decisionLevel
    BY <1>1, TypeFacts DEF Inv, liveLevels
  <1>3. \A x \in assigns : /\ x \in Var /\ slot[x].nth \in Nat
                          /\ slot[x].level \in Nat /\ slot[x].level <= decisionLevel
    BY <1>2, TypeFacts DEF Inv, PositionsInLevel
  <1>4. assigns' = {x \in assigns : \/ slot[x].level < decisionLevel
                                   \/ (slot[x].level = decisionLevel /\ slot[x].nth < slot[p].nth)}
    <2>1. assigns' = assigns \ gone
      BY <1>1 DEF Untrail
    <2> QED
      BY <2>1, <1>1, <1>2, <1>3
  <1>5. \A x \in assigns' : slot'[x] = slot[x] /\ born'[x] = born[x]
    BY <1>1, <1>3 DEF Untrail
  <1> QED
    BY <1>1, <1>2, <1>4, <1>5

LEMMA explainStore ==
  ASSUME Inv, NEW p \in Var, explain(p)
  PROVE  Past' = Past
  <1>1. /\ assigns' = {x \in assigns : \/ slot[x].level < decisionLevel
                                      \/ (slot[x].level = decisionLevel /\ slot[x].nth < slot[p].nth)}
        /\ \A x \in assigns' : slot'[x] = slot[x]
        /\ liveLevels = decisionLevel /\ liveLevels' = decisionLevel /\ decisionLevel \in Nat
        /\ UNCHANGED <<trail, mem, trail_lim>>
    BY explainFacts
  <1>2. \A x \in assigns : slot[x].level \in Nat
    BY TypeFacts DEF Inv
  <1>3. \A l \in 1 .. liveLevels :
          {x \in assigns' : slot'[x].level < l} = {x \in assigns : slot[x].level < l}
    BY <1>1, <1>2
  <1> QED
    BY <1>1, <1>3, PastKept

LEMMA undoLastKeeps ==
  ASSUME Inv, undoLast, NEW pos \in Nat, pos <= undo.pos
  PROVE  StoreOf(trail', mem', pos) = StoreOf(trail, mem, pos)
  <1>1. /\ Len(trail) > undo.pos /\ undo.pos \in Nat
        /\ trail' = SubSeq(trail, 1, Len(trail) - 1) /\ mem' = Undone(mem, trail[Len(trail)])
    BY DEF undoLast, Inv, TypeOK
  <1>2. trail \in Seq(Record) /\ mem \in [Cell -> Val] /\ Len(trail) \in Nat
    BY PresentType
  <1>3. pos < Len(trail)
    BY <1>1, <1>2
  <1> QED
    BY <1>1, <1>2, <1>3, UndoKeepsStoreOf

LEMMA undoLastStore ==
  ASSUME Inv, undoLast
  PROVE  Now' = Now /\ Past' = Past
  <1>1. /\ mode = "undo" /\ UNCHANGED <<mode, undo, trail_lim, assigns, slot>>
        /\ liveLevels' = liveLevels /\ top = undo.pos /\ undo.pos \in Nat
    BY DEF undoLast, liveLevels, decisionLevel, top, Inv, TypeOK
  <1>2. Now' = Now
    BY <1>1, undoLastKeeps, NowIs
  <1>3. \A l \in 1 .. liveLevels :
          StoreOf(trail', mem', trail_lim[l]) = StoreOf(trail, mem, trail_lim[l])
    BY <1>1, PresentType, undoLastKeeps
  <1> QED
    BY <1>1, <1>2, <1>3, PastKept

LEMMA undoDoneStore ==
  ASSUME Inv, undoDone
  PROVE  Now' = Now /\ Past' = Past
  <1>1. /\ mode = "undo" /\ mode' # "undo" /\ Len(trail) <= undo.pos /\ undo.pos \in Nat
        /\ UNCHANGED <<trail, mem, assigns, slot>>
        /\ trail_lim' = SubSeq(trail_lim, 1, undo.lim) /\ undo.lim \in Nat
        /\ trail_lim \in Seq(Nat) /\ undo.lim <= Len(trail_lim) /\ liveLevels = undo.lim
    BY DEF undoDone, liveLevels, decisionLevel, Inv, TypeOK
  <1>2. StoreOf(trail, mem, undo.pos) = mem
    BY <1>1, PresentType, StoreOfNothing
  <1>3. Now' = Now
    BY <1>1, <1>2, NowIs
  <1>4. \A l \in 1 .. undo.lim : trail_lim[l] \in Nat
    BY <1>1
  <1>5. Len(trail_lim') = undo.lim /\ \A l \in 1 .. undo.lim : trail_lim'[l] = trail_lim[l]
    BY <1>1, <1>4, SubSeqProperties
  <1>6. liveLevels' = undo.lim
    BY <1>1, <1>5 DEF liveLevels, decisionLevel
  <1> QED
    BY <1>1, <1>3, <1>5, <1>6, PastKept

LEMMA topLevelCleanUpStore ==
  ASSUME Inv, topLevelCleanUp
  PROVE  Now' = Now /\ Past' = Past
  <1>1. /\ mode = "search" /\ UNCHANGED <<mem, assigns, mode>>
        /\ liveLevels = 0 /\ liveLevels' = 0
    BY DEF topLevelCleanUp, liveLevels, decisionLevel
  <1>2. Now' = Now
    BY <1>1, NowIs
  <1> QED
    BY <1>1, <1>2, PastKept

(* Every step writes to the store, opens a level, goes back to one or is     *)
(* invisible to it.                                                          *)
LEMMA StepStore ==
  ASSUME Inv, Inv', [Next]_vars
  PROVE  \/ Now' \in Presents /\ Past' = Past
         \/ Past' = Append(Past, Now) /\ Now' = Now
         \/ \E l \in 0 .. Len(Past) - 1 : Now' = Past[l + 1] /\ Past' = SubSeq(Past, 1, l)
  <1>1. Now' \in Presents
    <2>1. trail' \in Seq(Record) /\ mem' \in [Cell -> Val] /\ assigns' \subseteq Var /\ undo'.pos \in Nat
      BY DEF Inv, TypeOK
    <2> QED
      BY <2>1, NowIs, StoreOfType DEF Presents
  <1>2. CASE UNCHANGED vars
    <2>1. Past' = Past
      BY <1>2 DEF vars, Past, LevelState, StoreAt, liveLevels, decisionLevel
    <2> QED
      BY <1>1, <2>1
  <1>3. CASE \E level \in 0 .. decisionLevel - 1 : btToLevel(level)
    <2>1. PICK level \in 0 .. decisionLevel - 1 : btToLevel(level)
      BY <1>3
    <2>2. Now' = Past[level + 1] /\ Past' = SubSeq(Past, 1, level)
      BY <2>1, btToLevelStore
    <2>3. Len(Past) = decisionLevel
      BY <2>1, PresentType, btToLevelFacts
    <2> QED
      BY <2>2, <2>3
  <1>4. CASE newDecisionLevel
    BY <1>4, newDecisionLevelStore
  <1>5. CASE \E c \in Cell, v \in Val : Assign(c, v)
    BY <1>1, <1>5, AssignStore
  <1>6. CASE \E x \in Var : Enqueue(x)
    BY <1>1, <1>6, EnqueueStore
  <1>7. CASE \E p \in Var : explain(p)
    BY <1>1, <1>7, explainStore
  <1>8. CASE undoLast \/ undoDone \/ topLevelCleanUp
    BY <1>1, <1>8, undoLastStore, undoDoneStore, topLevelCleanUpStore
  <1> QED
    BY <1>2, <1>3, <1>4, <1>5, <1>6, <1>7, <1>8 DEF Next

(* Going back to a level brings back, exactly, the trailed data and the      *)
(* assigned literals that were there when the next level was opened, however *)
(* the records that do it are written and undone (Engine::btToLevel,         *)
(* SAT::btToLevel, the explanations in between and the clean-ups).           *)
THEOREM TrailRestores == Spec => RestoresSnapshots
  <1>1. Init => Snapshots!BSInit
    BY InitStore DEF Snapshots!BSInit, Now, Past
  <1>2. Inv /\ Inv' /\ [Next]_vars => [Snapshots!BSNext]_Snapshots!bsVars
    <2> SUFFICES ASSUME Inv, Inv', [Next]_vars PROVE [Snapshots!BSNext]_Snapshots!bsVars
      OBVIOUS
    <2>1. \/ Now' \in Presents /\ Past' = Past
          \/ Past' = Append(Past, Now) /\ Now' = Now
          \/ \E l \in 0 .. Len(Past) - 1 : Now' = Past[l + 1] /\ Past' = SubSeq(Past, 1, l)
      BY StepStore
    <2> QED
      BY <2>1 DEF Snapshots!BSNext, Snapshots!Change, Snapshots!Open, Snapshots!GoBack,
                  Snapshots!bsVars, Now, Past
  <1> QED
    BY <1>1, <1>2, Invariance, PTL DEF Spec, RestoresSnapshots, Snapshots!BSSpec

-----------------------------------------------------------------------------
(* A lazy explanation is computed in the state its literal was enqueued in. *)

(* Undoing the records after a literal's position and unassigning what was   *)
(* enqueued after it would bring back the state in which it was enqueued.    *)
(* The literals of the root are left out: a clean-up drops their positions.  *)
Before(y, x) == \/ slot[y].level < slot[x].level
                \/ slot[y].level = slot[x].level /\ slot[y].nth < slot[x].nth

BornRight ==
  \A x \in assigns : slot[x].level > 0 =>
    born[x] = [store |-> StoreOf(trail, mem, trailpos[x]), assigned |-> {y \in assigns : Before(y, x)}]

(* The same of the explanation being asked for, half way and at the end.     *)
AskedRight ==
  /\ mode = "undo" /\ undo.then = "explain" =>
       asked = [store |-> StoreOf(trail, mem, undo.pos), assigned |-> assigns]
  /\ mode = "explain" => asked = Present

HistoryInv == Inv /\ BornRight /\ AskedRight

LEMMA LiteralFacts ==
  ASSUME Inv, NEW x \in assigns
  PROVE  /\ x \in Var /\ slot[x].level \in Nat /\ slot[x].nth \in Nat
         /\ slot[x].level <= liveLevels
         /\ slot[x].level > 0 => trailpos[x] \in Nat /\ trailpos[x] <= top /\ trailpos[x] <= Len(trail)
  <1>1. /\ x \in Var /\ slot[x].level \in Nat /\ slot[x].nth \in Nat
        /\ trailpos[x] \in Int /\ trailpos[x] >= -1
    BY TypeFacts DEF Inv
  <1>2. slot[x].level <= liveLevels /\ trailpos[x] <= top
    BY DEF Inv, PositionsInLevel
  <1>3. slot[x].level > 0 => trailpos[x] # -1
    BY <1>1 DEF Inv, PositionsInOrder
  <1> QED
    BY <1>1, <1>2, <1>3, PresentType

(* What was right of the literals that stay is right after a step that keeps *)
(* them, what came before them and what their positions lead back to.        *)
LEMMA BornKept ==
  ASSUME BornRight, assigns' \subseteq assigns,
         \A x \in assigns' :
           /\ slot'[x] = slot[x] /\ born'[x] = born[x] /\ trailpos'[x] = trailpos[x]
           /\ \A y \in assigns : Before(y, x) => y \in assigns'
           /\ slot[x].level > 0 =>
                StoreOf(trail', mem', trailpos[x]) = StoreOf(trail, mem, trailpos[x])
  PROVE  BornRight'
  <1> SUFFICES ASSUME NEW x \in assigns', slot'[x].level > 0
               PROVE  born'[x] = [store |-> StoreOf(trail', mem', trailpos'[x]),
                                  assigned |-> {y \in assigns' : Before(y, x)'}]
    BY DEF BornRight
  <1>1. \A y \in assigns' : Before(y, x)' <=> Before(y, x)
    BY DEF Before
  <1>2. {y \in assigns' : Before(y, x)'} = {y \in assigns : Before(y, x)}
    BY <1>1
  <1>3. born[x] = [store |-> StoreOf(trail, mem, trailpos[x]), assigned |-> {y \in assigns : Before(y, x)}]
    BY DEF BornRight
  <1> QED
    BY <1>2, <1>3

LEMMA InitHistory == Init => HistoryInv
  <1> SUFFICES ASSUME Init PROVE HistoryInv
    OBVIOUS
  <1>1. assigns = {} /\ mode = "search"
    BY DEF Init
  <1> QED
    BY <1>1, InitInv DEF HistoryInv, BornRight, AskedRight

LEMMA AssignHistory ==
  ASSUME HistoryInv, NEW c \in Cell, NEW v \in Val, Assign(c, v)
  PROVE  BornRight' /\ AskedRight'
  <1>1. /\ trail' = Append(trail, [pt |-> c, x |-> mem[c]]) /\ mem' = [mem EXCEPT ![c] = v]
        /\ UNCHANGED <<assigns, slot, born, trailpos>> /\ mode' = "search"
    BY DEF Assign
  <1>2. Inv /\ trail \in Seq(Record) /\ mem \in [Cell -> Val]
    BY PresentType DEF HistoryInv
  <1>3. ASSUME NEW x \in assigns, slot[x].level > 0
        PROVE  StoreOf(trail', mem', trailpos[x]) = StoreOf(trail, mem, trailpos[x])
    <2>1. trailpos[x] \in Nat /\ trailpos[x] <= Len(trail)
      BY <1>2, <1>3, LiteralFacts
    <2> QED
      BY <2>1, <1>1, <1>2, WriteKeepsStoreOf
  <1>4. BornRight'
    BY <1>1, <1>3, BornKept DEF HistoryInv
  <1> QED
    BY <1>1, <1>4 DEF AskedRight

LEMMA EnqueueHistory ==
  ASSUME HistoryInv, NEW x \in Var, Enqueue(x)
  PROVE  BornRight' /\ AskedRight'
  <1> DEFINE n == decisionLevel
  <1>1. /\ mode = "search" /\ mode' = "search" /\ UNCHANGED <<trail, mem>>
        /\ assigns' = assigns \cup {x} /\ x \notin assigns
    BY DEF Enqueue
  <1>2. /\ slot'[x] = [level |-> n, nth |-> size[n + 1] + 1]
        /\ born'[x] = [store |-> mem, assigned |-> assigns] /\ trailpos'[x] = Len(trail)
        /\ \A y \in assigns : slot'[y] = slot[y] /\ born'[y] = born[y] /\ trailpos'[y] = trailpos[y]
    BY DEF Enqueue, HistoryInv, Inv, TypeOK, Present
  <1>3. /\ n \in Nat /\ size[n + 1] \in Nat /\ Len(trail) \in Nat /\ mem \in [Cell -> Val]
        /\ \A y \in assigns : /\ slot[y].level \in Nat /\ slot[y].nth \in Nat /\ slot[y].level <= n
                              /\ slot[y].level = n => slot[y].nth <= size[n + 1]
    <2>1. Inv /\ liveLevels = n /\ n \in Nat
      BY <1>1, TypeFacts DEF HistoryInv, Inv
    <2>2. size[n + 1] \in Nat /\ Len(trail) \in Nat /\ mem \in [Cell -> Val]
      BY <2>1, TypeFacts, PresentType DEF Inv
    <2>3. \A y \in assigns : slot[y].nth <= size[slot[y].level + 1]
      BY <2>1 DEF Inv, PositionsInOrder
    <2> QED
      BY <2>1, <2>2, <2>3, LiteralFacts
  <1> HIDE DEF n
  <1>4. \A y \in assigns : Before(y, x)' /\ ~Before(x, y)'
    BY <1>2, <1>3 DEF Before
  <1>5. ~Before(x, x)'
    BY <1>2, <1>3 DEF Before
  <1>6. \A y, z \in assigns : Before(y, z)' <=> Before(y, z)
    BY <1>2 DEF Before
  <1> SUFFICES ASSUME NEW y \in assigns', slot'[y].level > 0
               PROVE  born'[y] = [store |-> StoreOf(trail', mem', trailpos'[y]),
                                  assigned |-> {z \in assigns' : Before(z, y)'}]
    BY <1>1 DEF BornRight, AskedRight
  <1>7. CASE y = x
    <2>1. {z \in assigns' : Before(z, x)'} = assigns
      BY <1>1, <1>4, <1>5
    <2>2. StoreOf(trail, mem, Len(trail)) = mem
      BY <1>3, StoreOfNothing
    <2> QED
      BY <2>1, <2>2, <1>1, <1>2, <1>7
  <1>8. CASE y \in assigns
    <2>1. {z \in assigns' : Before(z, y)'} = {z \in assigns : Before(z, y)}
      BY <1>1, <1>4, <1>6, <1>8
    <2>2. born[y] = [store |-> StoreOf(trail, mem, trailpos[y]), assigned |-> {z \in assigns : Before(z, y)}]
      BY <1>2, <1>8 DEF HistoryInv, BornRight
    <2> QED
      BY <2>1, <2>2, <1>1, <1>2, <1>8
  <1> QED
    BY <1>1, <1>7, <1>8

LEMMA newDecisionLevelHistory ==
  ASSUME HistoryInv, newDecisionLevel
  PROVE  BornRight' /\ AskedRight'
  <1>1. /\ trail' = Append(trail, [pt |-> trail_inc, x |-> Pad])
        /\ UNCHANGED <<mem, assigns, slot, born, trailpos>> /\ mode' = "search"
    BY DEF newDecisionLevel
  <1>2. Inv /\ trail \in Seq(Record) /\ mem \in [Cell -> Val]
    BY PresentType DEF HistoryInv
  <1>3. ASSUME NEW x \in assigns, slot[x].level > 0
        PROVE  StoreOf(trail', mem', trailpos[x]) = StoreOf(trail, mem, trailpos[x])
    <2>1. trailpos[x] \in Nat /\ trailpos[x] <= Len(trail)
      BY <1>2, <1>3, LiteralFacts
    <2> QED
      BY <2>1, <1>1, <1>2, IncKeepsStoreOf
  <1>4. BornRight'
    BY <1>1, <1>3, BornKept DEF HistoryInv
  <1> QED
    BY <1>1, <1>4 DEF AskedRight

LEMMA btToLevelHistory ==
  ASSUME HistoryInv, NEW level \in 0 .. decisionLevel - 1, btToLevel(level)
  PROVE  BornRight' /\ AskedRight'
  <1>1. /\ assigns' = {x \in assigns : slot[x].level < level + 1}
        /\ \A x \in assigns' : slot'[x] = slot[x] /\ born'[x] = born[x]
        /\ mode' = "undo" /\ undo'.then = "search"
        /\ UNCHANGED <<trail, mem, trail_lim, trailpos>> /\ decisionLevel \in Nat
    BY btToLevelFacts DEF HistoryInv
  <1>2. \A x \in assigns : slot[x].level \in Nat
    BY LiteralFacts DEF HistoryInv
  <1>3. \A x \in assigns' : \A y \in assigns : Before(y, x) => y \in assigns'
    BY <1>1, <1>2 DEF Before
  <1>4. BornRight'
    BY <1>1, <1>3, BornKept DEF HistoryInv
  <1> QED
    BY <1>1, <1>4 DEF AskedRight

LEMMA explainHistory ==
  ASSUME HistoryInv, NEW p \in Var, explain(p)
  PROVE  BornRight' /\ AskedRight'
  <1>1. /\ p \in assigns /\ slot[p].level = decisionLevel
        /\ assigns' = {x \in assigns : \/ slot[x].level < decisionLevel
                                      \/ (slot[x].level = decisionLevel /\ slot[x].nth < slot[p].nth)}
        /\ \A x \in assigns' : slot'[x] = slot[x] /\ born'[x] = born[x]
        /\ mode' = "undo" /\ decisionLevel > 0 /\ decisionLevel \in Nat
        /\ undo'.pos = trailpos[p] /\ asked' = born[p]
        /\ UNCHANGED <<trail, mem, trail_lim, trailpos>>
    BY explainFacts DEF HistoryInv
  <1>2. \A x \in assigns : slot[x].level \in Nat /\ slot[x].nth \in Nat
    BY LiteralFacts DEF HistoryInv
  <1>3. \A x \in assigns' : \A y \in assigns : Before(y, x) => y \in assigns'
    BY <1>1, <1>2 DEF Before
  <1>4. BornRight'
    BY <1>1, <1>3, BornKept DEF HistoryInv
  <1>5. {y \in assigns : Before(y, p)} = assigns'
    BY <1>1 DEF Before
  <1>6. born[p] = [store |-> StoreOf(trail, mem, trailpos[p]), assigned |-> assigns']
    BY <1>1, <1>5 DEF HistoryInv, BornRight
  <1> QED
    BY <1>1, <1>4, <1>6 DEF AskedRight

LEMMA undoLastHistory ==
  ASSUME HistoryInv, undoLast
  PROVE  BornRight' /\ AskedRight'
  <1>1. /\ mode = "undo" /\ UNCHANGED <<mode, undo, assigns, slot, born, trailpos, asked>>
        /\ Inv /\ top = undo.pos /\ undo.pos \in Nat
    BY DEF undoLast, top, HistoryInv, Inv, TypeOK
  <1>2. \A x \in assigns : slot[x].level > 0 =>
          StoreOf(trail', mem', trailpos[x]) = StoreOf(trail, mem, trailpos[x])
    BY <1>1, LiteralFacts, undoLastKeeps
  <1>3. StoreOf(trail', mem', undo.pos) = StoreOf(trail, mem, undo.pos)
    BY <1>1, undoLastKeeps
  <1>4. BornRight'
    BY <1>1, <1>2, BornKept DEF HistoryInv
  <1> QED
    BY <1>1, <1>3, <1>4 DEF AskedRight, HistoryInv

LEMMA undoDoneHistory ==
  ASSUME HistoryInv, undoDone
  PROVE  BornRight' /\ AskedRight'
  <1>1. /\ mode = "undo" /\ mode' = undo.then /\ undo.then # "undo"
        /\ UNCHANGED <<trail, mem, assigns, slot, born, trailpos, asked>>
        /\ Inv /\ Len(trail) <= undo.pos /\ undo.pos \in Nat
    BY DEF undoDone, HistoryInv, Inv, TypeOK
  <1>2. StoreOf(trail, mem, undo.pos) = mem
    BY <1>1, PresentType, StoreOfNothing
  <1>3. BornRight'
    BY <1>1, BornKept DEF HistoryInv
  <1> QED
    BY <1>1, <1>2, <1>3 DEF AskedRight, HistoryInv, Present

LEMMA topLevelCleanUpHistory ==
  ASSUME HistoryInv, topLevelCleanUp
  PROVE  BornRight' /\ AskedRight'
  <1>1. mode' = "search" /\ assigns' = assigns /\ Inv /\ liveLevels = 0
    BY DEF topLevelCleanUp, HistoryInv, liveLevels, decisionLevel
  <1>2. \A x \in assigns : slot'[x].level = 0
    BY <1>1, LiteralFacts DEF topLevelCleanUp, Nowhere
  <1> QED
    BY <1>1, <1>2 DEF BornRight, AskedRight

LEMMA NextHistory == HistoryInv /\ [Next]_vars => HistoryInv'
  <1> SUFFICES ASSUME HistoryInv, [Next]_vars PROVE HistoryInv'
    OBVIOUS
  <1>1. Inv'
    BY NextInv DEF HistoryInv
  <1>2. CASE UNCHANGED vars
    BY <1>1, <1>2 DEF HistoryInv, BornRight, AskedRight, Before, Present, vars
  <1>3. CASE Next
    BY <1>1, <1>3, AssignHistory, EnqueueHistory, newDecisionLevelHistory, btToLevelHistory,
       explainHistory, undoLastHistory, undoDoneHistory, topLevelCleanUpHistory DEF Next, HistoryInv
  <1> QED
    BY <1>2, <1>3

(* Whatever was written, undone and asked for before, an explanation that is *)
(* computed late sees the trailed data and the assigned literals its literal *)
(* saw when it was enqueued (SAT::getExpl, SAT::btToPos, Engine::btToPos).   *)
THEOREM ExplanationsInTime == Spec => []ExplainedInItsTime
  <1>1. HistoryInv => ExplainedInItsTime
    BY DEF HistoryInv, AskedRight, ExplainedInItsTime
  <1> QED
    BY <1>1, InitHistory, NextHistory, PTL DEF Spec

=============================================================================
