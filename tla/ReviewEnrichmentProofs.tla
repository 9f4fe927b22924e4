------------------------ MODULE ReviewEnrichmentProofs ------------------------
(***************************************************************************)
(* Proofs about ReviewEnrichment, for any finite set of reviews, any       *)
(* passes, any batch size and any number of batches.                       *)
(***************************************************************************)
EXTENDS ReviewEnrichment, FiniteSetTheorems, WellFoundedInduction, TLAPS

USE DEF rest

-----------------------------------------------------------------------------
Moves(t) == Open(t) \/ Step(t) \/ Dies(t)

Ending(t) == \E o \in Outcomes, a \in Nat, r \in Int : End(t, o, a, r)

\* A step of one pass leaves the others alone.
Alone(t) ==
  \A x \in Tasks \ {t} :
    /\ pc'[x] = pc[x] /\ held'[x] = held[x] /\ locked'[x] = locked[x]
    /\ loc'[x] = loc[x] /\ result'[x] = result[x]

LEMMA NoLocType == NoLoc \in Locs
<1>1. 0 \in 0 .. MaxBatches
  BY BatchAssumption
<1> QED BY <1>1 DEF NoLoc, Locs

\* How a pass ends: it gives up what it has not committed.
LEMMA EndEffect ==
  ASSUME TypeOK, NEW t \in Tasks,
         NEW o \in Outcomes, NEW a \in Nat, NEW r \in Int, End(t, o, a, r)
  PROVE /\ pc' \in [Tasks -> Points] /\ pc'[t] = "ended"
        /\ held' \in [Tasks -> SUBSET Reviews] /\ held'[t] = {}
        /\ locked' \in [Tasks -> SUBSET Generations] /\ locked'[t] = {}
        /\ loc' \in [Tasks -> Locs] /\ loc'[t].due = {}
        /\ loc'[t].seen = IF o = "covered" THEN loc[t].seen ELSE {}
        /\ result' \in [Tasks -> [outcome : Outcomes, analysed : Nat, remaining : Int]]
        /\ result'[t].outcome = o /\ result'[t].analysed = a
        /\ Alone(t)
<1> DEFINE l == [NoLoc EXCEPT !.seen = IF o = "covered" THEN loc[t].seen ELSE {}]
           v == [outcome |-> o, analysed |-> a, remaining |-> r]
<1>1. loc[t].seen \in SUBSET Reviews
  BY DEF TypeOK, Locs
<1>2. l \in Locs /\ l.due = {} /\ l.seen = IF o = "covered" THEN loc[t].seen ELSE {}
  BY <1>1, NoLocType DEF Locs, NoLoc
<1>3. v \in [outcome : Outcomes, analysed : Nat, remaining : Int]
      /\ v.outcome = o /\ v.analysed = a
  OBVIOUS
<1>4. /\ pc' = [pc EXCEPT ![t] = "ended"]
      /\ result' = [result EXCEPT ![t] = v]
      /\ held' = [held EXCEPT ![t] = {}]
      /\ locked' = [locked EXCEPT ![t] = {}]
      /\ loc' = [loc EXCEPT ![t] = l]
  BY DEF End, Goto
<1> HIDE DEF l, v
<1>5. "ended" \in Points
  BY DEF Points
<1>6. /\ pc' \in [Tasks -> Points] /\ pc'[t] = "ended"
      /\ held' \in [Tasks -> SUBSET Reviews] /\ held'[t] = {}
      /\ locked' \in [Tasks -> SUBSET Generations] /\ locked'[t] = {}
  BY <1>4, <1>5 DEF TypeOK
<1>7. loc' \in [Tasks -> Locs] /\ loc'[t] = l
  BY <1>2, <1>4 DEF TypeOK
<1>8. result' \in [Tasks -> [outcome : Outcomes, analysed : Nat, remaining : Int]]
      /\ result'[t] = v
  BY <1>3, <1>4 DEF TypeOK
<1>9. Alone(t)
  BY <1>4 DEF Alone, TypeOK
<1> QED BY <1>2, <1>3, <1>6, <1>7, <1>8, <1>9

LEMMA Sizes ==
  ASSUME TypeOK
  PROVE /\ IsFiniteSet(stored) /\ Cardinality(stored) \in Nat
        /\ IsFiniteSet(Derived) /\ Cardinality(Derived) \in Nat
        /\ Pending \subseteq stored \ Derived
        /\ \A S : S \subseteq stored => IsFiniteSet(S) /\ Cardinality(S) \in Nat
<1>1. IsFiniteSet(stored)
  BY ReviewsAssumption, FS_Subset DEF TypeOK
<1>2. \A S : S \subseteq stored => IsFiniteSet(S) /\ Cardinality(S) \in Nat
  BY <1>1, FS_Subset, FS_CardinalityType
<1>3. Derived \subseteq stored
  BY DEF TypeOK
<1>4. Pending \subseteq stored \ Derived
  BY DEF Pending
<1> QED BY <1>1, <1>2, <1>3, <1>4

-----------------------------------------------------------------------------
(* Types. *)

\* What the types rest on: an idle pass has fresh locals, a pass about to load
\* has a batch left, and what it has inserted is of its batch, of stored reviews.
Local(t) ==
  /\ pc[t] = "idle" => loc[t] = NoLoc
  /\ pc[t] \in {"count", "load"} => loc[t].batches < MaxBatches
  /\ held[t] # {} => pc[t] = "insert"
  /\ held[t] \subseteq loc[t].due
  /\ loc[t].due \subseteq stored

TypeInv == TypeOK /\ \A t \in Tasks : Local(t)

LEMMA LocalElsewhere ==
  ASSUME TypeInv, NEW t \in Tasks, Alone(t), stored \subseteq stored',
         NEW x \in Tasks, x # t
  PROVE Local(x)'
  BY DEF TypeInv, Local, Alone

LEMMA TypeInit == Init => TypeInv
<1> SUFFICES ASSUME Init PROVE TypeInv
  OBVIOUS
<1>1. loc \in [Tasks -> Locs]
  BY NoLocType DEF Init
<1>2. result \in [Tasks -> [outcome : Outcomes, analysed : Nat, remaining : Int]]
  BY DEF Init, NoResult, Outcomes
<1>3. pc \in [Tasks -> Points]
  BY DEF Init, Points
<1>4. author \in [Derived -> Tasks] /\ Derived = {}
  BY DEF Init, Derived
<1>5. TypeOK
  BY <1>1, <1>2, <1>3, <1>4 DEF Init, TypeOK
<1>6. ASSUME NEW t \in Tasks PROVE Local(t)
  BY BatchAssumption DEF Init, Local, NoLoc
<1> QED BY <1>5, <1>6 DEF TypeInv

\* The steps that end a pass.
LEMMA EndingType ==
  ASSUME TypeInv, NEW t \in Tasks, Ending(t),
         UNCHANGED <<kind, stored, late, author>>, topics' \subseteq Generations,
         overlap' \in [Tasks -> BOOLEAN]
  PROVE TypeInv'
<1>1. PICK o \in Outcomes, a \in Nat, r \in Int : End(t, o, a, r)
  BY DEF Ending
<1>2. TypeOK
  BY DEF TypeInv
<1> DEFINE after == /\ pc' \in [Tasks -> Points] /\ pc'[t] = "ended"
                    /\ held' \in [Tasks -> SUBSET Reviews] /\ held'[t] = {}
                    /\ locked' \in [Tasks -> SUBSET Generations]
                    /\ loc' \in [Tasks -> Locs] /\ loc'[t].due = {}
                    /\ result' \in [Tasks -> [outcome : Outcomes, analysed : Nat,
                                              remaining : Int]]
                    /\ Alone(t)
<1>3. after
  BY <1>1, <1>2, EndEffect
<1>4. TypeOK'
  BY <1>2, <1>3 DEF TypeOK, Derived
<1>5. Local(t)'
  BY <1>3 DEF Local
<1>6. ASSUME NEW x \in Tasks, x # t PROVE Local(x)'
  BY <1>3, <1>6, LocalElsewhere
<1> QED BY <1>4, <1>5, <1>6 DEF TypeInv

LEMMA Ends ==
  ASSUME TypeInv, NEW t \in Tasks,
         \/ QueryFails(t) \/ Conflict(t) \/ After(t) \/ Publish(t) \/ Dies(t)
  PROVE /\ Ending(t) /\ UNCHANGED <<kind, stored, late, author>>
        /\ topics' \subseteq Generations /\ overlap' = overlap
<1>1. /\ loc[t].analysed \in Nat /\ loc[t].total \in Nat /\ loc[t].before \in Nat
      /\ loc[t].due \subseteq stored /\ loc[t].upto \subseteq Reviews
      /\ result[t].outcome \in Outcomes /\ result[t].remaining \in Int
  BY DEF TypeInv, TypeOK, Local, Locs
<1>2. Cardinality(loc[t].due) \in Nat
  BY <1>1, Sizes DEF TypeInv
<1>3. /\ topics \subseteq Generations
      /\ \A o \in {"error", "raised", "died", "misread", "empty", "covered"} : o \in Outcomes
  BY DEF TypeInv, TypeOK, Outcomes
<1>4. CASE QueryFails(t)
  BY <1>1, <1>3, <1>4 DEF QueryFails, Ending
<1>5. CASE Conflict(t)
  <2>1. (IF loc[t].total > loc[t].before THEN loc[t].total - loc[t].before ELSE 0) \in Int
    BY <1>1
  <2> QED BY <1>1, <1>3, <1>5, <2>1 DEF Conflict, Ending
<1>6. CASE After(t)
  <2>1. PICK failed \in BOOLEAN :
          LET gap == t \in Stages /\ loc[t].corpus > 0
          IN End(t, IF gap /\ failed THEN "misread"
                    ELSE IF gap /\ Derived = {} THEN "empty"
                    ELSE result[t].outcome,
                 loc[t].analysed, result[t].remaining)
    BY <1>6 DEF After
  <2> QED BY <1>1, <1>3, <1>6, <2>1 DEF After, Ending
<1>7. CASE Publish(t)
  <2>1. (IF loc[t].upto = {} THEN {} ELSE {[by |-> t, upto |-> loc[t].upto]})
          \subseteq Generations
    BY <1>1 DEF Generations
  <2>2. topics' \subseteq Generations
    BY <1>3, <1>7, <2>1 DEF Publish
  <2> QED BY <1>2, <1>3, <1>7, <2>2 DEF Publish, Ending
<1>8. CASE Dies(t)
  BY <1>3, <1>8 DEF Dies, Ending
<1> QED BY <1>4, <1>5, <1>6, <1>7, <1>8

\* The steps that change a pass's locals.
LEMMA LocPut ==
  ASSUME TypeOK, NEW t \in Tasks, NEW l \in Locs, loc' = [loc EXCEPT ![t] = l]
  PROVE /\ loc' \in [Tasks -> Locs] /\ loc'[t] = l
        /\ \A x \in Tasks \ {t} : loc'[x] = loc[x]
  BY DEF TypeOK

LEMMA PcPut ==
  ASSUME TypeOK, NEW t \in Tasks, NEW p \in Points, Goto(t, p)
  PROVE /\ pc' \in [Tasks -> Points] /\ pc'[t] = p
        /\ \A x \in Tasks \ {t} : pc'[x] = pc[x]
  BY DEF TypeOK, Goto

LEMMA Rewritten ==
  ASSUME TypeInv, NEW t \in Tasks, NEW l \in Locs, NEW p \in Points,
         loc' = [loc EXCEPT ![t] = l], Goto(t, p),
         UNCHANGED <<kind, stored, late, author, held, result>>,
         topics' = topics, locked' \in [Tasks -> SUBSET Generations],
         \A x \in Tasks \ {t} : locked'[x] = locked[x],
         overlap' \in [Tasks -> BOOLEAN],
         p = "idle" => l = NoLoc, p \in {"count", "load"} => l.batches < MaxBatches,
         held[t] = {}, l.due \subseteq stored
  PROVE TypeInv'
<1>1. /\ loc' \in [Tasks -> Locs] /\ loc'[t] = l
      /\ \A x \in Tasks \ {t} : loc'[x] = loc[x]
      /\ pc' \in [Tasks -> Points] /\ pc'[t] = p
      /\ \A x \in Tasks \ {t} : pc'[x] = pc[x]
  BY LocPut, PcPut DEF TypeInv
<1>2. TypeOK'
  BY <1>1 DEF TypeInv, TypeOK, Derived
<1>3. Local(t)'
  BY <1>1 DEF Local
<1>4. ASSUME NEW x \in Tasks, x # t PROVE Local(x)'
  BY <1>1, <1>4, LocalElsewhere DEF Alone
<1> QED BY <1>2, <1>3, <1>4 DEF TypeInv

\* The locals after each of these steps.
LEMMA OpenEffect ==
  ASSUME TypeInv, NEW t \in Tasks, Open(t)
  PROVE /\ loc' = loc /\ loc[t] = NoLoc /\ pc[t] = "idle"
        /\ pc'[t] = IF kind = "metadata" THEN "count" ELSE "load"
  BY DEF Open, Goto, TypeInv, TypeOK, Local

LEMMA CountTablesEffect ==
  ASSUME TypeInv, NEW t \in Tasks, CountTables(t)
  PROVE /\ pc[t] = "count" /\ pc'[t] = "load"
        /\ \E count \in {0, Cardinality(stored)} :
             LET l == [loc[t] EXCEPT !.corpus = count]
             IN  l \in Locs /\ loc' = [loc EXCEPT ![t] = l]
<1>1. Cardinality(stored) \in Nat /\ loc[t] \in Locs
  BY Sizes DEF TypeInv, TypeOK
<1>2. PICK count \in {0, Cardinality(stored)} :
        loc' = [loc EXCEPT ![t].corpus = IF t \in Stages THEN count ELSE 0]
  BY DEF CountTables
<1> DEFINE n == IF t \in Stages THEN count ELSE 0
<1>3. n \in {0, Cardinality(stored)} /\ n \in Nat
  BY <1>1
<1>4. loc' = [loc EXCEPT ![t].corpus = n]
  BY <1>2
<1> HIDE DEF n
<1>5. [loc[t] EXCEPT !.corpus = n] \in Locs
  BY <1>1, <1>3 DEF Locs
<1>6. loc' = [loc EXCEPT ![t] = [loc[t] EXCEPT !.corpus = n]]
  BY <1>4 DEF TypeInv, TypeOK
<1>7. pc[t] = "count" /\ pc'[t] = "load"
  BY DEF CountTables, Goto, TypeInv, TypeOK
<1> QED BY <1>3, <1>5, <1>6, <1>7

LEMMA AirlinesEffect ==
  ASSUME TypeInv, NEW t \in Tasks, Airlines(t)
  PROVE /\ pc[t] = "airlines"
        /\ \E list \in SUBSET Subjects :
             LET l == [loc[t] EXCEPT !.unread = list]
             IN  /\ {Subject[r] : r \in stored} \subseteq list
                 /\ l \in Locs /\ loc' = [loc EXCEPT ![t] = l]
                 /\ pc'[t] = IF list = {} THEN "publish" ELSE "label"
<1>1. PICK list \in SUBSET Subjects :
        /\ {Subject[r] : r \in stored} \subseteq list
        /\ loc' = [loc EXCEPT ![t].unread = list]
        /\ Goto(t, IF list = {} THEN "publish" ELSE "label")
  BY DEF Airlines
<1>2. loc[t] \in Locs
  BY DEF TypeInv, TypeOK
<1>3. [loc[t] EXCEPT !.unread = list] \in Locs
  BY <1>2 DEF Locs
<1>4. loc' = [loc EXCEPT ![t] = [loc[t] EXCEPT !.unread = list]]
  BY <1>1 DEF TypeInv, TypeOK
<1>5. pc[t] = "airlines" /\ pc'[t] = IF list = {} THEN "publish" ELSE "label"
  BY <1>1 DEF Airlines, Goto, TypeInv, TypeOK
<1> QED BY <1>1, <1>3, <1>4, <1>5

LEMMA LabelEffect ==
  ASSUME TypeInv, NEW t \in Tasks, Label(t)
  PROVE /\ pc[t] = "label"
        /\ \E s \in loc[t].unread :
             LET l == [loc[t] EXCEPT !.unread = @ \ {s},
                                     !.upto = @ \cup {r \in Derived : Subject[r] = s}]
             IN  /\ l \in Locs /\ loc' = [loc EXCEPT ![t] = l]
                 /\ pc'[t] = IF loc[t].unread = {s} THEN "publish" ELSE "label"
<1>1. PICK s \in loc[t].unread :
        /\ loc' = [loc EXCEPT ![t].unread = @ \ {s},
                              ![t].upto = @ \cup {r \in Derived : Subject[r] = s}]
        /\ Goto(t, IF loc[t].unread = {s} THEN "publish" ELSE "label")
  BY DEF Label
<1> DEFINE l == [loc[t] EXCEPT !.unread = @ \ {s},
                               !.upto = @ \cup {r \in Derived : Subject[r] = s}]
<1>2. loc[t] \in Locs /\ Derived \subseteq Reviews
  BY DEF TypeInv, TypeOK
<1>3. l \in Locs
  BY <1>2 DEF Locs
<1>4. loc' = [loc EXCEPT ![t] = l]
  BY <1>1 DEF TypeInv, TypeOK
<1>5. /\ pc[t] = "label"
      /\ pc'[t] = IF loc[t].unread = {s} THEN "publish" ELSE "label"
  BY <1>1 DEF Label, Goto, TypeInv, TypeOK
<1> QED BY <1>3, <1>4, <1>5

\* The reads leave the batch and its counts alone.
LEMMA ReadEffect ==
  ASSUME TypeInv, NEW t \in Tasks, CountTables(t) \/ Airlines(t) \/ Label(t)
  PROVE \E l \in Locs :
          /\ loc' = [loc EXCEPT ![t] = l] /\ loc'[t] = l
          /\ l.due = loc[t].due /\ l.seen = loc[t].seen /\ l.batches = loc[t].batches
          /\ l.analysed = loc[t].analysed /\ l.total = loc[t].total
          /\ l.before = loc[t].before /\ l.snap = loc[t].snap
<1>1. loc[t] \in Locs
  BY DEF TypeInv, TypeOK
<1> DEFINE Kept(l) == /\ l.due = loc[t].due /\ l.seen = loc[t].seen
                      /\ l.batches = loc[t].batches /\ l.analysed = loc[t].analysed
                      /\ l.total = loc[t].total /\ l.before = loc[t].before
                      /\ l.snap = loc[t].snap
<1>2. \E l \in Locs : loc' = [loc EXCEPT ![t] = l] /\ Kept(l)
  <2>1. CASE CountTables(t)
    <3>1. PICK count \in {0, Cardinality(stored)} :
            LET l == [loc[t] EXCEPT !.corpus = count]
            IN  l \in Locs /\ loc' = [loc EXCEPT ![t] = l]
      BY <2>1, CountTablesEffect
    <3>2. Kept([loc[t] EXCEPT !.corpus = count])
      BY <1>1 DEF Locs
    <3> QED BY <3>1, <3>2
  <2>2. CASE Airlines(t)
    <3>1. PICK list \in SUBSET Subjects :
            LET l == [loc[t] EXCEPT !.unread = list]
            IN  l \in Locs /\ loc' = [loc EXCEPT ![t] = l]
      BY <2>2, AirlinesEffect
    <3>2. Kept([loc[t] EXCEPT !.unread = list])
      BY <1>1 DEF Locs
    <3> QED BY <3>1, <3>2
  <2>3. CASE Label(t)
    <3>1. PICK s \in loc[t].unread :
            LET l == [loc[t] EXCEPT !.unread = @ \ {s},
                                    !.upto = @ \cup {r \in Derived : Subject[r] = s}]
            IN  l \in Locs /\ loc' = [loc EXCEPT ![t] = l]
      BY <2>3, LabelEffect
    <3>2. Kept([loc[t] EXCEPT !.unread = @ \ {s},
                              !.upto = @ \cup {r \in Derived : Subject[r] = s}])
      BY <1>1 DEF Locs
    <3> QED BY <3>1, <3>2
  <2> QED BY <2>1, <2>2, <2>3
<1>3. PICK l \in Locs : loc' = [loc EXCEPT ![t] = l] /\ Kept(l)
  BY <1>2
<1>4. loc'[t] = l
  BY <1>3, LocPut DEF TypeInv
<1> QED BY <1>3, <1>4

LEMMA LoadEffect ==
  ASSUME TypeInv, NEW t \in Tasks, Load(t)
  PROVE \E l \in Locs :
          /\ loc' = [loc EXCEPT ![t] = l]
          /\ l = [loc[t] EXCEPT !.due = Pending, !.seen = stored, !.batches = @ + 1]
<1> DEFINE l == [loc[t] EXCEPT !.due = Pending, !.seen = stored, !.batches = @ + 1]
<1>1. Pending \subseteq stored /\ stored \subseteq Reviews
  BY Sizes DEF TypeInv, TypeOK
<1>2. loc[t] \in Locs /\ loc[t].batches + 1 \in 0 .. MaxBatches
  BY BatchAssumption DEF TypeInv, TypeOK, Local, Locs, Load
<1>3. l \in Locs
  BY <1>1, <1>2 DEF Locs
<1>4. loc' = [loc EXCEPT ![t] = l]
  BY DEF Load, TypeInv, TypeOK
<1> QED BY <1>3, <1>4

LEMMA CountEffect ==
  ASSUME TypeInv, NEW t \in Tasks
  PROVE /\ CountReviews(t) =>
             LET l == [loc[t] EXCEPT !.total = Cardinality(stored)]
             IN  l \in Locs /\ loc' = [loc EXCEPT ![t] = l]
        /\ CountBefore(t) =>
             LET l == [loc[t] EXCEPT !.before = Cardinality(Derived)]
             IN  l \in Locs /\ loc' = [loc EXCEPT ![t] = l]
        /\ StartRefresh(t) =>
             LET l == [loc[t] EXCEPT !.snap = topics]
             IN  l \in Locs /\ loc' = [loc EXCEPT ![t] = l]
<1>1. /\ Cardinality(stored) \in Nat /\ Cardinality(Derived) \in Nat
      /\ topics \subseteq Generations /\ loc[t] \in Locs
  BY Sizes DEF TypeInv, TypeOK
<1>2. /\ [loc[t] EXCEPT !.total = Cardinality(stored)] \in Locs
      /\ [loc[t] EXCEPT !.before = Cardinality(Derived)] \in Locs
      /\ [loc[t] EXCEPT !.snap = topics] \in Locs
  BY <1>1 DEF Locs
<1> QED BY <1>1, <1>2 DEF CountReviews, CountBefore, StartRefresh, TypeInv, TypeOK

LEMMA RewritesType ==
  ASSUME TypeInv, NEW t \in Tasks,
         \/ Open(t) \/ CountTables(t) \/ Load(t) \/ CountReviews(t) \/ CountBefore(t)
         \/ StartRefresh(t) \/ Airlines(t) \/ Label(t)
  PROVE TypeInv'
<1>1. /\ held[t] = {} /\ loc[t].due \subseteq stored
      /\ loc[t] \in Locs /\ topics \subseteq Generations
      /\ locked \in [Tasks -> SUBSET Generations] /\ overlap \in [Tasks -> BOOLEAN]
  BY DEF TypeInv, TypeOK, Local, Open, CountTables, Load, CountReviews, CountBefore,
         StartRefresh, Airlines, Label
<1>2. \A p \in {"count", "load", "total", "insert", "before", "delete", "label", "publish"} :
        p \in Points
  BY DEF Points
<1>3. CASE Open(t)
  <2>1. /\ loc[t] = NoLoc /\ loc' = loc
        /\ Goto(t, IF kind = "metadata" THEN "count" ELSE "load")
    BY <1>3, OpenEffect DEF Open
  <2>2. loc' = [loc EXCEPT ![t] = loc[t]] /\ loc[t].batches < MaxBatches
    BY <2>1, BatchAssumption DEF TypeInv, TypeOK, NoLoc
  <2>3. (IF kind = "metadata" THEN "count" ELSE "load") \in {"count", "load"}
    OBVIOUS
  <2> QED BY <1>1, <1>2, <1>3, <2>1, <2>2, <2>3, Rewritten DEF Open
<1>4. CASE Load(t)
  <2>1. PICK l \in Locs : loc' = [loc EXCEPT ![t] = l] /\ l.due = Pending
    BY <1>1, <1>4, LoadEffect DEF Locs
  <2>2. Pending \subseteq stored
    BY Sizes DEF TypeInv
  <2> QED BY <1>1, <1>2, <1>4, <2>1, <2>2, Rewritten DEF Load
<1>5. CASE CountReviews(t)
  <2> DEFINE l == [loc[t] EXCEPT !.total = Cardinality(stored)]
  <2>1. l \in Locs /\ loc' = [loc EXCEPT ![t] = l]
    BY <1>5, CountEffect
  <2>2. l.due = loc[t].due
    BY <1>1 DEF Locs
  <2> HIDE DEF l
  <2> QED BY <1>1, <1>2, <1>5, <2>1, <2>2, Rewritten DEF CountReviews
<1>6. CASE CountBefore(t)
  <2> DEFINE l == [loc[t] EXCEPT !.before = Cardinality(Derived)]
  <2>1. l \in Locs /\ loc' = [loc EXCEPT ![t] = l]
    BY <1>6, CountEffect
  <2>2. l.due = loc[t].due
    BY <1>1 DEF Locs
  <2> HIDE DEF l
  <2> QED BY <1>1, <1>2, <1>6, <2>1, <2>2, Rewritten DEF CountBefore
<1>7. CASE StartRefresh(t)
  <2> DEFINE l == [loc[t] EXCEPT !.snap = topics]
  <2>1. l \in Locs /\ loc' = [loc EXCEPT ![t] = l]
    BY <1>7, CountEffect
  <2>2. l.due = loc[t].due
    BY <1>1 DEF Locs
  <2>3. overlap' \in [Tasks -> BOOLEAN]
    BY <1>1, <1>7, Zenon DEF StartRefresh, Refreshing
  <2> HIDE DEF l
  <2> QED BY <1>1, <1>2, <1>7, <2>1, <2>2, <2>3, Rewritten DEF StartRefresh
<1>8. CASE CountTables(t) \/ Airlines(t) \/ Label(t)
  <2>1. PICK l \in Locs : /\ loc' = [loc EXCEPT ![t] = l] /\ l.due = loc[t].due
                          /\ l.batches = loc[t].batches
    BY <1>8, ReadEffect
  <2>2. CountTables(t) => Goto(t, "load") /\ l.batches < MaxBatches
    BY <2>1 DEF CountTables, TypeInv, Local
  <2>3. Airlines(t) \/ Label(t) => \E p \in {"label", "publish"} : Goto(t, p)
    BY DEF Airlines, Label
  <2>4. PICK p \in {"load", "label", "publish"} :
          Goto(t, p) /\ (p = "load" => l.batches < MaxBatches)
    BY <1>8, <2>2, <2>3
  <2>5. /\ UNCHANGED <<kind, stored, late, author, held, result>>
        /\ UNCHANGED <<topics, locked, overlap>>
    BY <1>8 DEF CountTables, Airlines, Label
  <2> QED BY <1>1, <1>2, <2>1, <2>4, <2>5, Rewritten
<1> QED BY <1>3, <1>4, <1>5, <1>6, <1>7, <1>8

LEMMA DeleteType ==
  ASSUME TypeInv, NEW t \in Tasks, Delete(t)
  PROVE TypeInv'
<1>1. loc[t].snap \cap topics \subseteq Generations
  BY DEF TypeInv, TypeOK
<1>2. locked' \in [Tasks -> SUBSET Generations]
      /\ \A x \in Tasks \ {t} : locked'[x] = locked[x]
  BY <1>1 DEF Delete, TypeInv, TypeOK
<1>3. "airlines" \in Points
  BY DEF Points
<1>4. /\ pc' \in [Tasks -> Points] /\ pc'[t] = "airlines"
      /\ \A x \in Tasks \ {t} : pc'[x] = pc[x]
  BY <1>3, PcPut DEF Delete, TypeInv
<1>5. TypeOK'
  BY <1>2, <1>4 DEF Delete, TypeInv, TypeOK, Derived
<1>6. held[t] = {} /\ Local(t)'
  BY <1>4 DEF Delete, TypeInv, Local
<1>7. ASSUME NEW x \in Tasks, x # t PROVE Local(x)'
  BY <1>2, <1>4, <1>7, LocalElsewhere DEF Alone, Delete
<1> QED BY <1>5, <1>6, <1>7 DEF TypeInv

\* A row is inserted: the oldest of the batch that is not there yet.
LEMMA InsertEffect ==
  ASSUME TypeInv, NEW t \in Tasks, Insert(t)
  PROVE \E r \in loc[t].due :
          /\ r \notin Derived /\ \A x \in Tasks : r \notin held[x]
          /\ held' \in [Tasks -> SUBSET Reviews]
          /\ held'[t] = held[t] \cup {r}
          /\ \A x \in Tasks \ {t} : held'[x] = held[x]
<1>1. PICK r \in NextRow(t) :
        /\ r \notin Derived
        /\ \A x \in Tasks \ {t} : r \notin held[x]
        /\ held' = [held EXCEPT ![t] = @ \cup {r}]
  BY DEF Insert
<1>2. r \in loc[t].due \ held[t] /\ r \in Reviews
  BY <1>1 DEF NextRow, TypeInv, TypeOK, Local
<1> QED BY <1>1, <1>2 DEF TypeInv, TypeOK

LEMMA InsertType ==
  ASSUME TypeInv, NEW t \in Tasks, Insert(t)
  PROVE TypeInv'
<1>1. PICK r \in loc[t].due :
        /\ held' \in [Tasks -> SUBSET Reviews] /\ held'[t] = held[t] \cup {r}
        /\ \A x \in Tasks \ {t} : held'[x] = held[x]
  BY InsertEffect
<1>2. TypeOK'
  BY <1>1 DEF Insert, TypeInv, TypeOK, Derived, rest
<1>3. Local(t)'
  BY <1>1 DEF Insert, TypeInv, Local
<1>4. ASSUME NEW x \in Tasks, x # t PROVE Local(x)'
  BY <1>1, <1>4, LocalElsewhere DEF Alone, Insert, rest
<1> QED BY <1>2, <1>3, <1>4 DEF TypeInv

\* A batch is committed: its rows become the pass's.
LEMMA CommitEffect ==
  ASSUME TypeInv, NEW t \in Tasks, Commit(t)
  PROVE /\ Derived' = Derived \cup loc[t].due
        /\ author' \in [Derived' -> Tasks]
        /\ \A r \in Derived' : author'[r] = IF r \in loc[t].due THEN t ELSE author[r]
        /\ held' \in [Tasks -> SUBSET Reviews] /\ held'[t] = {}
        /\ \A x \in Tasks \ {t} : held'[x] = held[x]
        /\ pc' \in [Tasks -> Points]
        /\ pc'[t] = IF kind = "metadata" THEN "recount" ELSE "refresh"
        /\ \A x \in Tasks \ {t} : pc'[x] = pc[x]
<1>1. held[t] = loc[t].due
  BY DEF Commit
<1>2. author' = [r \in Derived \cup loc[t].due |->
                   IF r \in loc[t].due THEN t ELSE author[r]]
  BY <1>1 DEF Commit
<1>3. Derived' = Derived \cup loc[t].due
  BY <1>2 DEF Derived
<1>4. \A r \in Derived : author[r] \in Tasks
  BY DEF TypeInv, TypeOK
<1>5. /\ author' \in [Derived' -> Tasks]
      /\ \A r \in Derived' : author'[r] = IF r \in loc[t].due THEN t ELSE author[r]
  BY <1>2, <1>3, <1>4
<1>6. /\ held' \in [Tasks -> SUBSET Reviews] /\ held'[t] = {}
      /\ \A x \in Tasks \ {t} : held'[x] = held[x]
  BY DEF Commit, TypeInv, TypeOK
<1>7. (IF kind = "metadata" THEN "recount" ELSE "refresh") \in Points
  BY DEF Points
<1>8. /\ pc' \in [Tasks -> Points]
      /\ pc'[t] = IF kind = "metadata" THEN "recount" ELSE "refresh"
      /\ \A x \in Tasks \ {t} : pc'[x] = pc[x]
  BY <1>7, PcPut DEF Commit, TypeInv
<1> QED BY <1>3, <1>5, <1>6, <1>8

LEMMA CommitType ==
  ASSUME TypeInv, NEW t \in Tasks, Commit(t)
  PROVE TypeInv'
<1> DEFINE after == /\ held' \in [Tasks -> SUBSET Reviews] /\ held'[t] = {}
                    /\ \A x \in Tasks \ {t} : held'[x] = held[x]
                    /\ pc' \in [Tasks -> Points]
                    /\ pc'[t] \in {"recount", "refresh"}
                    /\ \A x \in Tasks \ {t} : pc'[x] = pc[x]
<1>1. after
  BY CommitEffect
<1>2. author' \in [Derived' -> Tasks] /\ Derived' \subseteq stored
  BY CommitEffect DEF TypeInv, TypeOK, Local
<1>3. TypeOK'
  BY <1>1, <1>2 DEF Commit, TypeInv, TypeOK, rest
<1>4. Local(t)'
  BY <1>1 DEF Commit, TypeInv, Local
<1>5. ASSUME NEW x \in Tasks, x # t PROVE Local(x)'
  BY <1>1, <1>5, LocalElsewhere DEF Alone, Commit, rest
<1> QED BY <1>3, <1>4, <1>5 DEF TypeInv

\* The count after a batch: an alarm, or the batch is added up and the loop
\* goes on or stops.
Remaining(t) ==
  LET rows == Cardinality(Derived)
  IN  IF loc[t].total > rows THEN loc[t].total - rows ELSE 0
Alarmed(t) ==
  Cardinality(loc[t].due) > 0 /\ Cardinality(Derived) <= loc[t].before
Counted(t) ==
  [loc[t] EXCEPT !.analysed = @ + Cardinality(loc[t].due),
                 !.due = {}, !.total = 0, !.before = 0]

LEMMA RecountEffect ==
  ASSUME TypeInv, NEW t \in Tasks, Recount(t)
  PROVE \/ Alarmed(t) /\ End(t, "invisible", loc[t].analysed, Remaining(t))
        \/ /\ ~Alarmed(t)
           /\ loc' = [loc EXCEPT ![t] = Counted(t)] /\ Counted(t) \in Locs
           /\ UNCHANGED <<held, locked>>
           /\ result' \in [Tasks -> [outcome : Outcomes, analysed : Nat, remaining : Int]]
           /\ \A x \in Tasks \ {t} : result'[x] = result[x]
           /\ \/ /\ Stops(t, Cardinality(loc[t].due), Remaining(t))
                 /\ result'[t].outcome = "covered" /\ Goto(t, "after")
              \/ /\ ~Stops(t, Cardinality(loc[t].due), Remaining(t)) /\ LastBatch(t)
                 /\ result'[t].outcome = "capped" /\ Goto(t, "after")
              \/ /\ ~Stops(t, Cardinality(loc[t].due), Remaining(t)) /\ ~LastBatch(t)
                 /\ result' = result /\ Goto(t, "load")
<1> DEFINE created == Cardinality(loc[t].due)
<1>1. loc[t] \in Locs /\ loc[t].due \subseteq stored
  BY DEF TypeInv, TypeOK, Local
<1>2. created \in Nat /\ Cardinality(Derived) \in Nat
  BY <1>1, Sizes DEF TypeInv
<1>3. Remaining(t) \in Int
  BY <1>1, <1>2 DEF Remaining, Locs
<1>4. Counted(t) \in Locs
  <2>1. loc[t].analysed + created \in Nat
    BY <1>1, <1>2 DEF Locs
  <2> HIDE DEF created
  <2>2. [loc[t] EXCEPT !.analysed = @ + created,
                       !.due = {}, !.total = 0, !.before = 0] \in Locs
    BY <1>1, <2>1 DEF Locs
  <2> USE DEF created
  <2> QED BY <2>2 DEF Counted
<1>5. CASE Alarmed(t)
  BY <1>5, <1>2 DEF Recount, Alarmed, Remaining
<1>6. CASE ~Alarmed(t)
  <2>1. /\ loc' = [loc EXCEPT ![t].analysed = @ + created,
                           ![t].due = {}, ![t].total = 0, ![t].before = 0]
        /\ UNCHANGED <<held, locked>>
    BY <1>6 DEF Recount, Alarmed
  <2>2. loc' = [loc EXCEPT ![t] = Counted(t)]
    BY <2>1 DEF Counted, TypeInv, TypeOK
  <2>3. result[t] \in [outcome : Outcomes, analysed : Nat, remaining : Int]
    BY DEF TypeInv, TypeOK
  <2>4. \/ /\ Stops(t, created, Remaining(t))
           /\ result' = [result EXCEPT ![t].outcome = "covered",
                                       ![t].remaining = Remaining(t)]
           /\ Goto(t, "after")
        \/ /\ ~Stops(t, created, Remaining(t)) /\ LastBatch(t)
           /\ result' = [result EXCEPT ![t].outcome = "capped",
                                       ![t].remaining = Remaining(t)]
           /\ Goto(t, "after")
        \/ /\ ~Stops(t, created, Remaining(t)) /\ ~LastBatch(t)
           /\ result' = result /\ Goto(t, "load")
    BY <1>6 DEF Recount, Alarmed, Remaining
  <2>5. ASSUME NEW o \in {"covered", "capped"},
               result' = [result EXCEPT ![t].outcome = o,
                                        ![t].remaining = Remaining(t)]
        PROVE /\ result' \in [Tasks -> [outcome : Outcomes, analysed : Nat, remaining : Int]]
              /\ result'[t].outcome = o
              /\ \A x \in Tasks \ {t} : result'[x] = result[x]
    <3> DEFINE v == [result[t] EXCEPT !.outcome = o, !.remaining = Remaining(t)]
    <3>1. v \in [outcome : Outcomes, analysed : Nat, remaining : Int] /\ v.outcome = o
      BY <1>3, <2>3 DEF Outcomes
    <3>2. result' = [result EXCEPT ![t] = v]
      BY <2>5 DEF TypeInv, TypeOK
    <3> HIDE DEF v
    <3> QED BY <3>1, <3>2 DEF TypeInv, TypeOK
  <2>6. /\ result' \in [Tasks -> [outcome : Outcomes, analysed : Nat, remaining : Int]]
        /\ \A x \in Tasks \ {t} : result'[x] = result[x]
    BY <2>4, <2>5 DEF TypeInv, TypeOK
  <2> QED BY <1>4, <1>6, <2>1, <2>2, <2>4, <2>5, <2>6
<1> QED BY <1>5, <1>6

LEMMA RecountType ==
  ASSUME TypeInv, NEW t \in Tasks, Recount(t)
  PROVE TypeInv'
<1>1. /\ loc[t].analysed \in Nat /\ loc[t].batches \in 0 .. MaxBatches
      /\ loc[t] \in Locs /\ held[t] = {}
      /\ overlap \in [Tasks -> BOOLEAN] /\ topics \subseteq Generations
  BY DEF TypeInv, TypeOK, Locs, Local, Recount
<1>2. Counted(t).due = {} /\ Counted(t).batches = loc[t].batches
  BY <1>1 DEF Counted, Locs
<1>3. UNCHANGED <<kind, stored, late, author, topics, overlap>>
  BY DEF Recount
<1>4. CASE Alarmed(t) /\ End(t, "invisible", loc[t].analysed, Remaining(t))
  <2>1. Remaining(t) \in Int
    BY <1>1, Sizes DEF Remaining, TypeInv, Locs
  <2>2. "invisible" \in Outcomes
    BY DEF Outcomes
  <2>3. Ending(t)
    BY <1>1, <1>4, <2>1, <2>2 DEF Ending
  <2> QED BY <1>1, <1>3, <2>3, EndingType
<1>5. CASE /\ loc' = [loc EXCEPT ![t] = Counted(t)] /\ Counted(t) \in Locs
           /\ UNCHANGED <<held, locked>>
           /\ result' \in [Tasks -> [outcome : Outcomes, analysed : Nat, remaining : Int]]
           /\ \A x \in Tasks \ {t} : result'[x] = result[x]
           /\ Goto(t, "after") \/ (Goto(t, "load") /\ ~LastBatch(t))
  <2>1. /\ loc' \in [Tasks -> Locs] /\ loc'[t] = Counted(t)
        /\ \A x \in Tasks \ {t} : loc'[x] = loc[x]
    BY <1>5, LocPut DEF TypeInv
  <2>2. "after" \in Points /\ "load" \in Points
    BY DEF Points
  <2>3. /\ pc' \in [Tasks -> Points] /\ pc'[t] \in {"after", "load"}
        /\ pc'[t] = "load" => ~LastBatch(t)
        /\ \A x \in Tasks \ {t} : pc'[x] = pc[x]
    BY <1>5, <2>2, PcPut DEF TypeInv
  <2>4. TypeOK'
    BY <1>3, <1>5, <2>1, <2>3 DEF TypeInv, TypeOK, Derived
  <2>5. Local(t)'
    BY <1>1, <1>2, <1>5, <2>1, <2>3, BatchAssumption DEF Local, LastBatch
  <2>6. ASSUME NEW x \in Tasks, x # t PROVE Local(x)'
    BY <1>3, <1>5, <2>1, <2>3, <2>6, LocalElsewhere DEF Alone
  <2> QED BY <2>4, <2>5, <2>6 DEF TypeInv
<1> QED BY <1>4, <1>5, RecountEffect

LEMMA ArriveType ==
  ASSUME TypeInv, NEW r \in Reviews, Arrive(r)
  PROVE TypeInv'
<1>1. late' \in BOOLEAN
  BY Zenon DEF Arrive, TypeInv, TypeOK
<1>2. TypeOK'
  BY <1>1 DEF Arrive, TypeInv, TypeOK, Derived
<1>3. ASSUME NEW x \in Tasks PROVE Local(x)'
  BY <1>3 DEF Arrive, TypeInv, Local
<1> QED BY <1>2, <1>3 DEF TypeInv

LEMMA TypeStep == TypeInv /\ [Next]_vars => TypeInv'
<1> SUFFICES ASSUME TypeInv, [Next]_vars PROVE TypeInv'
  OBVIOUS
<1>1. ASSUME NEW r \in Reviews, Arrive(r) PROVE TypeInv'
  BY <1>1, ArriveType
<1>2. ASSUME NEW t \in Tasks, Open(t) \/ Step(t) \/ Dies(t) PROVE TypeInv'
  <2>1. overlap \in [Tasks -> BOOLEAN]
    BY DEF TypeInv, TypeOK
  <2>2. CASE QueryFails(t) \/ Conflict(t) \/ After(t) \/ Publish(t) \/ Dies(t)
    BY <2>1, <2>2, Ends, EndingType
  <2>3. CASE \/ Open(t) \/ CountTables(t) \/ Load(t) \/ CountReviews(t) \/ CountBefore(t)
             \/ StartRefresh(t) \/ Airlines(t) \/ Label(t)
    BY <2>3, RewritesType
  <2>4. CASE Insert(t) \/ Commit(t) \/ Recount(t) \/ Delete(t)
    BY <2>4, InsertType, CommitType, RecountType, DeleteType
  <2> QED BY <1>2, <2>2, <2>3, <2>4 DEF Step
<1>3. CASE UNCHANGED vars
  BY <1>3 DEF vars, TypeInv, TypeOK, Local, Derived
<1> QED BY <1>1, <1>2, <1>3 DEF Next

\* The types of ReviewEnrichment, with what they rest on.
THEOREM TypeCorrect == Spec => []TypeInv
  BY TypeInit, TypeStep, PTL DEF Spec

\* The variables have their types.
THEOREM TypeInvariant == Spec => []TypeOK
<1>1. TypeInv => TypeOK
  BY DEF TypeInv
<1> QED BY <1>1, TypeCorrect, PTL

-----------------------------------------------------------------------------
(* What every step leaves alone. *)

LEMMA OneMoves ==
  ASSUME TypeInv, NEW t \in Tasks, Open(t) \/ Step(t) \/ Dies(t)
  PROVE /\ Alone(t) /\ UNCHANGED <<kind, stored, late>>
        /\ Commit(t) \/ author' = author
<1>1. CASE QueryFails(t) \/ Conflict(t) \/ After(t) \/ Publish(t) \/ Dies(t)
  <2>1. Ending(t) /\ UNCHANGED <<kind, stored, late, author>>
    BY <1>1, Ends
  <2>2. PICK o \in Outcomes, a \in Nat, r \in Int : End(t, o, a, r)
    BY <2>1 DEF Ending
  <2>3. Alone(t)
    BY <2>2, EndEffect DEF TypeInv
  <2> QED BY <2>1, <2>3
<1>2. CASE \/ Open(t) \/ CountTables(t) \/ Load(t) \/ CountReviews(t) \/ CountBefore(t)
           \/ StartRefresh(t) \/ Airlines(t) \/ Label(t)
  <2>1. \E l \in Locs : loc' = [loc EXCEPT ![t] = l]
    <3>1. CASE Open(t)
      BY <3>1, OpenEffect DEF TypeInv, TypeOK
    <3>2. CASE Load(t)
      BY <3>2, LoadEffect
    <3>3. CASE CountReviews(t) \/ CountBefore(t) \/ StartRefresh(t)
      BY <3>3, CountEffect
    <3>4. CASE CountTables(t) \/ Airlines(t) \/ Label(t)
      BY <3>4, ReadEffect
    <3> QED BY <1>2, <3>1, <3>2, <3>3, <3>4
  <2>2. \A x \in Tasks \ {t} : loc'[x] = loc[x]
    BY <2>1, LocPut DEF TypeInv
  <2>3. \A x \in Tasks \ {t} : pc'[x] = pc[x]
    BY <1>2 DEF Open, CountTables, Load, CountReviews, CountBefore, StartRefresh, Airlines,
                Label, Goto, TypeInv, TypeOK
  <2>4. UNCHANGED <<held, result, locked, kind, stored, late, author>>
    BY <1>2 DEF Open, CountTables, Load, CountReviews, CountBefore, StartRefresh, Airlines,
                Label
  <2> QED BY <2>2, <2>3, <2>4 DEF Alone
<1>3. CASE Insert(t)
  <2>1. \A x \in Tasks \ {t} : held'[x] = held[x]
    BY <1>3, InsertEffect
  <2> QED BY <1>3, <2>1 DEF Insert, Alone
<1>4. CASE Commit(t)
  <2>1. \A x \in Tasks \ {t} : held'[x] = held[x] /\ pc'[x] = pc[x]
    BY <1>4, CommitEffect
  <2> QED BY <1>4, <2>1 DEF Commit, Alone
<1>5. CASE Delete(t)
  BY <1>5 DEF Delete, Goto, Alone, TypeInv, TypeOK
<1>6. CASE Recount(t)
  <2>1. UNCHANGED <<kind, stored, late, author>>
    BY <1>6 DEF Recount
  <2>2. CASE Alarmed(t) /\ End(t, "invisible", loc[t].analysed, Remaining(t))
    <3>1. /\ loc[t].analysed \in Nat /\ loc[t].total \in Int
          /\ Cardinality(Derived) \in Int
      BY Sizes DEF TypeInv, TypeOK, Locs
    <3>2. Remaining(t) \in Int /\ "invisible" \in Outcomes
      BY <3>1 DEF Remaining, Outcomes
    <3>3. Alone(t)
      BY <2>2, <3>1, <3>2, EndEffect DEF TypeInv
    <3> QED BY <2>1, <3>3
  <2>3. CASE ~(Alarmed(t) /\ End(t, "invisible", loc[t].analysed, Remaining(t)))
    <3>1. /\ loc' = [loc EXCEPT ![t] = Counted(t)]
          /\ UNCHANGED <<held, locked>>
          /\ \A x \in Tasks \ {t} : result'[x] = result[x]
          /\ \E p : Goto(t, p)
      BY <1>6, <2>3, RecountEffect
    <3>2. Alone(t)
      BY <3>1 DEF Alone, Goto, TypeInv, TypeOK
    <3> QED BY <2>1, <3>2
  <2> QED BY <2>2, <2>3
<1> QED BY <1>1, <1>2, <1>3, <1>4, <1>5, <1>6 DEF Step

-----------------------------------------------------------------------------
(* Inserted rows. *)

\* No row is inserted twice.
Apart ==
  /\ \A t \in Tasks : held[t] \cap Derived = {}
  /\ \A t, x \in Tasks : t # x => held[t] \cap held[x] = {}

LEMMA ApartStep ==
  ASSUME TypeInv, Apart, [Next]_vars
  PROVE Apart'
<1>1. ASSUME NEW t \in Tasks, Open(t) \/ Step(t) \/ Dies(t) PROVE Apart'
  <2>1. \A x \in Tasks \ {t} : held'[x] = held[x]
    BY <1>1, OneMoves DEF Alone
  <2>2. CASE Commit(t)
    <3>1. Derived' = Derived \cup held[t] /\ held'[t] = {}
      BY <2>2, CommitEffect DEF Commit
    <3> QED BY <2>1, <3>1 DEF Apart
  <2>3. CASE Insert(t)
    <3>1. PICK r \in loc[t].due :
            /\ r \notin Derived /\ \A x \in Tasks : r \notin held[x]
            /\ held'[t] = held[t] \cup {r}
      BY <2>3, InsertEffect
    <3>2. Derived' = Derived
      BY <2>3 DEF Insert, Derived
    <3> QED BY <2>1, <3>1, <3>2 DEF Apart
  <2>4. CASE ~Commit(t) /\ ~Insert(t)
    <3>1. Derived' = Derived
      BY <1>1, <2>4, OneMoves DEF Derived
    <3>2. held' = held \/ held' = [held EXCEPT ![t] = {}]
      BY <1>1, <2>4 DEF Step, Open, CountTables, Load, CountReviews, CountBefore,
           StartRefresh, Airlines, Label, Delete, QueryFails, Conflict, After, Publish, Dies,
           Recount, End
    <3>3. held'[t] = held[t] \/ held'[t] = {}
      BY <3>2 DEF TypeInv, TypeOK
    <3> QED BY <2>1, <3>1, <3>3 DEF Apart
  <2> QED BY <2>2, <2>3, <2>4
<1>2. ASSUME NEW r \in Reviews, Arrive(r) PROVE Apart'
  BY <1>2 DEF Arrive, Apart, Derived
<1>3. CASE UNCHANGED vars
  BY <1>3 DEF vars, Apart, Derived
<1> QED BY <1>1, <1>2, <1>3 DEF Next

LEMMA Disjoint ==
  ASSUME NEW S, NEW T, IsFiniteSet(S), IsFiniteSet(T), S \cap T = {}
  PROVE Cardinality(S \cup T) = Cardinality(S) + Cardinality(T)
<1>1. Cardinality(S \cup T)
        = Cardinality(S) + Cardinality(T) - Cardinality(S \cap T)
  BY FS_Union
<1>2. Cardinality(S \cap T) = 0
  BY FS_EmptySet
<1>3. Cardinality(S) \in Nat /\ Cardinality(T) \in Nat
  BY FS_CardinalityType
<1> QED BY <1>1, <1>2, <1>3

\* A step of one pass changes neither the rows of another nor, but for a
\* commit, the rows there are.
LEMMA RowsGrow ==
  ASSUME TypeInv, Apart, NEW t \in Tasks, Open(t) \/ Step(t) \/ Dies(t)
  PROVE /\ Derived \subseteq Derived' /\ Derived' \subseteq stored
        /\ Cardinality(Derived) <= Cardinality(Derived')
        /\ \A x \in Tasks \ {t} : Written(x)' = Written(x)
        /\ Commit(t) \/ Written(t)' = Written(t)
        /\ Commit(t) =>
             /\ Written(t)' = Written(t) \cup loc[t].due
             /\ Cardinality(Written(t)') = Cardinality(Written(t)) + Cardinality(loc[t].due)
             /\ Cardinality(Derived') = Cardinality(Derived) + Cardinality(loc[t].due)
<1>1. /\ Derived \subseteq stored /\ IsFiniteSet(Derived) /\ Cardinality(Derived) \in Nat
      /\ loc[t].due \subseteq stored
  BY Sizes DEF TypeInv, TypeOK, Local
<1>2. CASE author' = author /\ ~Commit(t)
  <2>1. Derived' = Derived
    BY <1>2 DEF Derived
  <2>2. \A x \in Tasks : Written(x)' = Written(x)
    BY <1>2, <2>1 DEF Written
  <2> QED BY <1>1, <1>2, <2>1, <2>2
<1>3. CASE Commit(t)
  <2> DEFINE due == loc[t].due
             old == Written(t)
  <2>1. /\ Derived' = Derived \cup due /\ due \cap Derived = {}
        /\ \A r \in Derived' : author'[r] = IF r \in due THEN t ELSE author[r]
    BY <1>3, CommitEffect DEF Commit, Apart
  <2>2. ASSUME NEW x \in Tasks \ {t} PROVE Written(x)' = Written(x)
    BY <2>1, <2>2 DEF Written
  <2>3. Written(t)' = old \cup due /\ old \cap due = {} /\ old \subseteq stored
    BY <1>1, <2>1 DEF Written
  <2>4. /\ IsFiniteSet(due) /\ Cardinality(due) \in Nat
        /\ IsFiniteSet(old) /\ Cardinality(old) \in Nat
    BY <1>1, <2>3, Sizes DEF TypeInv
  <2>5. Cardinality(old \cup due) = Cardinality(old) + Cardinality(due)
    BY <2>3, <2>4, Disjoint
  <2>6. Cardinality(Derived \cup due) = Cardinality(Derived) + Cardinality(due)
    BY <1>1, <2>1, <2>4, Disjoint
  <2>7. /\ Cardinality(Derived') = Cardinality(Derived) + Cardinality(due)
        /\ Cardinality(Derived) <= Cardinality(Derived')
    BY <1>1, <2>1, <2>4, <2>6
  <2> HIDE DEF due, old
  <2>8. Cardinality(Written(t)') = Cardinality(old) + Cardinality(due)
    BY <2>3, <2>5
  <2>9. Derived \subseteq Derived' /\ Derived' \subseteq stored
    BY <1>1, <2>1 DEF due
  <2> QED BY <1>3, <2>2, <2>3, <2>7, <2>8, <2>9 DEF due, old
<1> QED BY <1>2, <1>3, OneMoves

-----------------------------------------------------------------------------
(* What is reported. *)

Told == {"covered", "capped", "error", "misread"}

\* The counts of a pass, against the rows it has committed.
Tally(t) ==
  /\ kind = "metadata" =>
       /\ pc[t] \in {"idle", "count", "load", "total", "before", "insert", "after"} =>
            loc[t].analysed = Cardinality(Written(t))
       /\ pc[t] = "recount" =>
            loc[t].analysed + Cardinality(loc[t].due) = Cardinality(Written(t))
  /\ kind = "nlp" =>
       /\ pc[t] \in {"idle", "load", "insert"} => Written(t) = {}
       /\ pc[t] \in {"refresh", "delete", "airlines", "label", "publish"} =>
            Cardinality(loc[t].due) = Cardinality(Written(t))
  /\ pc[t] = "ended" /\ result[t].outcome \in Told =>
       result[t].analysed = Cardinality(Written(t))

\* Which table a control point belongs to, and what has been returned there.
Course(t) ==
  /\ pc[t] \in {"count", "total", "before", "recount", "after"} => kind = "metadata"
  /\ pc[t] \in {"refresh", "delete", "airlines", "label", "publish"} => kind = "nlp"
  /\ pc[t] \notin {"after", "ended"} => result[t].outcome = "none"
  /\ pc[t] = "after" => result[t].outcome \in {"covered", "capped"}
  /\ result[t].outcome \notin {"invisible", "empty"}

\* Why neither alarm is raised.
Seen(t) ==
  kind = "metadata" =>
    /\ pc[t] = "insert" => loc[t].before <= Cardinality(Derived)
    /\ pc[t] = "recount" =>
         loc[t].before + Cardinality(loc[t].due) <= Cardinality(Derived)
    /\ loc[t].corpus > 0 =>
         /\ pc[t] = "load" => stored # {}
         /\ pc[t] \in {"total", "before", "insert"} => loc[t].due # {} \/ Derived # {}
         /\ pc[t] \in {"recount", "after"} => Derived # {}

ReportInv == Apart /\ \A t \in Tasks : Tally(t) /\ Course(t) /\ Seen(t)

LEMMA HonestElsewhere ==
  ASSUME TypeInv, NEW x \in Tasks, Tally(x), Course(x), Seen(x),
         pc'[x] = pc[x], loc'[x] = loc[x], result'[x] = result[x], kind' = kind,
         stored \subseteq stored', Derived \subseteq Derived',
         Cardinality(Derived) <= Cardinality(Derived'),
         Cardinality(Derived') \in Nat, Written(x)' = Written(x)
  PROVE Tally(x)' /\ Course(x)' /\ Seen(x)'
<1>1. /\ Cardinality(Derived) \in Nat /\ loc[x].before \in Nat
      /\ Cardinality(loc[x].due) \in Nat
  BY Sizes DEF TypeInv, TypeOK, Locs, Local
<1>2. Tally(x)'
  BY DEF Tally
<1>3. Course(x)'
  BY DEF Course
<1>4. Seen(x)'
  BY <1>1 DEF Seen
<1> QED BY <1>2, <1>3, <1>4

LEMMA HonestEnd ==
  ASSUME TypeInv, NEW t \in Tasks, NEW o \in Outcomes, NEW a \in Nat, NEW r \in Int,
         End(t, o, a, r), UNCHANGED <<kind, stored, late, author>>,
         o \notin {"invisible", "empty"}, o \in Told => a = Cardinality(Written(t))
  PROVE Tally(t)' /\ Course(t)' /\ Seen(t)'
<1>1. /\ pc'[t] = "ended" /\ result'[t].outcome = o /\ result'[t].analysed = a
  BY EndEffect DEF TypeInv
<1>2. Written(t)' = Written(t)
  BY DEF Written, Derived
<1> QED BY <1>1, <1>2 DEF Tally, Course, Seen

LEMMA HonestQueryFails ==
  ASSUME TypeInv, NEW t \in Tasks, Tally(t), QueryFails(t)
  PROVE Tally(t)' /\ Course(t)' /\ Seen(t)'
<1>1. loc[t].analysed \in Nat /\ "error" \in Outcomes /\ "raised" \in Outcomes
  BY DEF TypeInv, TypeOK, Locs, Outcomes
<1>2. UNCHANGED <<kind, stored, late, author>>
  BY DEF QueryFails
<1>3. CASE kind = "metadata"
  BY <1>1, <1>2, <1>3, HonestEnd DEF QueryFails, Tally
<1>4. CASE kind # "metadata"
  BY <1>1, <1>2, <1>4, HonestEnd DEF QueryFails, Told
<1> QED BY <1>3, <1>4

LEMMA HonestConflict ==
  ASSUME TypeInv, NEW t \in Tasks, Tally(t), Conflict(t)
  PROVE Tally(t)' /\ Course(t)' /\ Seen(t)'
<1>1. /\ loc[t].analysed \in Nat /\ loc[t].total \in Nat /\ loc[t].before \in Nat
      /\ "error" \in Outcomes /\ "raised" \in Outcomes
  BY DEF TypeInv, TypeOK, Locs, Outcomes
<1>2. UNCHANGED <<kind, stored, late, author>>
  BY DEF Conflict
<1>3. (IF loc[t].total > loc[t].before THEN loc[t].total - loc[t].before ELSE 0) \in Int
  BY <1>1
<1>4. CASE kind = "metadata"
  BY <1>1, <1>2, <1>3, <1>4, HonestEnd DEF Conflict, Tally
<1>5. CASE kind # "metadata"
  BY <1>1, <1>2, <1>5, HonestEnd DEF Conflict, Told
<1> QED BY <1>4, <1>5

LEMMA HonestAfter ==
  ASSUME TypeInv, NEW t \in Tasks, Tally(t), Course(t), Seen(t), After(t)
  PROVE Tally(t)' /\ Course(t)' /\ Seen(t)'
<1>1. PICK failed \in BOOLEAN :
        LET gap == t \in Stages /\ loc[t].corpus > 0
        IN End(t, IF gap /\ failed THEN "misread"
                  ELSE IF gap /\ Derived = {} THEN "empty"
                  ELSE result[t].outcome,
               loc[t].analysed, result[t].remaining)
  BY DEF After
<1>2. /\ loc[t].analysed \in Nat /\ result[t].remaining \in Int /\ "misread" \in Outcomes
      /\ result[t].outcome \in Outcomes
  BY DEF TypeInv, TypeOK, Locs, Outcomes
<1>3. /\ UNCHANGED <<kind, stored, late, author>> /\ kind = "metadata" /\ pc[t] = "after"
      /\ result[t].outcome \in {"covered", "capped"}
  BY DEF After, Course
<1>4. loc[t].analysed = Cardinality(Written(t))
  BY <1>3 DEF Tally
<1>5. loc[t].corpus > 0 => Derived # {}
  BY <1>3 DEF Seen
<1>6. \E o \in {"misread", "covered", "capped"} :
        o \in Outcomes /\ End(t, o, loc[t].analysed, result[t].remaining)
  BY <1>1, <1>2, <1>3, <1>5
<1> QED BY <1>2, <1>3, <1>4, <1>6, HonestEnd

LEMMA HonestPublish ==
  ASSUME TypeInv, NEW t \in Tasks, Tally(t), Course(t), Publish(t)
  PROVE Tally(t)' /\ Course(t)' /\ Seen(t)'
<1>1. Cardinality(loc[t].due) \in Nat /\ "covered" \in Outcomes
  BY Sizes DEF TypeInv, Local, Outcomes
<1>2. Cardinality(loc[t].due) = Cardinality(Written(t))
  BY DEF Publish, Course, Tally
<1> QED BY <1>1, <1>2, HonestEnd DEF Publish

LEMMA HonestDies ==
  ASSUME TypeInv, NEW t \in Tasks, Dies(t)
  PROVE Tally(t)' /\ Course(t)' /\ Seen(t)'
<1>1. "died" \in Outcomes
  BY DEF Outcomes
<1> QED BY <1>1, HonestEnd DEF Dies, Told

LEMMA HonestOpen ==
  ASSUME TypeInv, NEW t \in Tasks, Tally(t), Course(t), Open(t)
  PROVE Tally(t)' /\ Course(t)' /\ Seen(t)'
<1>1. /\ loc' = loc /\ loc[t].corpus = 0 /\ pc[t] = "idle"
      /\ pc'[t] = IF kind = "metadata" THEN "count" ELSE "load"
  BY OpenEffect DEF NoLoc
<1>2. UNCHANGED <<kind, result>> /\ Written(t)' = Written(t)
  BY DEF Open, Written, Derived
<1>3. kind \in {"metadata", "nlp"}
  BY DEF TypeInv, TypeOK
<1>4. Tally(t)'
  BY <1>1, <1>2, <1>3 DEF Tally
<1>5. Course(t)'
  BY <1>1, <1>2 DEF Course
<1>6. Seen(t)'
  BY <1>1, <1>2 DEF Seen
<1> QED BY <1>4, <1>5, <1>6

LEMMA HonestCountTables ==
  ASSUME TypeInv, NEW t \in Tasks, Tally(t), Course(t), CountTables(t)
  PROVE Tally(t)' /\ Course(t)' /\ Seen(t)'
<1>1. PICK count \in {0, Cardinality(stored)} :
        LET l == [loc[t] EXCEPT !.corpus = count]
        IN  l \in Locs /\ loc' = [loc EXCEPT ![t] = l]
  BY CountTablesEffect
<1> DEFINE l == [loc[t] EXCEPT !.corpus = count]
<1>2. l.corpus = count /\ l.analysed = loc[t].analysed
  BY DEF TypeInv, TypeOK, Locs
<1>3. l \in Locs /\ loc' = [loc EXCEPT ![t] = l]
  BY <1>1
<1> HIDE DEF l
<1>4. loc'[t] = l
  BY <1>3, LocPut DEF TypeInv
<1>5. /\ pc[t] = "count" /\ pc'[t] = "load" /\ UNCHANGED <<kind, stored, result>>
      /\ Written(t)' = Written(t) /\ kind = "metadata"
  BY CountTablesEffect DEF CountTables, Written, Derived, Course
<1>6. count > 0 => stored # {}
  BY FS_EmptySet
<1>7. Tally(t)'
  BY <1>2, <1>4, <1>5 DEF Tally
<1>8. Course(t)'
  BY <1>5 DEF Course
<1>9. Seen(t)'
  BY <1>2, <1>4, <1>5, <1>6 DEF Seen
<1> QED BY <1>7, <1>8, <1>9

\* Some review is the oldest of those that have no row yet.
LEMMA PendingWhenOpen ==
  ASSUME TypeInv, stored \ Derived # {}
  PROVE Pending # {}
<1> DEFINE open == stored \ Derived
<1>1. open \subseteq Nat
  BY ReviewsAssumption DEF TypeInv, TypeOK
<1>2. PICK r \in open : \A s \in open : ~(<<s, r>> \in OpToRel(<, Nat))
  BY <1>1, NatLessThanWellFounded, WFMin, Zenon
<1>3. \A s \in open : ~(s < r)
  BY <1>1, <1>2 DEF OpToRel
<1>4. {s \in open : s < r} = {}
  BY <1>3
<1>5. Cardinality({s \in open : s < r}) < Batch
  BY <1>4, FS_EmptySet, BatchAssumption
<1> QED BY <1>2, <1>5 DEF Pending

LEMMA HonestLoad ==
  ASSUME TypeInv, NEW t \in Tasks, Tally(t), Course(t), Seen(t), Load(t)
  PROVE Tally(t)' /\ Course(t)' /\ Seen(t)'
<1>1. PICK l \in Locs :
        /\ loc' = [loc EXCEPT ![t] = l]
        /\ l = [loc[t] EXCEPT !.due = Pending, !.seen = stored, !.batches = @ + 1]
  BY LoadEffect
<1>2. loc'[t] = l /\ l.due = Pending /\ l.analysed = loc[t].analysed
      /\ l.corpus = loc[t].corpus
  BY <1>1, LocPut DEF TypeInv, TypeOK, Locs
<1>3. pc[t] = "load" /\ pc'[t] = IF kind = "metadata" THEN "total" ELSE "insert"
  BY DEF Load, Goto, TypeInv, TypeOK
<1>4. UNCHANGED <<kind, stored, result>> /\ Written(t)' = Written(t) /\ Derived' = Derived
  BY DEF Load, Written, Derived
<1>5. kind \in {"metadata", "nlp"}
  BY DEF TypeInv, TypeOK
<1>6. Tally(t)'
  BY <1>2, <1>3, <1>4, <1>5 DEF Tally
<1>7. Course(t)'
  BY <1>3, <1>4 DEF Course
<1>8. kind = "metadata" /\ loc[t].corpus > 0 => Pending # {} \/ Derived # {}
  BY <1>3, PendingWhenOpen DEF Seen
<1>9. Seen(t)'
  BY <1>2, <1>3, <1>4, <1>8 DEF Seen
<1> QED BY <1>6, <1>7, <1>9

LEMMA HonestCounts ==
  ASSUME TypeInv, NEW t \in Tasks, Tally(t), Course(t), Seen(t),
         CountReviews(t) \/ CountBefore(t)
  PROVE Tally(t)' /\ Course(t)' /\ Seen(t)'
<1>1. /\ loc[t] \in Locs /\ Cardinality(Derived) \in Nat
  BY Sizes DEF TypeInv, TypeOK
<1>2. /\ UNCHANGED <<kind, stored, result>> /\ Written(t)' = Written(t)
      /\ Derived' = Derived
  BY DEF CountReviews, CountBefore, Written, Derived
<1>3. CASE CountReviews(t)
  <2> DEFINE l == [loc[t] EXCEPT !.total = Cardinality(stored)]
  <2>1. l \in Locs /\ loc' = [loc EXCEPT ![t] = l]
    BY <1>3, CountEffect
  <2>2. l.due = loc[t].due /\ l.analysed = loc[t].analysed /\ l.corpus = loc[t].corpus
    BY <1>1 DEF Locs
  <2> HIDE DEF l
  <2>3. loc'[t] = l
    BY <2>1, LocPut DEF TypeInv
  <2>4. pc[t] = "total" /\ pc'[t] = "before"
    BY <1>3 DEF CountReviews, Goto, TypeInv, TypeOK
  <2> QED BY <1>2, <2>2, <2>3, <2>4 DEF Tally, Course, Seen
<1>4. CASE CountBefore(t)
  <2> DEFINE l == [loc[t] EXCEPT !.before = Cardinality(Derived)]
  <2>1. l \in Locs /\ loc' = [loc EXCEPT ![t] = l]
    BY <1>4, CountEffect
  <2>2. /\ l.due = loc[t].due /\ l.analysed = loc[t].analysed /\ l.corpus = loc[t].corpus
        /\ l.before = Cardinality(Derived)
    BY <1>1 DEF Locs
  <2> HIDE DEF l
  <2>3. loc'[t] = l
    BY <2>1, LocPut DEF TypeInv
  <2>4. pc[t] = "before" /\ pc'[t] = "insert"
    BY <1>4 DEF CountBefore, Goto, TypeInv, TypeOK
  <2>5. Cardinality(Derived) <= Cardinality(Derived)
    BY <1>1
  <2>6. kind = "metadata"
    BY <2>4 DEF Course
  <2>7. Tally(t)' /\ Course(t)'
    BY <1>2, <2>2, <2>3, <2>4, <2>6 DEF Tally, Course
  <2>8. Seen(t)'
    BY <1>2, <2>2, <2>3, <2>4, <2>5 DEF Seen
  <2> QED BY <2>7, <2>8
<1> QED BY <1>3, <1>4

LEMMA HonestInsert ==
  ASSUME TypeInv, NEW t \in Tasks, Tally(t), Course(t), Seen(t), Insert(t)
  PROVE Tally(t)' /\ Course(t)' /\ Seen(t)'
<1>1. UNCHANGED <<kind, stored, author, pc, loc, result>>
  BY DEF Insert
<1>2. Derived' = Derived /\ Written(t)' = Written(t)
  BY <1>1 DEF Derived, Written
<1> QED BY <1>1, <1>2 DEF Tally, Course, Seen

LEMMA HonestCommit ==
  ASSUME TypeInv, Apart, NEW t \in Tasks, Tally(t), Course(t), Seen(t), Commit(t)
  PROVE Tally(t)' /\ Course(t)' /\ Seen(t)'
<1> DEFINE n == Cardinality(loc[t].due)
           w == Cardinality(Written(t))
           d == Cardinality(Derived)
<1>1. /\ pc[t] = "insert" /\ pc'[t] = IF kind = "metadata" THEN "recount" ELSE "refresh"
      /\ UNCHANGED <<kind, stored, loc, result>>
      /\ Derived' = Derived \cup loc[t].due
  BY CommitEffect DEF Commit
<1>2. Cardinality(Written(t)') = w + n /\ Cardinality(Derived') = d + n
  BY RowsGrow DEF Step
<1>3. /\ n \in Nat /\ w \in Nat /\ d \in Nat /\ loc[t].before \in Nat
      /\ loc[t].analysed \in Nat /\ kind \in {"metadata", "nlp"}
  BY Sizes DEF TypeInv, TypeOK, Locs, Local, Written
<1>4. Written(t) = {} => w = 0
  BY FS_EmptySet
<1>5. Tally(t)'
  <2>1. CASE kind = "metadata"
    <3>1. loc[t].analysed = w
      BY <1>1, <2>1 DEF Tally
    <3>2. loc[t].analysed + n = w + n
      BY <3>1
    <3>3. (loc[t].analysed + n)' = Cardinality(Written(t)')
      BY <1>1, <1>2, <3>2
    <3> QED BY <1>1, <2>1, <3>3 DEF Tally
  <2>2. CASE kind = "nlp"
    <3>1. w = 0
      BY <1>1, <1>4, <2>2 DEF Tally
    <3>2. Cardinality(Written(t)') = n
      BY <1>2, <1>3, <3>1
    <3> QED BY <1>1, <2>2, <3>2 DEF Tally
  <2> QED BY <1>3, <2>1, <2>2
<1>6. Course(t)'
  BY <1>1, <1>3 DEF Course
<1>7. loc[t].before + n <= Cardinality(Derived') \/ kind # "metadata"
  BY <1>1, <1>2, <1>3 DEF Seen
<1>8. kind = "metadata" /\ loc[t].corpus > 0 => Derived' # {}
  BY <1>1 DEF Seen
<1>9. Seen(t)'
  BY <1>1, <1>7, <1>8 DEF Seen
<1> QED BY <1>5, <1>6, <1>9

LEMMA HonestRecount ==
  ASSUME TypeInv, NEW t \in Tasks, Tally(t), Course(t), Seen(t), Recount(t)
  PROVE Tally(t)' /\ Course(t)' /\ Seen(t)'
<1>1. /\ pc[t] = "recount" /\ kind = "metadata"
      /\ UNCHANGED <<kind, stored, author>>
  BY DEF Recount, Course
<1>2. Derived' = Derived /\ Written(t)' = Written(t)
  BY <1>1 DEF Derived, Written
<1>3. /\ Cardinality(loc[t].due) \in Nat /\ Cardinality(Derived) \in Nat
      /\ loc[t] \in Locs /\ loc[t].before \in Nat
  BY Sizes DEF TypeInv, TypeOK, Locs, Local
<1>4. ~Alarmed(t)
  BY <1>1, <1>3 DEF Seen, Alarmed
<1>5. /\ loc' = [loc EXCEPT ![t] = Counted(t)] /\ Counted(t) \in Locs
      /\ \/ Goto(t, "after") /\ result'[t].outcome \in {"covered", "capped"}
         \/ Goto(t, "load") /\ result' = result
  BY <1>4, RecountEffect
<1>6. loc'[t] = Counted(t) /\ (pc'[t] = "after" \/ pc'[t] = "load")
  BY <1>5, LocPut DEF Goto, TypeInv, TypeOK
<1>7. /\ Counted(t).analysed = loc[t].analysed + Cardinality(loc[t].due)
      /\ Counted(t).corpus = loc[t].corpus
  BY <1>3 DEF Counted, Locs
<1>8. Tally(t)'
  BY <1>1, <1>2, <1>6, <1>7 DEF Tally
<1>9. Course(t)'
  BY <1>1, <1>5, <1>6 DEF Course, Goto, TypeInv, TypeOK
<1>10. Derived # {} => stored # {}
  BY DEF TypeInv, TypeOK
<1>11. Seen(t)'
  BY <1>1, <1>2, <1>6, <1>7, <1>10 DEF Seen
<1> QED BY <1>8, <1>9, <1>11

LEMMA HonestTopics ==
  ASSUME TypeInv, NEW t \in Tasks, Tally(t), Course(t),
         StartRefresh(t) \/ Delete(t) \/ Airlines(t) \/ Label(t)
  PROVE Tally(t)' /\ Course(t)' /\ Seen(t)'
<1>1. /\ pc[t] \in {"refresh", "delete", "airlines", "label"}
      /\ pc'[t] \in {"delete", "airlines", "label", "publish"}
      /\ UNCHANGED <<kind, stored, author, result>> /\ kind = "nlp"
  <2>1. CASE StartRefresh(t)
    BY <2>1 DEF StartRefresh, Goto, Course, TypeInv, TypeOK
  <2>2. CASE Delete(t)
    BY <2>2 DEF Delete, Goto, Course, TypeInv, TypeOK
  <2>3. CASE Airlines(t)
    BY <2>3 DEF Airlines, Goto, Course, TypeInv, TypeOK
  <2>4. CASE Label(t)
    BY <2>4 DEF Label, Goto, Course, TypeInv, TypeOK
  <2> QED BY <2>1, <2>2, <2>3, <2>4
<1>2. Written(t)' = Written(t)
  BY <1>1 DEF Derived, Written
<1>3. loc'[t].due = loc[t].due
  <2>1. loc[t] \in Locs
    BY DEF TypeInv, TypeOK
  <2>2. CASE Delete(t)
    BY <2>2 DEF Delete
  <2>3. CASE StartRefresh(t)
    <3> DEFINE l == [loc[t] EXCEPT !.snap = topics]
    <3>1. l \in Locs /\ loc' = [loc EXCEPT ![t] = l] /\ l.due = loc[t].due
      BY <2>1, <2>3, CountEffect DEF Locs
    <3> HIDE DEF l
    <3> QED BY <3>1, LocPut DEF TypeInv
  <2>4. CASE Airlines(t) \/ Label(t)
    BY <2>4, ReadEffect
  <2> QED BY <2>2, <2>3, <2>4
<1>4. Tally(t)'
  BY <1>1, <1>2, <1>3 DEF Tally
<1>5. Course(t)'
  BY <1>1 DEF Course
<1>6. Seen(t)'
  BY <1>1 DEF Seen
<1> QED BY <1>4, <1>5, <1>6

LEMMA ReportInit == Init => ReportInv
<1> SUFFICES ASSUME Init PROVE ReportInv
  OBVIOUS
<1>1. Derived = {} /\ \A t \in Tasks : Written(t) = {}
  BY DEF Init, Derived, Written
<1>2. Apart
  BY <1>1 DEF Init, Apart
<1>3. ASSUME NEW t \in Tasks PROVE Tally(t) /\ Course(t) /\ Seen(t)
  <2>1. Cardinality(Written(t)) = 0
    BY <1>1, FS_EmptySet
  <2> QED BY <1>1, <2>1 DEF Init, Tally, Course, Seen, NoLoc, NoResult
<1> QED BY <1>2, <1>3 DEF ReportInv

LEMMA ReportStep == TypeInv /\ ReportInv /\ [Next]_vars => ReportInv'
<1> SUFFICES ASSUME TypeInv, ReportInv, [Next]_vars PROVE ReportInv'
  OBVIOUS
<1>1. Apart'
  BY ApartStep DEF ReportInv
<1>2. ASSUME NEW t \in Tasks, Open(t) \/ Step(t) \/ Dies(t), NEW x \in Tasks
      PROVE Tally(x)' /\ Course(x)' /\ Seen(x)'
  <2>1. Tally(x) /\ Course(x) /\ Seen(x) /\ Apart
    BY DEF ReportInv
  <2>2. CASE x = t
    BY <1>2, <2>1, <2>2, HonestQueryFails, HonestConflict, HonestAfter, HonestPublish,
       HonestDies, HonestOpen, HonestCountTables, HonestLoad, HonestCounts, HonestInsert,
       HonestCommit,
       HonestRecount, HonestTopics DEF Step
  <2>3. CASE x # t
    <3>1. /\ Derived \subseteq Derived' /\ Derived' \subseteq stored
          /\ Cardinality(Derived) <= Cardinality(Derived') /\ Written(x)' = Written(x)
      BY <1>2, <2>1, <2>3, RowsGrow
    <3>2. Cardinality(Derived') \in Nat
      BY <3>1, Sizes DEF TypeInv
    <3>3. /\ pc'[x] = pc[x] /\ loc'[x] = loc[x] /\ result'[x] = result[x]
          /\ kind' = kind /\ stored' = stored
      BY <1>2, <2>3, OneMoves DEF Alone
    <3> QED BY <2>1, <3>1, <3>2, <3>3, HonestElsewhere
  <2> QED BY <2>2, <2>3
<1>3. ASSUME NEW r \in Reviews, Arrive(r) \/ UNCHANGED vars, NEW x \in Tasks
      PROVE Tally(x)' /\ Course(x)' /\ Seen(x)'
  <2>1. /\ UNCHANGED <<kind, author, pc, loc, result>> /\ stored \subseteq stored'
    BY <1>3 DEF Arrive, vars
  <2>2. Derived' = Derived /\ Written(x)' = Written(x)
    BY <2>1 DEF Derived, Written
  <2>3. Cardinality(Derived) \in Nat /\ Cardinality(Derived) <= Cardinality(Derived)
    BY Sizes DEF TypeInv
  <2> QED BY <2>1, <2>2, <2>3, HonestElsewhere DEF ReportInv
<1>4. CASE UNCHANGED vars
  <2>1. UNCHANGED <<kind, author, pc, loc, result, stored>>
    BY <1>4 DEF vars
  <2>2. \A x \in Tasks : Tally(x)' /\ Course(x)' /\ Seen(x)'
    BY <2>1 DEF ReportInv, Tally, Course, Seen, Derived, Written
  <2> QED BY <1>1, <2>2 DEF ReportInv
<1> QED BY <1>1, <1>2, <1>3, <1>4 DEF ReportInv, Next

\* A pass reports the rows it wrote, and an extraction whose queries work
\* raises no alarm.
THEOREM ReportsAreTrue == Spec => []ReportedIsWritten
<1>1. TypeInv /\ ReportInv => ReportedIsWritten
  <2> SUFFICES ASSUME TypeInv, ReportInv, NEW t \in Tasks
      PROVE /\ result[t].outcome \in {"covered", "capped", "error", "misread"} /\ ~Active(t) =>
                 result[t].analysed = Cardinality(Written(t))
            /\ result[t].outcome \notin {"invisible", "empty"}
    BY DEF ReportedIsWritten
  <2>1. Tally(t) /\ Course(t)
    BY DEF ReportInv
  <2> QED BY <2>1 DEF Tally, Course, Active, Told
<1>2. Init /\ [][Next]_vars => []ReportInv
  BY TypeCorrect, ReportInit, ReportStep, PTL DEF Spec
<1> QED BY <1>1, <1>2, TypeCorrect, PTL DEF Spec


-----------------------------------------------------------------------------
(* What is covered. *)

\* With a review every older one there is.
Oldest(S, T) == \A r \in S, s \in T : s < r => s \in S

\* While reviews arrive in order, the rows cover the oldest reviews, and an
\* extraction that stops has seen why.
Cover(t) ==
  /\ loc[t].seen \subseteq stored
  /\ \A r \in stored \ loc[t].seen, s \in loc[t].seen : s < r
  /\ Oldest(Derived \cup loc[t].due, stored)
  /\ pc[t] \in {"before", "insert", "recount"} /\ kind = "metadata" =>
       Cardinality(loc[t].seen) <= loc[t].total
  /\ pc[t] \in {"total", "before", "insert", "recount"} /\ loc[t].due = {} =>
       loc[t].seen \subseteq Derived
  /\ pc[t] \in {"after", "ended"} /\ result[t].outcome = "covered" =>
       loc[t].seen \subseteq Derived
CoverInv == kind = "metadata" /\ ~late => Oldest(Derived, stored) /\ \A t \in Tasks : Cover(t)

LEMMA CoverElsewhere ==
  ASSUME TypeInv, NEW x \in Tasks, Cover(x),
         pc'[x] = pc[x], loc'[x] = loc[x], result'[x] = result[x], kind' = kind,
         stored' = stored, Derived \subseteq Derived', Oldest(Derived', stored)
  PROVE Cover(x)'
<1>1. stored' = stored /\ loc'[x].due = loc[x].due
  OBVIOUS
<1>2. \A r \in Derived' \cup loc[x].due, s \in stored : s < r => s \in Derived' \cup loc[x].due
  <2> SUFFICES ASSUME NEW r \in Derived' \cup loc[x].due, NEW s \in stored, s < r
               PROVE s \in Derived' \cup loc[x].due
    OBVIOUS
  <2>1. CASE r \in Derived'
    BY <2>1 DEF Oldest
  <2>2. CASE r \in loc[x].due
    BY <2>2 DEF Cover, Oldest
  <2> QED BY <2>1, <2>2
<1>3. \A r \in (Derived' \cup loc'[x].due), s \in stored' :
        s < r => s \in (Derived' \cup loc'[x].due)
  BY <1>1, <1>2
<1>4. Oldest(Derived \cup loc[x].due, stored)'
  BY <1>3 DEF Oldest
<1> QED BY <1>4 DEF Cover

LEMMA CoverEnd ==
  ASSUME TypeInv, NEW t \in Tasks, NEW o \in Outcomes, NEW a \in Nat, NEW r \in Int,
         End(t, o, a, r), UNCHANGED <<kind, stored, late, author>>, Oldest(Derived, stored),
         loc[t].seen \subseteq stored,
         \A u \in stored \ loc[t].seen, s \in loc[t].seen : s < u,
         o = "covered" => loc[t].seen \subseteq Derived
  PROVE Cover(t)'
<1>1. /\ pc'[t] = "ended" /\ result'[t].outcome = o /\ loc'[t].due = {}
      /\ loc'[t].seen = IF o = "covered" THEN loc[t].seen ELSE {}
  BY EndEffect DEF TypeInv
<1>2. Derived' = Derived /\ stored' = stored
  BY DEF Derived
<1>3. Derived' \cup loc'[t].due = Derived
  BY <1>1, <1>2
<1>4. Oldest(Derived \cup loc[t].due, stored)'
  BY <1>2, <1>3 DEF Oldest
<1> QED BY <1>1, <1>2, <1>4 DEF Cover

LEMMA CoverEnds ==
  ASSUME TypeInv, NEW t \in Tasks, Course(t), Cover(t), Oldest(Derived, stored),
         kind = "metadata",
         QueryFails(t) \/ Conflict(t) \/ After(t) \/ Publish(t) \/ Dies(t)
  PROVE Cover(t)'
<1>1. Ending(t) /\ UNCHANGED <<kind, stored, late, author>>
  BY Ends
<1>2. /\ loc[t].seen \subseteq stored
      /\ \A u \in stored \ loc[t].seen, s \in loc[t].seen : s < u
  BY DEF Cover
<1>3. /\ loc[t].analysed \in Nat /\ loc[t].total \in Nat /\ loc[t].before \in Nat
      /\ result[t].outcome \in Outcomes /\ result[t].remaining \in Int
      /\ "error" \in Outcomes /\ "died" \in Outcomes /\ "misread" \in Outcomes
      /\ "empty" \in Outcomes
  BY DEF TypeInv, TypeOK, Locs, Outcomes
<1>4. CASE QueryFails(t)
  BY <1>1, <1>2, <1>3, <1>4, CoverEnd DEF QueryFails
<1>5. CASE Conflict(t)
  <2>1. (IF loc[t].total > loc[t].before THEN loc[t].total - loc[t].before ELSE 0) \in Int
    BY <1>3
  <2> QED BY <1>1, <1>2, <1>3, <1>5, <2>1, CoverEnd DEF Conflict
<1>6. CASE After(t)
  <2>1. PICK failed \in BOOLEAN :
          LET gap == t \in Stages /\ loc[t].corpus > 0
          IN End(t, IF gap /\ failed THEN "misread"
                    ELSE IF gap /\ Derived = {} THEN "empty"
                    ELSE result[t].outcome,
                 loc[t].analysed, result[t].remaining)
    BY <1>6 DEF After
  <2>2. result[t].outcome = "covered" => loc[t].seen \subseteq Derived
    BY <1>6 DEF After, Cover
  <2>3. \E o \in Outcomes :
          /\ End(t, o, loc[t].analysed, result[t].remaining)
          /\ o = "covered" => loc[t].seen \subseteq Derived
    BY <1>3, <2>1, <2>2
  <2> QED BY <1>1, <1>2, <1>3, <2>3, CoverEnd
<1>7. CASE Publish(t)
  BY <1>7 DEF Publish, Course
<1>8. CASE Dies(t)
  BY <1>1, <1>2, <1>3, <1>8, CoverEnd DEF Dies
<1> QED BY <1>4, <1>5, <1>6, <1>7, <1>8

\* Before the first batch nothing has been seen.
LEMMA CoverOpen ==
  ASSUME TypeInv, NEW t \in Tasks, Cover(t), kind = "metadata", Open(t) \/ CountTables(t)
  PROVE Cover(t)'
<1>1. loc'[t].due = loc[t].due /\ loc'[t].seen = loc[t].seen
  BY OpenEffect, ReadEffect
<1>2. pc'[t] \in {"count", "load"}
  BY OpenEffect, CountTablesEffect
<1>3. stored' = stored /\ Derived' = Derived
  BY DEF Open, CountTables, Derived
<1>4. Oldest(Derived \cup loc[t].due, stored)'
  BY <1>1, <1>3 DEF Cover, Oldest
<1> QED BY <1>1, <1>2, <1>3, <1>4 DEF Cover

\* The batch is the oldest of what is open.
LEMMA PendingIsOldest ==
  ASSUME TypeInv, Oldest(Derived, stored)
  PROVE Oldest(Derived \cup Pending, stored)
<1> DEFINE open == stored \ Derived
           below(r) == {s \in open : s < r}
<1>1. open \subseteq Nat
  BY ReviewsAssumption DEF TypeInv, TypeOK
<1>2. Pending = {r \in open : Cardinality(below(r)) < Batch}
  BY DEF Pending
<1> HIDE DEF below
<1>3. ASSUME NEW r \in Derived \cup Pending, NEW s \in stored, s < r
      PROVE s \in Derived \cup Pending
  <2>1. CASE r \in Derived \/ s \in Derived
    BY <1>3, <2>1 DEF Oldest
  <2>2. CASE r \in Pending /\ s \in open
    <3>1. r \in open /\ Cardinality(below(r)) < Batch
      BY <1>2, <2>2
    <3>2. below(s) \subseteq below(r)
      BY <1>1, <1>3, <2>2, <3>1 DEF below
    <3>3. below(r) \subseteq stored
      BY DEF below
    <3>4. IsFiniteSet(below(r)) /\ Cardinality(below(r)) \in Nat
      BY <3>3, Sizes DEF TypeInv
    <3>5. Cardinality(below(s)) <= Cardinality(below(r)) /\ Cardinality(below(s)) \in Nat
      BY <3>2, <3>4, FS_Subset, FS_CardinalityType
    <3>6. Cardinality(below(s)) < Batch
      BY <3>1, <3>4, <3>5, BatchAssumption
    <3> QED BY <1>2, <2>2, <3>6
  <2> QED BY <2>1, <2>2
<1> QED BY <1>3 DEF Oldest

LEMMA CoverLoad ==
  ASSUME TypeInv, NEW t \in Tasks, Oldest(Derived, stored), kind = "metadata", Load(t)
  PROVE Cover(t)'
<1>1. PICK l \in Locs :
        /\ loc' = [loc EXCEPT ![t] = l]
        /\ l = [loc[t] EXCEPT !.due = Pending, !.seen = stored, !.batches = @ + 1]
  BY LoadEffect
<1>2. loc'[t].due = Pending /\ loc'[t].seen = stored
  BY <1>1, LocPut DEF TypeInv, TypeOK, Locs
<1>3. pc'[t] = "total" /\ stored' = stored /\ Derived' = Derived
  BY DEF Load, Goto, TypeInv, TypeOK, Derived
<1>4. Oldest(Derived \cup Pending, stored)
  BY PendingIsOldest
<1>5. Oldest(Derived \cup loc[t].due, stored)'
  BY <1>2, <1>3, <1>4 DEF Oldest
<1>6. Pending = {} => stored \subseteq Derived
  BY PendingWhenOpen
<1> QED BY <1>2, <1>3, <1>5, <1>6 DEF Cover

\* A step that changes neither the batch nor what was seen.
LEMMA CoverSame ==
  ASSUME TypeInv, NEW t \in Tasks, Cover(t), Oldest(Derived', stored), kind = "metadata",
         loc'[t].due = loc[t].due, loc'[t].seen = loc[t].seen, stored' = stored,
         kind' = kind, Derived \subseteq Derived',
         \/ pc[t] = "total" /\ pc'[t] = "before" /\ loc'[t].total = Cardinality(stored)
         \/ /\ pc[t] \in {"before", "insert"} /\ pc'[t] \in {"insert", "recount"}
            /\ loc'[t].total = loc[t].total
  PROVE Cover(t)'
<1>1. \A r \in Derived' \cup loc[t].due, s \in stored : s < r => s \in Derived' \cup loc[t].due
  <2> SUFFICES ASSUME NEW r \in Derived' \cup loc[t].due, NEW s \in stored, s < r
               PROVE s \in Derived' \cup loc[t].due
    OBVIOUS
  <2>1. CASE r \in Derived'
    BY <2>1 DEF Oldest
  <2>2. CASE r \in loc[t].due
    BY <2>2 DEF Cover, Oldest
  <2> QED BY <2>1, <2>2
<1>2. Oldest(Derived \cup loc[t].due, stored)'
  BY <1>1 DEF Oldest
<1>3. Cardinality(loc[t].seen) <= Cardinality(stored)
  BY Sizes, FS_Subset DEF TypeInv, Cover
<1> QED BY <1>2, <1>3 DEF Cover

LEMMA CoverCommits ==
  ASSUME TypeInv, NEW t \in Tasks, Cover(t), Oldest(Derived', stored), kind = "metadata",
         CountReviews(t) \/ CountBefore(t) \/ Insert(t) \/ Commit(t)
  PROVE Cover(t)'
<1>1. loc[t] \in Locs
  BY DEF TypeInv, TypeOK
<1>2. CASE CountReviews(t)
  <2> DEFINE l == [loc[t] EXCEPT !.total = Cardinality(stored)]
  <2>1. l \in Locs /\ loc' = [loc EXCEPT ![t] = l]
    BY <1>2, CountEffect
  <2>2. l.due = loc[t].due /\ l.seen = loc[t].seen /\ l.total = Cardinality(stored)
    BY <1>1 DEF Locs
  <2> HIDE DEF l
  <2>3. loc'[t] = l
    BY <2>1, LocPut DEF TypeInv
  <2>4. /\ pc[t] = "total" /\ pc'[t] = "before" /\ stored' = stored /\ kind' = kind
        /\ Derived' = Derived
    BY <1>2 DEF CountReviews, Goto, TypeInv, TypeOK, Derived
  <2> QED BY <2>2, <2>3, <2>4, CoverSame
<1>3. CASE CountBefore(t)
  <2> DEFINE l == [loc[t] EXCEPT !.before = Cardinality(Derived)]
  <2>1. l \in Locs /\ loc' = [loc EXCEPT ![t] = l]
    BY <1>3, CountEffect
  <2>2. l.due = loc[t].due /\ l.seen = loc[t].seen /\ l.total = loc[t].total
    BY <1>1 DEF Locs
  <2> HIDE DEF l
  <2>3. loc'[t] = l
    BY <2>1, LocPut DEF TypeInv
  <2>4. /\ pc[t] = "before" /\ pc'[t] = "insert" /\ stored' = stored /\ kind' = kind
        /\ Derived' = Derived
    BY <1>3 DEF CountBefore, Goto, TypeInv, TypeOK, Derived
  <2> QED BY <2>2, <2>3, <2>4, CoverSame
<1>4. CASE Insert(t)
  <2>1. /\ pc[t] = "insert" /\ pc' = pc /\ loc' = loc /\ stored' = stored /\ kind' = kind
        /\ Derived' = Derived
    BY <1>4 DEF Insert, Derived
  <2> QED BY <2>1, CoverSame
<1>5. CASE Commit(t)
  <2>1. /\ pc[t] = "insert" /\ pc'[t] = "recount" /\ loc' = loc /\ stored' = stored
        /\ kind' = kind /\ Derived \subseteq Derived'
    BY <1>5, CommitEffect DEF Commit
  <2> QED BY <2>1, CoverSame
<1> QED BY <1>2, <1>3, <1>4, <1>5

\* As many rows as reviews were counted, and the rows are of the oldest: what
\* was there before the count has a row.
LEMMA EnoughIsCovered ==
  ASSUME TypeInv, Oldest(Derived, stored), NEW S, S \subseteq stored,
         \A r \in stored \ S, s \in S : s < r,
         Cardinality(S) <= Cardinality(Derived)
  PROVE S \subseteq Derived
<1> SUFFICES ASSUME NEW s \in S, s \notin Derived PROVE FALSE
  OBVIOUS
<1>1. stored \subseteq Nat /\ Derived \subseteq stored
  BY ReviewsAssumption DEF TypeInv, TypeOK
<1>2. ASSUME NEW d \in Derived PROVE d \in S \ {s}
  <2>1. d \in Nat /\ s \in Nat /\ d # s
    BY <1>1
  <2>2. ~(s < d)
    BY <1>1 DEF Oldest
  <2>3. d \in S
    BY <1>1, <2>2
  <2> QED BY <2>1, <2>3
<1>3. Derived \subseteq S \ {s}
  BY <1>2
<1>4. IsFiniteSet(S) /\ Cardinality(S) \in Nat
  BY Sizes DEF TypeInv
<1>5. IsFiniteSet(S \ {s}) /\ Cardinality(S \ {s}) = Cardinality(S) - 1
  BY <1>4, FS_RemoveElement
<1>6. Cardinality(Derived) <= Cardinality(S) - 1 /\ Cardinality(Derived) \in Nat
  BY <1>3, <1>5, FS_Subset, FS_CardinalityType
<1> QED BY <1>4, <1>6

LEMMA CoverRecount ==
  ASSUME TypeInv, NEW t \in Tasks, Cover(t), Oldest(Derived, stored), kind = "metadata",
         Recount(t)
  PROVE Cover(t)'
<1>1. pc[t] = "recount" /\ UNCHANGED <<kind, stored, late, author>>
  BY DEF Recount
<1>2. Derived' = Derived
  BY <1>1 DEF Derived
<1>3. /\ loc[t].seen \subseteq stored
      /\ \A r \in stored \ loc[t].seen, s \in loc[t].seen : s < r
      /\ Cardinality(loc[t].seen) <= loc[t].total
      /\ loc[t].due = {} => loc[t].seen \subseteq Derived
  BY <1>1 DEF Cover
<1>4. /\ loc[t] \in Locs /\ loc[t].analysed \in Nat /\ loc[t].total \in Nat
      /\ Cardinality(Derived) \in Nat /\ loc[t].due \subseteq stored
  BY Sizes DEF TypeInv, TypeOK, Locs, Local
<1>5. CASE Alarmed(t) /\ End(t, "invisible", loc[t].analysed, Remaining(t))
  <2>1. Remaining(t) \in Int /\ "invisible" \in Outcomes
    BY <1>4 DEF Remaining, Outcomes
  <2> QED BY <1>1, <1>3, <1>4, <1>5, <2>1, CoverEnd
<1>6. CASE /\ loc' = [loc EXCEPT ![t] = Counted(t)] /\ Counted(t) \in Locs
           /\ \/ /\ Stops(t, Cardinality(loc[t].due), Remaining(t))
                 /\ Goto(t, "after")
              \/ Goto(t, "after") /\ result'[t].outcome = "capped"
              \/ Goto(t, "load")
  <2>1. loc'[t] = Counted(t) /\ pc'[t] \in {"after", "load"}
    BY <1>6, LocPut DEF Goto, TypeInv, TypeOK
  <2>2. Counted(t).due = {} /\ Counted(t).seen = loc[t].seen
    BY <1>4 DEF Counted, Locs
  <2>3. ASSUME Stops(t, Cardinality(loc[t].due), Remaining(t))
        PROVE loc[t].seen \subseteq Derived
    <3>1. CASE Cardinality(loc[t].due) = 0
      <4>1. IsFiniteSet(loc[t].due)
        BY <1>4, Sizes DEF TypeInv
      <4>2. loc[t].due = {}
        BY <3>1, <4>1, FS_EmptySet
      <4> QED BY <1>3, <4>2
    <3>2. CASE Remaining(t) = 0
      <4>1. loc[t].total <= Cardinality(Derived)
        BY <1>4, <3>2 DEF Remaining
      <4>2. Cardinality(loc[t].seen) \in Nat
        BY <1>3, Sizes DEF TypeInv
      <4>3. Cardinality(loc[t].seen) <= Cardinality(Derived)
        BY <1>3, <1>4, <4>1, <4>2
      <4> QED BY <1>3, <4>3, EnoughIsCovered
    <3> QED BY <2>3, <3>1, <3>2 DEF Stops
  <2>4. pc'[t] = "after" /\ result'[t].outcome = "covered" => loc[t].seen \subseteq Derived
    BY <1>6, <2>3 DEF Goto, TypeInv, TypeOK
  <2>5. Derived' \cup loc'[t].due = Derived
    BY <1>2, <2>1, <2>2
  <2>6. Oldest(Derived \cup loc[t].due, stored)'
    BY <1>1, <2>5 DEF Oldest
  <2> QED BY <1>1, <1>2, <1>3, <2>1, <2>2, <2>4, <2>6 DEF Cover
<1> QED BY <1>5, <1>6, RecountEffect

LEMMA CoverInit == Init => CoverInv
<1> SUFFICES ASSUME Init PROVE CoverInv
  OBVIOUS
<1>1. Derived = {} /\ stored = {}
  BY DEF Init, Derived
<1>2. Oldest(Derived, stored)
  BY <1>1 DEF Oldest
<1>3. ASSUME NEW t \in Tasks PROVE Cover(t)
  <2>1. loc[t].seen = {} /\ pc[t] = "idle"
    BY DEF Init, NoLoc
  <2>2. Oldest(Derived \cup loc[t].due, stored)
    BY <1>1 DEF Oldest
  <2> QED BY <2>1, <2>2 DEF Cover
<1> QED BY <1>2, <1>3 DEF CoverInv

LEMMA CoverStep == TypeInv /\ ReportInv /\ CoverInv /\ [Next]_vars => CoverInv'
<1> SUFFICES ASSUME TypeInv, ReportInv, CoverInv, [Next]_vars,
                    kind' = "metadata", ~late'
             PROVE Oldest(Derived, stored)' /\ \A t \in Tasks : Cover(t)'
  BY DEF CoverInv
<1>1. ASSUME NEW t \in Tasks, Open(t) \/ Step(t) \/ Dies(t)
      PROVE Oldest(Derived, stored)' /\ \A x \in Tasks : Cover(x)'
  <2>1. /\ kind' = kind /\ stored' = stored /\ late' = late
        /\ Alone(t) /\ (Commit(t) \/ author' = author)
    BY <1>1, OneMoves
  <2>2. /\ kind = "metadata" /\ Oldest(Derived, stored) /\ Apart
        /\ \A x \in Tasks : Cover(x) /\ Course(x)
    BY <2>1, Zenon DEF CoverInv, ReportInv
  <2>3. Derived \subseteq Derived'
    BY <1>1, <2>2, RowsGrow DEF ReportInv
  <2>4. Oldest(Derived', stored)
    <3>1. CASE Commit(t)
      <4>1. Derived' = Derived \cup loc[t].due
        BY <3>1, CommitEffect
      <4> QED BY <2>2, <4>1 DEF Cover
    <3>2. CASE author' = author
      BY <2>2, <3>2 DEF Derived
    <3> QED BY <2>1, <3>1, <3>2
  <2>5. Oldest(Derived, stored)'
    BY <2>1, <2>4 DEF Oldest
  <2>6. ASSUME NEW x \in Tasks, x # t PROVE Cover(x)'
    BY <2>1, <2>2, <2>3, <2>4, <2>6, CoverElsewhere DEF Alone
  <2>7. Cover(t)'
    <3>1. kind = "metadata" /\ Oldest(Derived, stored) /\ Cover(t) /\ Course(t)
      BY <2>1, <2>2
    <3>2. CASE QueryFails(t) \/ Conflict(t) \/ After(t) \/ Publish(t) \/ Dies(t)
      BY <3>1, <3>2, CoverEnds
    <3>3. CASE CountReviews(t) \/ CountBefore(t) \/ Insert(t) \/ Commit(t)
      BY <2>4, <3>1, <3>3, CoverCommits
    <3>4. CASE StartRefresh(t) \/ Delete(t) \/ Airlines(t) \/ Label(t)
      BY <3>1, <3>4 DEF Course, StartRefresh, Delete, Airlines, Label
    <3>5. CASE Open(t) \/ CountTables(t) \/ Load(t) \/ Recount(t)
      BY <3>1, <3>5, CoverOpen, CoverLoad, CoverRecount
    <3> QED BY <1>1, <3>2, <3>3, <3>4, <3>5 DEF Step
  <2> QED BY <2>5, <2>6, <2>7
<1>2. ASSUME NEW r \in Reviews, Arrive(r)
      PROVE Oldest(Derived, stored)' /\ \A x \in Tasks : Cover(x)'
  <2>1. /\ UNCHANGED <<kind, author, pc, loc, result>> /\ stored' = stored \cup {r}
        /\ r \notin stored /\ kind = "metadata" /\ ~late
        /\ \A s \in stored : ~(s > r)
    BY <1>2 DEF Arrive
  <2>2. \A s \in stored : s < r
    BY <2>1, ReviewsAssumption DEF TypeInv, TypeOK
  <2>3. Derived' = Derived /\ Derived \subseteq stored
    BY <2>1 DEF Derived, TypeInv, TypeOK
  <2>4. ASSUME NEW S, S \subseteq stored, Oldest(S, stored), NEW d \in S, NEW s \in stored',
  s < d
        PROVE s \in S
    <3>1. d \in Nat /\ r \in Nat /\ d < r
      BY <2>2, <2>4, ReviewsAssumption DEF TypeInv, TypeOK
    <3>2. s # r
      BY <2>4, <3>1
    <3> QED BY <2>1, <2>4, <3>2 DEF Oldest
  <2>5. Oldest(Derived, stored) /\ \A x \in Tasks : Cover(x)
    BY <2>1 DEF CoverInv
  <2>6. Oldest(Derived, stored)'
    BY <2>3, <2>4, <2>5 DEF Oldest
  <2>7. ASSUME NEW x \in Tasks PROVE Cover(x)'
    <3>1. Derived \cup loc[x].due \subseteq stored
      BY <2>3 DEF TypeInv, Local
    <3>2. Oldest(Derived \cup loc[x].due, stored)
      BY <2>5 DEF Cover
    <3>3. \A d \in Derived \cup loc[x].due,
    s \in stored' : s < d => s \in Derived \cup loc[x].due
      BY <2>4, <3>1, <3>2
    <3>4. Oldest(Derived \cup loc[x].due, stored)'
      BY <2>1, <2>3, <3>3 DEF Oldest
    <3>5. loc[x].seen \subseteq stored
      BY <2>5 DEF Cover
    <3>6. \A u \in stored' \ loc[x].seen, s \in loc[x].seen : s < u
      BY <2>1, <2>2, <2>5, <3>5 DEF Cover
    <3> QED BY <2>1, <2>3, <2>5, <3>4, <3>5, <3>6 DEF Cover
  <2> QED BY <2>6, <2>7
<1>3. CASE UNCHANGED vars
  <2>1. UNCHANGED <<kind, author, pc, loc, result, stored, late>> /\ Derived' = Derived
    BY <1>3 DEF vars, Derived
  <2> QED BY <2>1 DEF CoverInv, Cover, Oldest
<1> QED BY <1>1, <1>2, <1>3 DEF Next

\* While reviews arrive in order, an extraction that stops early has covered
\* what was stored when its last batch began.
THEOREM StopsWhenCovered == Spec => []CoveredMeansCovered
<1>1. TypeInv /\ ReportInv /\ CoverInv => CoveredMeansCovered
  <2> SUFFICES ASSUME TypeInv, ReportInv, CoverInv, NEW t \in Tasks,
                      kind = "metadata", result[t].outcome = "covered", ~late
               PROVE loc[t].seen \subseteq Derived
    BY DEF CoveredMeansCovered
  <2>1. Course(t) /\ Cover(t)
    BY DEF ReportInv, CoverInv
  <2> QED BY <2>1 DEF Course, Cover
<1>2. Init /\ [][Next]_vars => []CoverInv
  BY TypeCorrect, ReportInit, ReportStep, CoverInit, CoverStep, PTL DEF Spec
<1>3. Init /\ [][Next]_vars => []ReportInv
  BY TypeCorrect, ReportInit, ReportStep, PTL DEF Spec
<1> QED BY <1>1, <1>2, <1>3, TypeCorrect, PTL DEF Spec


-----------------------------------------------------------------------------
(* The topic refreshes. *)

\* What the steps of a refresh change.
LEMMA RefreshMoves ==
  ASSUME TypeInv, NEW t \in Tasks, Open(t) \/ Step(t) \/ Dies(t)
  PROVE /\ StartRefresh(t) \/ overlap' = overlap
        /\ Publish(t) \/ topics' = topics
        /\ Refreshing(t)' => StartRefresh(t) \/ Delete(t) \/ Airlines(t) \/ Label(t)
<1>1. CASE QueryFails(t) \/ Conflict(t) \/ After(t) \/ Publish(t) \/ Dies(t)
  <2>1. Ending(t) /\ overlap' = overlap
    BY <1>1, Ends
  <2>2. pc'[t] = "ended"
    BY <2>1, EndEffect DEF Ending, TypeInv
  <2>3. Publish(t) \/ topics' = topics
    BY <1>1 DEF QueryFails, Conflict, After, Dies
  <2> QED BY <2>1, <2>2, <2>3 DEF Refreshing
<1>2. CASE \/ Open(t) \/ CountTables(t) \/ Load(t) \/ CountReviews(t) \/ CountBefore(t)
           \/ StartRefresh(t) \/ Airlines(t) \/ Label(t) \/ Insert(t) \/ Delete(t)
  <2>1. \/ pc'[t] \in {"count", "load", "total", "before", "insert"}
        \/ StartRefresh(t) \/ Delete(t) \/ Airlines(t) \/ Label(t)
    BY <1>2 DEF Open, CountTables, Load, CountReviews, CountBefore, Insert, Goto, TypeInv,
       TypeOK
  <2>2. (StartRefresh(t) \/ overlap' = overlap) /\ topics' = topics
    BY <1>2 DEF Open, CountTables, Load, CountReviews, CountBefore, StartRefresh, Airlines,
       Label, Insert, Delete
  <2> QED BY <2>1, <2>2 DEF Refreshing
<1>3. CASE Commit(t)
  <2>1. pc'[t] = "recount" \/ pc'[t] = "refresh"
    BY <1>3, CommitEffect
  <2> QED BY <1>3, <2>1 DEF Commit, Refreshing
<1>4. CASE Recount(t)
  <2>1. pc'[t] \in {"ended", "after", "load"}
    BY <1>4 DEF Recount, End, Goto, TypeInv, TypeOK
  <2> QED BY <1>4, <2>1 DEF Recount, Refreshing
<1> QED BY <1>1, <1>2, <1>3, <1>4 DEF Step

LEMMA StartRefreshEffect ==
  ASSUME TypeInv, NEW t \in Tasks, StartRefresh(t)
  PROVE /\ pc[t] = "refresh" /\ pc'[t] = "delete" /\ loc'[t].snap = topics
        /\ topics' = topics /\ locked' = locked
        /\ overlap'[t] = (\E y \in Tasks : Refreshing(y))
        /\ \A x \in Tasks \ {t} : overlap'[x] = (overlap[x] \/ Refreshing(x))
<1> DEFINE l == [loc[t] EXCEPT !.snap = topics]
<1>1. l \in Locs /\ loc' = [loc EXCEPT ![t] = l]
  BY CountEffect
<1>2. l.snap = topics
  BY DEF TypeInv, TypeOK, Locs
<1> HIDE DEF l
<1>3. loc'[t] = l
  BY <1>1, LocPut DEF TypeInv
<1>4. /\ overlap'[t] = (\E y \in Tasks : Refreshing(y))
      /\ \A x \in Tasks \ {t} : overlap'[x] = (overlap[x] \/ Refreshing(x))
  BY DEF StartRefresh
<1>5. pc[t] = "refresh" /\ pc'[t] = "delete" /\ topics' = topics /\ locked' = locked
  BY DEF StartRefresh, Goto, TypeInv, TypeOK
<1> QED BY <1>2, <1>3, <1>4, <1>5

\* The steps that read what the snapshots are made of.
LEMMA TopicReads ==
  ASSUME TypeInv, NEW t \in Tasks, Airlines(t) \/ Label(t)
  PROVE /\ pc[t] \in {"airlines", "label"} /\ pc'[t] \in {"label", "publish"}
        /\ loc'[t].snap = loc[t].snap
        /\ UNCHANGED <<topics, locked, overlap, author, result, stored>>
<1>1. loc'[t].snap = loc[t].snap
  BY ReadEffect
<1>2. /\ pc[t] \in {"airlines", "label"} /\ pc'[t] \in {"label", "publish"}
      /\ UNCHANGED <<topics, locked, overlap, author, result, stored>>
  BY DEF Airlines, Label, Goto, TypeInv, TypeOK
<1> QED BY <1>1, <1>2

LEMMA DeleteEffect ==
  ASSUME TypeInv, NEW t \in Tasks, Delete(t)
  PROVE /\ pc[t] = "delete" /\ pc'[t] = "airlines" /\ locked'[t] = loc[t].snap \cap topics
        /\ UNCHANGED <<topics, loc, overlap, author, result>>
  BY DEF Delete, Goto, TypeInv, TypeOK

\* A refresh that no other overlaps deletes every generation there is.
Solo(t) ==
  Refreshing(t) /\ ~overlap[t] =>
    /\ \A x \in Tasks \ {t} : ~Refreshing(x)
    /\ pc[t] = "delete" => loc[t].snap = topics
    /\ pc[t] \in {"airlines", "label", "publish"} => locked[t] = topics
SoloInv == \A t \in Tasks : Solo(t)

LEMMA SoloStep == TypeInv /\ SoloInv /\ [Next]_vars => SoloInv'
<1> SUFFICES ASSUME TypeInv, SoloInv, [Next]_vars PROVE SoloInv'
  OBVIOUS
<1>1. ASSUME NEW t \in Tasks, Open(t) \/ Step(t) \/ Dies(t), NEW x \in Tasks \ {t}
      PROVE Solo(x)'
  <2>1. /\ pc'[x] = pc[x] /\ loc'[x] = loc[x] /\ locked'[x] = locked[x]
        /\ \A y \in Tasks \ {t} : pc'[y] = pc[y]
    BY <1>1, OneMoves DEF Alone
  <2>2. CASE ~Refreshing(x) \/ overlap'[x]
    BY <2>1, <2>2 DEF Solo, Refreshing
  <2>3. CASE Refreshing(x) /\ ~overlap'[x]
    <3>1. ~StartRefresh(t)
      <4> SUFFICES ASSUME StartRefresh(t) PROVE FALSE
        OBVIOUS
      <4>1. overlap'[x] = (overlap[x] \/ Refreshing(x))
        BY StartRefreshEffect
      <4> QED BY <2>3, <4>1, Zenon
    <3>2. overlap' = overlap
      BY <1>1, <3>1, RefreshMoves
    <3>3. ~overlap[x]
      BY <2>3, <3>2, Zenon
    <3>4. \A y \in Tasks \ {x} : ~Refreshing(y)
      BY <2>3, <3>3, Zenon DEF SoloInv, Solo
    <3>5. ~Refreshing(t)
      BY <1>1, <3>4
    <3>6. ~Refreshing(t)' /\ topics' = topics
      BY <1>1, <3>1, <3>5, RefreshMoves DEF Refreshing, Delete, Airlines, Label, Publish
    <3>7. \A y \in Tasks \ {x} : ~Refreshing(y)'
      BY <2>1, <3>4, <3>6 DEF Refreshing
    <3>8. /\ pc[x] = "delete" => loc[x].snap = topics
          /\ pc[x] \in {"airlines", "label", "publish"} => locked[x] = topics
      BY <2>3, <3>3, Zenon DEF SoloInv, Solo
    <3> QED BY <2>1, <3>6, <3>7, <3>8 DEF Solo
  <2> QED BY <2>2, <2>3
<1>2. ASSUME NEW t \in Tasks, Open(t) \/ Step(t) \/ Dies(t) PROVE Solo(t)'
  <2>1. \A y \in Tasks \ {t} : pc'[y] = pc[y]
    BY <1>2, OneMoves DEF Alone
  <2>2. CASE StartRefresh(t)
    <3>1. /\ pc'[t] = "delete" /\ loc'[t].snap = topics' /\ pc[t] = "refresh"
          /\ overlap'[t] = (\E y \in Tasks : Refreshing(y))
      BY <2>2, StartRefreshEffect
    <3>2. ~overlap'[t] => \A y \in Tasks \ {t} : ~Refreshing(y)
      BY <3>1, Zenon
    <3>3. ~overlap'[t] => \A y \in Tasks \ {t} : ~Refreshing(y)'
      BY <2>1, <3>2 DEF Refreshing
    <3> QED BY <3>1, <3>3 DEF Solo
  <2>3. CASE Delete(t) \/ Airlines(t) \/ Label(t)
    <3>1. overlap' = overlap /\ topics' = topics /\ Refreshing(t)
      BY <2>3, DeleteEffect, TopicReads DEF Refreshing
    <3>2. ~overlap'[t] => ~overlap[t]
      BY <3>1, Zenon
    <3>3. ~overlap[t] => \A y \in Tasks \ {t} : ~Refreshing(y)
      BY <3>1, Zenon DEF SoloInv, Solo
    <3>4. ~overlap'[t] => \A y \in Tasks \ {t} : ~Refreshing(y)'
      BY <2>1, <3>2, <3>3 DEF Refreshing
    <3>5. ~overlap'[t] =>
            /\ pc[t] = "delete" => loc[t].snap = topics
            /\ pc[t] \in {"airlines", "label", "publish"} => locked[t] = topics
      BY <3>1, <3>2, Zenon DEF SoloInv, Solo
    <3>6. CASE Delete(t)
      BY <3>1, <3>4, <3>5, <3>6, DeleteEffect DEF Solo
    <3>7. CASE Airlines(t) \/ Label(t)
      BY <3>1, <3>4, <3>5, <3>7, TopicReads DEF Solo
    <3> QED BY <2>3, <3>6, <3>7
  <2>4. CASE ~StartRefresh(t) /\ ~Delete(t) /\ ~Airlines(t) /\ ~Label(t)
    BY <1>2, <2>4, RefreshMoves DEF Solo
  <2> QED BY <2>2, <2>3, <2>4
<1>3. ASSUME NEW x \in Tasks, UNCHANGED <<pc, loc, rest>> PROVE Solo(x)'
  BY <1>3 DEF SoloInv, Solo, Refreshing
<1>4. ASSUME NEW r \in Reviews, Arrive(r) PROVE UNCHANGED <<pc, loc, rest>>
  BY <1>4 DEF Arrive
<1>5. CASE UNCHANGED vars
  BY <1>3, <1>5 DEF vars, SoloInv
<1> QED BY <1>1, <1>2, <1>3, <1>4, <1>5 DEF SoloInv, Next

\* Only a publication or a death ends a pass that is about to publish.
LEMMA SoloHeals ==
  ASSUME TypeInv, SoloInv, [Next]_vars, NEW t \in Tasks,
         pc[t] = "publish", pc'[t] = "ended", ~overlap[t]
  PROVE result'[t].outcome = "died" \/ Cardinality(topics') <= 1
<1>1. ASSUME NEW x \in Tasks, Open(x) \/ Step(x) \/ Dies(x)
      PROVE Publish(t) \/ Dies(t)
  <2>1. x = t
    BY <1>1, OneMoves DEF Alone
  <2> QED BY <1>1, <2>1 DEF Step, Open, CountTables, Load, CountReviews, CountBefore,
        StartRefresh, Airlines, Label, Delete, QueryFails, Conflict, After, Recount, Insert,
        Commit
<1>2. Publish(t) \/ Dies(t)
  BY <1>1 DEF Next, Arrive, vars
<1>3. CASE Dies(t)
  <2>1. "died" \in Outcomes
    BY DEF Outcomes
  <2>2. result'[t].outcome = "died"
    BY <1>3, <2>1, EndEffect DEF Dies, TypeInv
  <2> QED BY <2>2
<1>4. CASE Publish(t)
  <2> DEFINE g == [by |-> t, upto |-> loc[t].upto]
  <2>1. locked[t] = topics
    BY Zenon DEF SoloInv, Solo, Refreshing
  <2>2. topics' = IF loc[t].upto = {} THEN {} ELSE {g}
    BY <1>4, <2>1 DEF Publish
  <2>3. Cardinality({}) = 0 /\ Cardinality({g}) = 1
    BY FS_EmptySet, FS_Singleton
  <2> QED BY <2>2, <2>3
<1> QED BY <1>2, <1>3, <1>4

\* A topic refresh that no other overlaps leaves at most one generation.
THEOREM SoloRefreshIsWhole == Spec => SoloRefreshHeals
<1>1. TypeInv /\ SoloInv /\ [Next]_vars =>
        [\A t \in Tasks :
           pc[t] = "publish" /\ pc'[t] = "ended" /\ ~overlap[t] =>
             result'[t].outcome = "died" \/ Cardinality(topics') <= 1]_vars
  BY SoloHeals
<1>2. Init => SoloInv
  BY DEF Init, SoloInv, Solo, Refreshing
<1>3. Init /\ [][Next]_vars => []SoloInv
  BY <1>2, TypeCorrect, SoloStep, PTL DEF Spec
<1> QED BY <1>1, <1>3, TypeCorrect, PTL DEF Spec, SoloRefreshHeals

-----------------------------------------------------------------------------
(* The snapshots catch up. *)

\* A generation is published when its pass ends, and a pass ends once.
Known(t) == topics \cup loc[t].snap \cup locked[t]
KnownInv == \A t \in Tasks : \A g \in Known(t) : pc[g.by] = "ended"

LEMMA KnownStep == TypeInv /\ KnownInv /\ [Next]_vars => KnownInv'
<1> SUFFICES ASSUME TypeInv, KnownInv, [Next]_vars PROVE KnownInv'
  OBVIOUS
<1>1. ASSUME NEW t \in Tasks, Open(t) \/ Step(t) \/ Dies(t) PROVE KnownInv'
  <2>1. /\ \A x \in Tasks \ {t} : pc'[x] = pc[x] /\ loc'[x] = loc[x] /\ locked'[x] = locked[x]
    BY <1>1, OneMoves DEF Alone
  <2>2. \A x \in Tasks : Known(x) \subseteq Generations
    BY DEF TypeInv, TypeOK, Locs, Known
  <2>3. ASSUME NEW x \in Tasks, pc[x] = "ended" PROVE pc'[x] = "ended"
    BY <1>1, <2>1, <2>3 DEF Open, Step, CountTables, Load, CountReviews, CountBefore,
       StartRefresh, Airlines, Label, Delete, QueryFails, Conflict, After, Recount, Insert,
       Commit, Publish, Dies, Active
  <2>4. topics' \subseteq topics \cup {[by |-> t, upto |-> loc[t].upto]}
        /\ (topics' \subseteq topics \/ Publish(t))
    BY <1>1, RefreshMoves DEF Publish
  <2>5. Publish(t) => pc'[t] = "ended"
    BY DEF Publish, End, Goto, TypeInv, TypeOK
  <2>6. \A g \in topics' : pc'[g.by] = "ended"
    <3> SUFFICES ASSUME NEW g \in topics' PROVE pc'[g.by] = "ended"
      OBVIOUS
    <3>1. CASE g \in topics
      <4>1. g \in Known(t) /\ g.by \in Tasks
        BY <2>2, <3>1 DEF Known, Generations
      <4> QED BY <2>3, <4>1 DEF KnownInv
    <3>2. CASE g \notin topics
      BY <2>4, <2>5, <3>2
    <3> QED BY <3>1, <3>2
  <2>7. ASSUME NEW x \in Tasks PROVE loc'[x].snap \cup locked'[x] \subseteq Known(x)
    <3>1. CASE x # t
      BY <2>1, <3>1 DEF Known
    <3>2. CASE x = t
      <4>1. loc[t] \in Locs /\ NoLoc \in Locs
        BY NoLocType DEF TypeInv, TypeOK
      <4>2. CASE StartRefresh(t)
        BY <3>2, <4>2, StartRefreshEffect DEF Known
      <4>3. CASE Airlines(t) \/ Label(t)
        BY <3>2, <4>3, TopicReads DEF Known
      <4>4. CASE Delete(t)
        BY <3>2, <4>4, DeleteEffect DEF Known
      <4>5. CASE QueryFails(t) \/ Conflict(t) \/ After(t) \/ Publish(t) \/ Dies(t)
        <5>1. PICK o \in Outcomes, a \in Nat, r \in Int : End(t, o, a, r)
          BY <4>5, Ends DEF Ending
        <5>2. locked'[t] = {} /\ loc'[t].snap = {}
          BY <5>1, EndEffect DEF End, NoLoc, TypeInv, TypeOK
        <5> QED BY <3>2, <5>2
      <4>6. CASE Open(t) \/ CountTables(t) \/ Load(t) \/ CountReviews(t) \/ CountBefore(t)
                 \/ Insert(t) \/ Commit(t)
        <5>1. locked' = locked /\ loc'[t].snap = loc[t].snap
          BY <4>1, <4>6, ReadEffect DEF Open, CountTables, Load, CountReviews, CountBefore,
             Insert, Commit, TypeInv,
             TypeOK, Locs
        <5> QED BY <3>2, <5>1 DEF Known
      <4>7. CASE Recount(t)
        <5>1. (locked'[t] = {} /\ loc'[t].snap = {})
              \/ (locked' = locked /\ loc'[t].snap = loc[t].snap)
          BY <4>1, <4>7 DEF Recount, End, NoLoc, TypeInv, TypeOK, Locs
        <5> QED BY <3>2, <5>1 DEF Known
      <4> QED BY <1>1, <4>2, <4>3, <4>4, <4>5, <4>6, <4>7 DEF Step
    <3> QED BY <3>1, <3>2
  <2>8. ASSUME NEW x \in Tasks, NEW g \in loc'[x].snap \cup locked'[x]
        PROVE pc'[g.by] = "ended"
    <3>1. g \in Known(x) /\ g.by \in Tasks
      BY <2>2, <2>7, <2>8 DEF Generations
    <3> QED BY <2>3, <3>1 DEF KnownInv
  <2> QED BY <2>6, <2>8 DEF KnownInv, Known
<1>2. ASSUME UNCHANGED <<pc, loc, rest>> PROVE KnownInv'
  BY <1>2 DEF KnownInv, Known
<1>3. ASSUME NEW r \in Reviews, Arrive(r) PROVE UNCHANGED <<pc, loc, rest>>
  BY <1>3 DEF Arrive
<1>4. CASE UNCHANGED vars
  BY <1>2, <1>4 DEF vars
<1> QED BY <1>1, <1>2, <1>3, <1>4 DEF Next

\* What a refresh has read are results, and it publishes when it has read
\* every airline.
ReadInv ==
  \A t \in Tasks : /\ loc[t].upto \subseteq Derived
                   /\ pc[t] = "publish" => loc[t].unread = {}

LEMMA ReadStep == TypeInv /\ ReadInv /\ [Next]_vars => ReadInv'
<1> SUFFICES ASSUME TypeInv, ReadInv, [Next]_vars PROVE ReadInv'
  OBVIOUS
<1>1. ASSUME NEW t \in Tasks, Open(t) \/ Step(t) \/ Dies(t) PROVE ReadInv'
  <2>1. /\ \A x \in Tasks \ {t} : pc'[x] = pc[x] /\ loc'[x] = loc[x]
        /\ Commit(t) \/ author' = author
    BY <1>1, OneMoves DEF Alone
  <2>2. Derived \subseteq Derived'
    BY <2>1, CommitEffect DEF Derived
  <2>3. ASSUME NEW x \in Tasks \ {t}
        PROVE loc'[x].upto \subseteq Derived' /\ (pc'[x] = "publish" => loc'[x].unread = {})
    BY <2>1, <2>2 DEF ReadInv
  <2>4. loc[t] \in Locs /\ loc[t].upto \subseteq Derived
    BY DEF TypeInv, TypeOK, ReadInv
  <2>5. loc'[t].upto \subseteq Derived'
    <3>1. CASE QueryFails(t) \/ Conflict(t) \/ After(t) \/ Publish(t) \/ Dies(t)
      <4>1. \E o, a, r : End(t, o, a, r)
        BY <3>1, Ends DEF Ending
      <4> QED BY <4>1 DEF End, NoLoc, TypeInv, TypeOK
    <3>2. CASE Label(t)
      <4>1. PICK s \in loc[t].unread :
              LET l == [loc[t] EXCEPT !.unread = @ \ {s},
                                      !.upto = @ \cup {r \in Derived : Subject[r] = s}]
              IN  loc' = [loc EXCEPT ![t] = l]
        BY <3>2, LabelEffect
      <4>2. loc'[t].upto = loc[t].upto \cup {r \in Derived : Subject[r] = s}
        BY <2>4, <4>1 DEF TypeInv, TypeOK, Locs
      <4> QED BY <2>2, <2>4, <4>2
    <3>3. CASE Load(t) \/ CountReviews(t) \/ CountBefore(t)
      <4>1. loc'[t].upto = loc[t].upto
        BY <2>4, <3>3 DEF Load, CountReviews, CountBefore, TypeInv, TypeOK, Locs
      <4> QED BY <2>2, <2>4, <4>1
    <3>4. CASE CountTables(t) \/ Airlines(t)
      <4>1. loc'[t].upto = loc[t].upto
        BY <2>4, <3>4 DEF CountTables, Airlines, TypeInv, TypeOK, Locs
      <4> QED BY <2>2, <2>4, <4>1
    <3>5. CASE Open(t) \/ Insert(t) \/ Commit(t) \/ Delete(t)
      <4>1. loc' = loc
        BY <3>5 DEF Open, Insert, Commit, Delete
      <4> QED BY <2>2, <2>4, <4>1
    <3>6. CASE Recount(t)
      <4>1. Counted(t).upto = loc[t].upto
        BY <2>4 DEF Counted, Locs
      <4>2. CASE loc' = [loc EXCEPT ![t] = Counted(t)] /\ Counted(t) \in Locs
        BY <2>2, <2>4, <4>1, <4>2, LocPut DEF TypeInv
      <4>3. CASE End(t, "invisible", loc[t].analysed, Remaining(t))
        BY <4>3 DEF End, NoLoc, TypeInv, TypeOK
      <4> QED BY <3>6, <4>2, <4>3, RecountEffect
    <3>7. CASE StartRefresh(t)
      <4>1. loc' = [loc EXCEPT ![t].snap = topics]
        BY <3>7 DEF StartRefresh
      <4>2. loc'[t].upto = loc[t].upto
        BY <2>4, <4>1 DEF TypeInv, TypeOK, Locs
      <4> QED BY <2>2, <2>4, <4>2
    <3> QED BY <1>1, <3>1, <3>2, <3>3, <3>4, <3>5, <3>6, <3>7 DEF Step
  <2>6. ASSUME pc'[t] = "publish" PROVE loc'[t].unread = {}
    <3>1. Airlines(t) \/ Label(t)
      BY <1>1, <2>6, RefreshMoves, StartRefreshEffect, DeleteEffect DEF Refreshing
    <3>2. CASE Airlines(t)
      <4>1. PICK list \in SUBSET Subjects :
              LET l == [loc[t] EXCEPT !.unread = list]
              IN  /\ loc' = [loc EXCEPT ![t] = l]
                  /\ pc'[t] = IF list = {} THEN "publish" ELSE "label"
        BY <3>2, AirlinesEffect
      <4>2. loc'[t].unread = list /\ list = {}
        BY <2>4, <2>6, <4>1 DEF TypeInv, TypeOK, Locs
      <4> QED BY <4>2
    <3>3. CASE Label(t)
      <4>1. PICK s \in loc[t].unread :
              LET l == [loc[t] EXCEPT !.unread = @ \ {s},
                                      !.upto = @ \cup {r \in Derived : Subject[r] = s}]
              IN  /\ loc' = [loc EXCEPT ![t] = l]
                  /\ pc'[t] = IF loc[t].unread = {s} THEN "publish" ELSE "label"
        BY <3>3, LabelEffect
      <4>2. loc'[t].unread = loc[t].unread \ {s} /\ loc[t].unread = {s}
        BY <2>4, <2>6, <4>1 DEF TypeInv, TypeOK, Locs
      <4> QED BY <4>2
    <3> QED BY <3>1, <3>2, <3>3
  <2> QED BY <2>3, <2>5, <2>6 DEF ReadInv
<1>2. ASSUME UNCHANGED <<author, pc, loc>> PROVE ReadInv'
  BY <1>2 DEF ReadInv, Derived
<1>3. ASSUME NEW r \in Reviews, Arrive(r) PROVE UNCHANGED <<author, pc, loc>>
  BY <1>3 DEF Arrive
<1>4. CASE UNCHANGED vars
  BY <1>2, <1>4 DEF vars
<1> QED BY <1>1, <1>2, <1>3, <1>4 DEF Next

\* The refresh has read every result there is, or has yet to.
Fresh(t) == \A r \in Derived : Subject[r] \in loc[t].unread \/ r \in loc[t].upto

\* Some generation is of all the results, and no refresh that has begun to read
\* deletes it.
CaughtUp ==
  \E g \in topics :
    /\ g.upto = Derived
    /\ \A x \in Tasks : pc[x] \in {"label", "publish"} => g \notin locked[x]

\* Results without such a generation are seen by a refresh yet to read or to
\* publish, unless a pass has died.
CatchInv ==
  kind = "nlp" =>
    \/ Derived = {}
    \/ \E t \in Tasks : result[t].outcome = "died"
    \/ \E t \in Tasks : pc[t] \in {"refresh", "delete", "airlines"}
    \/ \E t \in Tasks : pc[t] \in {"label", "publish"} /\ Fresh(t)
    \/ CaughtUp

\* What ended keeps its outcome.
LEMMA EndedStays ==
  ASSUME TypeInv, ReportInv, NEW t \in Tasks, Open(t) \/ Step(t) \/ Dies(t)
  PROVE pc[t] # "ended" /\ result[t].outcome # "died"
<1>1. pc[t] # "ended"
  BY DEF Open, Step, CountTables, Load, CountReviews, CountBefore, StartRefresh, Airlines,
     Label, Delete, QueryFails, Conflict, After, Recount, Insert, Commit, Publish, Dies, Active
<1>2. Course(t)
  BY DEF ReportInv
<1> QED BY <1>1, <1>2 DEF Course

\* A step of a pass that is not refreshing, or is reading the results, keeps
\* what is known of the others.
LEMMA CatchKept ==
  ASSUME TypeInv, ReportInv, CatchInv, NEW t \in Tasks,
         Open(t) \/ Step(t) \/ Dies(t), kind = "nlp",
         topics' = topics, author' = author,
         pc[t] \notin {"refresh", "delete", "airlines", "publish"},
         pc'[t] \in {"label", "publish"} => pc[t] = "label" /\ locked'[t] = locked[t],
         pc[t] = "label" /\ Fresh(t) => pc'[t] \in {"label", "publish"} /\ Fresh(t)'
  PROVE CatchInv'
<1>1. /\ \A x \in Tasks \ {t} : /\ pc'[x] = pc[x] /\ loc'[x] = loc[x]
                                /\ locked'[x] = locked[x] /\ result'[x] = result[x]
      /\ Derived' = Derived
  BY OneMoves DEF Alone, Derived
<1>2. CASE CaughtUp
  <2>1. PICK h \in topics :
          /\ h.upto = Derived
          /\ \A x \in Tasks : pc[x] \in {"label", "publish"} => h \notin locked[x]
    BY <1>2 DEF CaughtUp
  <2>2. \A x \in Tasks : pc'[x] \in {"label", "publish"} => h \notin locked'[x]
    BY <1>1, <2>1
  <2>3. CaughtUp'
    BY <1>1, <2>1, <2>2 DEF CaughtUp
  <2> QED BY <2>3 DEF CatchInv
<1>3. CASE Derived = {}
  BY <1>1, <1>3 DEF CatchInv
<1>4. CASE \E x \in Tasks : result[x].outcome = "died"
  <2>1. result[t].outcome # "died"
    BY EndedStays
  <2> QED BY <1>1, <1>4, <2>1 DEF CatchInv
<1>5. CASE \E x \in Tasks : pc[x] \in {"refresh", "delete", "airlines"}
  BY <1>1, <1>5 DEF CatchInv
<1>6. CASE \E x \in Tasks : pc[x] \in {"label", "publish"} /\ Fresh(x)
  <2>1. PICK x \in Tasks : pc[x] \in {"label", "publish"} /\ Fresh(x)
    BY <1>6
  <2>2. CASE x = t
    BY <2>1, <2>2 DEF CatchInv
  <2>3. CASE x # t
    <3>1. pc'[x] \in {"label", "publish"} /\ Fresh(x)'
      BY <1>1, <2>1, <2>3 DEF Fresh
    <3> QED BY <3>1 DEF CatchInv
  <2> QED BY <2>2, <2>3
<1> QED BY <1>2, <1>3, <1>4, <1>5, <1>6 DEF CatchInv

LEMMA CatchAirlines ==
  ASSUME TypeInv, NEW t \in Tasks, Airlines(t)
  PROVE CatchInv'
<1>1. PICK list \in SUBSET Subjects :
        LET l == [loc[t] EXCEPT !.unread = list]
        IN  /\ {Subject[r] : r \in stored} \subseteq list
            /\ loc' = [loc EXCEPT ![t] = l]
            /\ pc'[t] = IF list = {} THEN "publish" ELSE "label"
  BY AirlinesEffect
<1>2. loc'[t].unread = list
  BY <1>1 DEF TypeInv, TypeOK, Locs
<1>3. Derived' = Derived /\ Derived \subseteq stored
  BY DEF Airlines, Derived, TypeInv, TypeOK
<1>4. Fresh(t)' /\ pc'[t] \in {"label", "publish"}
  BY <1>1, <1>2, <1>3 DEF Fresh
<1> QED BY <1>4 DEF CatchInv

\* A refresh that misses no result keeps missing none.
LEMMA LabelIsFresh ==
  ASSUME TypeInv, NEW t \in Tasks, Label(t), Fresh(t)
  PROVE Fresh(t)'
<1>1. PICK s \in loc[t].unread :
        LET l == [loc[t] EXCEPT !.unread = @ \ {s},
                                !.upto = @ \cup {r \in Derived : Subject[r] = s}]
        IN  loc' = [loc EXCEPT ![t] = l]
  BY LabelEffect
<1>2. /\ loc'[t].unread = loc[t].unread \ {s}
      /\ loc'[t].upto = loc[t].upto \cup {r \in Derived : Subject[r] = s}
  BY <1>1 DEF TypeInv, TypeOK, Locs
<1>3. Derived' = Derived
  BY DEF Label, Derived
<1> QED BY <1>2, <1>3 DEF Fresh

LEMMA CatchMoves ==
  ASSUME TypeInv, ReportInv, KnownInv, ReadInv, CatchInv,
         NEW t \in Tasks, Open(t) \/ Step(t) \/ Dies(t), kind = "nlp"
  PROVE CatchInv'
<1>1. /\ \A x \in Tasks \ {t} : /\ pc'[x] = pc[x] /\ loc'[x] = loc[x]
                                /\ locked'[x] = locked[x] /\ result'[x] = result[x]
      /\ Commit(t) \/ author' = author
  BY OneMoves DEF Alone
<1>2. Course(t) /\ Tally(t)
  BY DEF ReportInv
<1>3. CASE Commit(t)
  <2>1. pc'[t] = "refresh"
    BY <1>3, CommitEffect
  <2> QED BY <2>1 DEF CatchInv
<1>4. CASE StartRefresh(t)
  BY <1>4, StartRefreshEffect DEF CatchInv
<1>5. CASE Delete(t)
  BY <1>5, DeleteEffect DEF CatchInv
<1>6. CASE Airlines(t)
  BY <1>6, CatchAirlines
<1>7. CASE Label(t)
  <2>1. pc[t] = "label"
    BY <1>7 DEF Label
  <2>2. /\ pc'[t] \in {"label", "publish"}
        /\ topics' = topics /\ author' = author /\ locked' = locked
    BY <1>7, TopicReads
  <2>3. Fresh(t) => Fresh(t)'
    BY <1>7, LabelIsFresh
  <2> QED BY <2>1, <2>2, <2>3, CatchKept
<1>8. CASE Dies(t)
  <2>1. "died" \in Outcomes /\ End(t, "died", 0, 0)
    BY <1>8 DEF Outcomes, Dies
  <2>2. TypeOK
    BY DEF TypeInv
  <2>3. result'[t].outcome = "died"
    BY <2>1, <2>2, EndEffect
  <2> QED BY <2>3 DEF CatchInv
<1>9. CASE Publish(t)
  <2> DEFINE g == [by |-> t, upto |-> loc[t].upto]
  <2>1. /\ pc[t] = "publish" /\ author' = author
        /\ topics' = (topics \ locked[t]) \cup (IF loc[t].upto = {} THEN {} ELSE {g})
    BY <1>9 DEF Publish
  <2>2. Derived' = Derived /\ pc'[t] = "ended"
    BY <1>9 DEF Derived, Publish, End, Goto, TypeInv, TypeOK
  <2>3. CASE Fresh(t) /\ Derived # {}
    <3>1. loc[t].upto = Derived
      BY <2>1, <2>3 DEF ReadInv, Fresh
    <3>2. g \in topics' /\ g.upto = Derived' /\ g.by = t
      BY <2>1, <2>2, <2>3, <3>1
    <3>3. \A x \in Tasks : g \notin locked[x]
      BY <2>1, <3>2 DEF KnownInv, Known
    <3>4. \A x \in Tasks : pc'[x] \in {"label", "publish"} => g \notin locked'[x]
      BY <1>1, <2>2, <3>3
    <3>5. CaughtUp'
      BY <3>2, <3>4 DEF CaughtUp
    <3> QED BY <3>5 DEF CatchInv
  <2>4. CASE CaughtUp
    <3>1. PICK h \in topics :
            /\ h.upto = Derived
            /\ \A x \in Tasks : pc[x] \in {"label", "publish"} => h \notin locked[x]
      BY <2>4 DEF CaughtUp
    <3>2. h \in topics' /\ h.upto = Derived'
      BY <2>1, <2>2, <3>1
    <3>3. \A x \in Tasks : pc'[x] \in {"label", "publish"} => h \notin locked'[x]
      BY <1>1, <2>2, <3>1
    <3>4. CaughtUp'
      BY <3>2, <3>3 DEF CaughtUp
    <3> QED BY <3>4 DEF CatchInv
  <2>5. CASE Derived = {}
    BY <2>2, <2>5 DEF CatchInv
  <2>6. CASE \E x \in Tasks : result[x].outcome = "died"
    <3>1. result[t].outcome # "died"
      BY EndedStays
    <3> QED BY <1>1, <2>6, <3>1 DEF CatchInv
  <2>7. CASE \E x \in Tasks : pc[x] \in {"refresh", "delete", "airlines"}
    BY <1>1, <2>1, <2>7 DEF CatchInv
  <2>8. ASSUME NEW x \in Tasks \ {t}, pc[x] \in {"label", "publish"}, Fresh(x)
        PROVE CatchInv'
    <3>1. pc'[x] \in {"label", "publish"} /\ Fresh(x)'
      BY <1>1, <2>2, <2>8 DEF Fresh
    <3> QED BY <3>1 DEF CatchInv
  <2> QED BY <2>3, <2>4, <2>5, <2>6, <2>7, <2>8 DEF CatchInv
<1>10. CASE ~(\/ Commit(t) \/ StartRefresh(t) \/ Delete(t) \/ Airlines(t) \/ Label(t)
              \/ Publish(t) \/ Dies(t))
  <2>1. topics' = topics /\ author' = author /\ pc'[t] \notin {"label", "publish"}
    BY <1>1, <1>10, RefreshMoves DEF Refreshing
  <2>2. pc[t] \notin {"refresh", "delete", "airlines", "label", "publish"}
    BY <1>2, <1>10 DEF Step, Open, CountTables, Load, CountReviews, CountBefore, QueryFails,
       Conflict, After, Recount, Insert, Course
  <2> QED BY <2>1, <2>2, CatchKept
<1> QED BY <1>3, <1>4, <1>5, <1>6, <1>7, <1>8, <1>9, <1>10

LEMMA CatchStep ==
  TypeInv /\ ReportInv /\ KnownInv /\ ReadInv /\ CatchInv /\ [Next]_vars => CatchInv'
<1> SUFFICES ASSUME TypeInv, ReportInv, KnownInv, ReadInv, CatchInv, [Next]_vars
             PROVE CatchInv'
  OBVIOUS
<1>1. ASSUME NEW t \in Tasks, Open(t) \/ Step(t) \/ Dies(t) PROVE CatchInv'
  <2>1. kind' = kind
    BY <1>1, OneMoves
  <2>2. CASE kind = "nlp"
    BY <1>1, <2>2, CatchMoves
  <2>3. CASE kind # "nlp"
    BY <2>1, <2>3 DEF CatchInv
  <2> QED BY <2>2, <2>3
<1>2. ASSUME UNCHANGED <<kind, author, pc, loc, result, rest>> PROVE CatchInv'
  BY <1>2 DEF CatchInv, CaughtUp, Fresh, Derived
<1>3. ASSUME NEW r \in Reviews, Arrive(r)
      PROVE UNCHANGED <<kind, author, pc, loc, result, rest>>
  BY <1>3 DEF Arrive
<1>4. CASE UNCHANGED vars
  BY <1>2, <1>4 DEF vars
<1> QED BY <1>1, <1>2, <1>3, <1>4 DEF Next

\* Once every enrichment has ended without dying, some generation counts all
\* the results there are.
THEOREM SnapshotsCatchUp == Spec => []TopicsCatchUp
<1>1. ReportInv /\ CatchInv => TopicsCatchUp
  <2> SUFFICES ASSUME ReportInv, CatchInv, kind = "nlp", Derived # {},
                      \A t \in Tasks : ~Active(t),
                      \A t \in Tasks : result[t].outcome # "died"
               PROVE \E g \in topics : g.upto = Derived
    BY DEF TopicsCatchUp
  <2>1. \A t \in Tasks : pc[t] \in {"idle", "ended"}
    BY DEF Active
  <2>2. CaughtUp
    BY <2>1 DEF CatchInv
  <2> QED BY <2>2 DEF CaughtUp
<1>2. Init => KnownInv /\ ReadInv /\ CatchInv
  BY DEF Init, KnownInv, Known, NoLoc, ReadInv, CatchInv, Derived
<1>3. Init /\ [][Next]_vars => []KnownInv
  BY <1>2, TypeCorrect, KnownStep, PTL DEF Spec
<1>4. Init /\ [][Next]_vars => []ReportInv
  BY TypeCorrect, ReportInit, ReportStep, PTL DEF Spec
<1>5. Init /\ [][Next]_vars => []ReadInv
  BY <1>2, TypeCorrect, ReadStep, PTL DEF Spec
<1>6. Init /\ [][Next]_vars => []CatchInv
  BY <1>2, <1>3, <1>4, <1>5, TypeCorrect, CatchStep, PTL DEF Spec
<1> QED BY <1>1, <1>4, <1>6, PTL DEF Spec
=============================================================================
