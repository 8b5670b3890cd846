-------------------------- MODULE EffectiveMenuProofs --------------------------
(***************************************************************************)
(* Proofs about EffectiveMenu: what was on sale, or withheld, all along is  *)
(* on the menu, or off it, however many writes came in between the reads;   *)
(* and ValidUntil is the first instant at which the promotions change.      *)
(***************************************************************************)
EXTENDS EffectiveMenu, FiniteSetTheorems, WellFoundedInduction, TLAPS

-----------------------------------------------------------------------------
(* The writes: each of them is an Edit to well-typed tables.               *)

LEMMA CategoryWrites ==
    ASSUME db \in Tables, NEW c \in Categories,
           CreateCategory(c) \/ UpdateCategory(c) \/ DeleteCategory(c)
    PROVE  \E t \in Tables, r \in BOOLEAN : Edit(t, r)
<1>1. \A s \in RowState : [db EXCEPT !.category[c] = s] \in Tables
    BY DEF Tables
<1>2. \E s \in RowState : Edit([db EXCEPT !.category[c] = s], FALSE)
    BY DEF CreateCategory, UpdateCategory, DeleteCategory, RowState, Live
<1> QED BY <1>1, <1>2

LEMMA ItemWrites ==
    ASSUME db \in Tables, NEW i \in Items,
           CreateItem(i) \/ UpdateItem(i) \/ DeleteItem(i)
    PROVE  \E t \in Tables, r \in BOOLEAN : Edit(t, r)
<1>1. \A s \in RowState, c \in Categories, price \in Nat :
          [db EXCEPT !.item[i] = [state |-> s, category |-> c, price |-> price]] \in Tables
    BY DEF Tables, ItemRow
<1>2. [db EXCEPT !.item[i].state = "deleted"] \in Tables
  <2>1. db.item[i] \in ItemRow
    BY DEF Tables
  <2>2. [db.item[i] EXCEPT !.state = "deleted"] \in ItemRow
    BY <2>1 DEF ItemRow, RowState
  <2>3. \A row \in ItemRow : [db EXCEPT !.item[i] = row] \in Tables
    BY DEF Tables
  <2>4. QED
    BY <2>2, <2>3
<1>3. Prices \subseteq Nat /\ Live \subseteq RowState /\ "active" \in RowState
    BY EffectiveMenuAssumption DEF Live, RowState
<1>4. CASE CreateItem(i)
    BY <1>1, <1>3, <1>4 DEF CreateItem
<1>5. CASE UpdateItem(i)
    BY <1>1, <1>3, <1>5 DEF UpdateItem
<1>6. CASE DeleteItem(i)
    BY <1>2, <1>6 DEF DeleteItem
<1> QED BY <1>4, <1>5, <1>6

LEMMA OverrideWrites ==
    ASSUME db \in Tables, NEW i \in Items, SetOverride(i) \/ DeleteOverride(i)
    PROVE  \E t \in Tables, r \in BOOLEAN : Edit(t, r)
<1>1. \A row \in OverrideRow : [db EXCEPT !.override[i] = row] \in Tables
    BY DEF Tables
<1>2. NoOverride \in OverrideRow
    BY DEF NoOverride, OverrideRow
<1>3. \A price \in Prices \cup {Null}, available \in {"yes", "no", Null} :
          [price |-> price, available |-> available] \in OverrideRow
    BY EffectiveMenuAssumption DEF OverrideRow
<1>4. CASE SetOverride(i)
    BY <1>1, <1>3, <1>4 DEF SetOverride
<1>5. CASE DeleteOverride(i)
    BY <1>1, <1>2, <1>5 DEF DeleteOverride
<1> QED BY <1>4, <1>5

LEMMA VariationWrites ==
    ASSUME db \in Tables, NEW v \in Variations,
           CreateVariation(v) \/ UpdateVariation(v) \/ DeleteVariation(v)
    PROVE  \E t \in Tables, r \in BOOLEAN : Edit(t, r)
<1>1. \A row \in VariationRow : [db EXCEPT !.variation[v] = row] \in Tables
    BY DEF Tables
<1>2. [db EXCEPT !.variation[v].state = "inactive"] \in Tables
  <2>1. db.variation[v] \in VariationRow
    BY DEF Tables
  <2>2. [db.variation[v] EXCEPT !.state = "inactive"] \in VariationRow
    BY <2>1 DEF VariationRow
  <2>3. QED
    BY <1>1, <2>2
<1>3. \A s \in Live, d \in Deltas : [state |-> s, delta |-> d] \in VariationRow
    BY EffectiveMenuAssumption DEF VariationRow, Live
<1>4. CASE CreateVariation(v)
    BY <1>1, <1>3, <1>4 DEF CreateVariation, Live
<1>5. CASE UpdateVariation(v)
    BY <1>1, <1>3, <1>5 DEF UpdateVariation
<1>6. CASE DeleteVariation(v)
    BY <1>2, <1>6 DEF DeleteVariation
<1> QED BY <1>4, <1>5, <1>6

LEMMA PromotionWrites ==
    ASSUME db \in Tables, NEW p \in Promotions,
           CreatePromotion(p) \/ UpdatePromotion(p) \/ DeletePromotion(p)
    PROVE  \E t \in Tables, r \in BOOLEAN : Edit(t, r)
<1>1. \A row \in PromotionRow : [db EXCEPT !.promotion[p] = row] \in Tables
    BY DEF Tables
<1>2. [db EXCEPT !.promotion[p].state = "deleted"] \in Tables
  <2>1. db.promotion[p] \in PromotionRow
    BY DEF Tables
  <2>2. [db.promotion[p] EXCEPT !.state = "deleted"] \in PromotionRow
    BY <2>1 DEF PromotionRow, RowState
  <2>3. QED
    BY <1>1, <2>2
<1>3. \A s \in Live, o \in Offer :
          [db EXCEPT !.promotion[p] = [state |-> s, scope |-> @.scope, offer |-> o]] \in Tables
    BY DEF Tables, PromotionRow, RowState, Live
<1>4. \A s \in Live, scope \in Scopes, o \in Offer :
          [state |-> s, scope |-> scope, offer |-> o] \in PromotionRow
    BY DEF PromotionRow, RowState, Live
<1>5. Offers \subseteq Offer
    BY EffectiveMenuAssumption
<1>6. CASE CreatePromotion(p)
    BY <1>1, <1>4, <1>5, <1>6 DEF CreatePromotion
<1>7. CASE UpdatePromotion(p)
    BY <1>3, <1>5, <1>7 DEF UpdatePromotion
<1>8. CASE DeletePromotion(p)
    BY <1>2, <1>8 DEF DeletePromotion
<1> QED BY <1>6, <1>7, <1>8

LEMMA WritesAreEdits ==
    ASSUME db \in Tables, CatalogueWrites
    PROVE  \E t \in Tables, r \in BOOLEAN : Edit(t, r)
BY CategoryWrites, ItemWrites, OverrideWrites, VariationWrites, PromotionWrites
   DEF CatalogueWrites

\* Whatever a write does, the histories stay true of the tables and the reads
\* stay true of the histories, which only lose members.
LEMMA EditKeeps ==
    ASSUME IInv, NEW t \in Tables, NEW r \in BOOLEAN, Edit(t, r)
    PROVE  IInv'
<1> USE DEF Edit, readVars, answerVars
<1>1. TablesTyped'
    BY EffectiveMenuAssumption DEF IInv, TablesTyped
<1>2. ReadsTyped' /\ AnswerTyped' /\ (pc \in AfterOverrides => overs \in [Items -> OverrideRow])'
    BY DEF IInv, ReadsTyped, AnswerTyped
<1>3. HistoriesTrue'
    BY DEF HistoriesTrue
<1>4. ReadsAgree'
  <2>1. (pc \in AfterItems \cup {"items"} =>
            /\ \A i \in kept : db.item[i].category \in cats
            /\ cats \cap closed = {})'
    BY DEF IInv, ReadsAgree
  <2>2. (pc \in AfterItems =>
            /\ \A i \in kept : /\ i \in DOMAIN rows /\ rows[i].state = "active"
                              /\ rows[i].category = db.item[i].category
            /\ withdrawn \cap DOMAIN rows = {})'
    BY DEF IInv, ReadsAgree
  <2>3. (pc \in AfterOverrides =>
            /\ \A i \in kept : overs[i].available # "no"
            /\ \A i \in soldOut : overs[i].available = "no")'
    BY DEF IInv, ReadsAgree
  <2> QED BY <2>1, <2>2, <2>3 DEF ReadsAgree
<1>5. ClockSound'
    BY DEF IInv, ClockSound, Assembled, Queries
<1>6. StaysOnMenu' /\ StaysOff'
    BY DEF IInv, StaysOnMenu, StaysOff, Assembled
<1> QED BY <1>1, <1>2, <1>3, <1>4, <1>5, <1>6 DEF IInv

-----------------------------------------------------------------------------
(* The computation, a query at a time.                                     *)

LEMMA TickKeeps == ASSUME IInv, Tick PROVE IInv'
<1> USE DEF Tick, readVars, answerVars, historyVars
<1>1. TablesTyped'
    BY EffectiveMenuAssumption DEF IInv, TablesTyped, Time
<1>2. ReadsTyped' /\ AnswerTyped' /\ (pc \in AfterOverrides => overs \in [Items -> OverrideRow])'
    BY DEF IInv, ReadsTyped, AnswerTyped
<1>3. HistoriesTrue' /\ ReadsAgree' /\ StaysOnMenu' /\ StaysOff'
    BY DEF IInv, HistoriesTrue, ReadsAgree, StaysOnMenu, StaysOff, Assembled, ForSale
<1>4. now \in Int /\ now' = now + 1 /\ readAt \in Int /\ generatedAt \in Int
    BY DEF IInv, TablesTyped, ReadsTyped, AnswerTyped, Time
<1>5. ClockSound'
    BY <1>4 DEF IInv, ClockSound, Assembled, ChangesAfter, Scheduled
<1> QED BY <1>1, <1>2, <1>3, <1>5 DEF IInv

\* A step of the computation leaves the tables, the clock and the histories.
Quiet == UNCHANGED <<db, now, historyVars>>

LEMMA QuietKeeps ==
    ASSUME IInv, Quiet, pc' \in Queries \cup {"done", "failed"}
    PROVE  TablesTyped' /\ HistoriesTrue'
<1>1. TablesTyped'
    BY DEF Quiet, historyVars, IInv, TablesTyped
<1>2. HistoriesTrue'
    BY DEF Quiet, historyVars, IInv, HistoriesTrue, ForSale
<1> QED BY <1>1, <1>2

\* Until the menu is put together there is nothing to say of it.
LEMMA NoMenuYet ==
    ASSUME ~Assembled'
    PROVE  StaysOnMenu' /\ StaysOff'
BY DEF StaysOnMenu, StaysOff

LEMMA CategoriesKeeps == ASSUME IInv, LoadCategories PROVE IInv'
<1> USE DEF LoadCategories, answerVars, historyVars
<1>1. TablesTyped' /\ HistoriesTrue'
    BY QuietKeeps DEF Quiet, Queries
<1>2. ReadsTyped' /\ AnswerTyped'
    BY DEF IInv, ReadsTyped, AnswerTyped
<1>3. \A i \in kept : db.item[i].category \in Categories /\ db.category[db.item[i].category] = "active"
    BY DEF IInv, TablesTyped, HistoriesTrue, ForSale, Tables, ItemRow
<1>4. cats' \cap closed = {}
    BY DEF IInv, HistoriesTrue
<1>5. ReadsAgree'
    BY <1>3, <1>4 DEF ReadsAgree, AfterItems, AfterOverrides
<1>6. ClockSound' /\ StaysOnMenu' /\ StaysOff'
    BY NoMenuYet DEF IInv, ClockSound, Assembled
<1> QED BY <1>1, <1>2, <1>5, <1>6 DEF IInv, AfterOverrides

LEMMA ItemsKeeps == ASSUME IInv, LoadMenuItems PROVE IInv'
<1> USE DEF LoadMenuItems, answerVars, historyVars
<1>1. TablesTyped' /\ HistoriesTrue'
    BY QuietKeeps DEF Quiet, Queries
<1>2. DOMAIN rows' = ActiveItems /\ \A i \in ActiveItems : rows'[i] = db.item[i]
    OBVIOUS
<1>3. \A i \in ActiveItems : i \in Items /\ db.item[i] \in ItemRow /\ db.item[i].state = "active"
    BY DEF IInv, TablesTyped, Tables, ActiveItems
<1>4. ReadsTyped' /\ AnswerTyped'
    BY <1>2, <1>3 DEF IInv, ReadsTyped, AnswerTyped
<1>5. \A i \in kept : i \in ActiveItems /\ db.item[i].category \in cats
    BY DEF IInv, TablesTyped, HistoriesTrue, ForSale, ReadsAgree, ActiveItems
<1>6. withdrawn \cap ActiveItems = {} /\ cats \cap closed = {}
    BY DEF IInv, HistoriesTrue, ReadsAgree, ActiveItems
<1>7. ReadsAgree'
  <2>1. \A i \in kept : /\ i \in DOMAIN rows' /\ rows'[i].state = "active"
                        /\ rows'[i].category = db.item[i].category
      BY <1>2, <1>3, <1>5
  <2>2. withdrawn \cap DOMAIN rows' = {}
      BY <1>2, <1>6
  <2> QED BY <1>5, <1>6, <2>1, <2>2 DEF ReadsAgree, AfterItems, AfterOverrides
<1>8. ClockSound' /\ StaysOnMenu' /\ StaysOff'
    BY NoMenuYet DEF IInv, ClockSound, Assembled
<1> QED BY <1>1, <1>4, <1>7, <1>8 DEF IInv, AfterOverrides

LEMMA VariationsKeeps == ASSUME IInv, LoadVariationsByItemIDs PROVE IInv'
<1> USE DEF LoadVariationsByItemIDs, answerVars, historyVars
<1>1. TablesTyped' /\ HistoriesTrue'
    BY QuietKeeps DEF Quiet, Queries
<1>2. \A v \in Variations : db.variation[v].delta \in Int
    BY DEF IInv, TablesTyped, Tables, VariationRow
<1>3. ReadsTyped' /\ AnswerTyped'
    BY <1>2 DEF IInv, ReadsTyped, AnswerTyped
<1>4. ReadsAgree'
    BY DEF IInv, ReadsAgree, AfterItems, AfterOverrides
<1>5. ClockSound' /\ StaysOnMenu' /\ StaysOff'
    BY NoMenuYet DEF IInv, ClockSound, Assembled
<1> QED BY <1>1, <1>3, <1>4, <1>5 DEF IInv, AfterOverrides

LEMMA OverridesKeeps == ASSUME IInv, LoadOverridesForRestaurant PROVE IInv'
<1> USE DEF LoadOverridesForRestaurant, answerVars, historyVars
<1>1. TablesTyped' /\ HistoriesTrue'
    BY QuietKeeps DEF Quiet, Queries
<1>2. overs' \in [Items -> OverrideRow]
    BY DEF IInv, TablesTyped, Tables
<1>3. ReadsTyped' /\ AnswerTyped'
    BY <1>2 DEF IInv, ReadsTyped, AnswerTyped
<1>4. /\ \A i \in kept : overs'[i].available # "no"
      /\ \A i \in soldOut : overs'[i].available = "no"
    BY DEF IInv, HistoriesTrue, ForSale
<1>5. ReadsAgree'
    BY <1>4 DEF IInv, ReadsAgree, AfterItems, AfterOverrides
<1>6. ClockSound' /\ StaysOnMenu' /\ StaysOff'
    BY NoMenuYet DEF IInv, ClockSound, Assembled
<1> QED BY <1>1, <1>2, <1>3, <1>5, <1>6 DEF IInv

LEMMA PromotionsKeep ==
    ASSUME IInv, SelectPromotions \/ loadPromotionItems
    PROVE  IInv'
<1>1. /\ UNCHANGED <<db, now, cats, rows, deltas, overs, answerVars, historyVars>>
      /\ pc \in {"promotions", "targets"} /\ pc' \in {"assemble", "targets"}
      /\ readAt' \in {readAt, now}
    BY DEF SelectPromotions, loadPromotionItems
<1> USE <1>1 DEF answerVars, historyVars
<1>2. TablesTyped' /\ HistoriesTrue'
    BY QuietKeeps DEF Quiet, Queries
<1>3. ReadsTyped' /\ AnswerTyped' /\ overs' \in [Items -> OverrideRow]
    BY DEF IInv, ReadsTyped, AnswerTyped, TablesTyped, AfterOverrides
<1>4. ReadsAgree'
    BY DEF IInv, ReadsAgree, AfterItems, AfterOverrides
<1>5. now \in Int /\ readAt <= now /\ generatedAt <= now
    BY DEF IInv, ClockSound, TablesTyped, Time
<1>6. ClockSound' /\ StaysOnMenu' /\ StaysOff'
    BY <1>5, NoMenuYet DEF ClockSound, Assembled
<1> QED BY <1>2, <1>3, <1>4, <1>6 DEF IInv

\* The reads agree with the histories, so the menu does.
LEMMA AssembleKeeps == ASSUME IInv, Assemble PROVE IInv'
<1> USE DEF Assemble, readVars, historyVars
<1>1. TablesTyped' /\ HistoriesTrue'
    BY QuietKeeps DEF Quiet, Queries
<1>2. ReadsTyped' /\ AnswerTyped'
    BY DEF IInv, ReadsTyped, AnswerTyped, TablesTyped
<1>3. ReadsAgree'
    BY DEF ReadsAgree, AfterItems, AfterOverrides
<1>4. ClockSound'
  <2>1. now \in Int /\ readAt <= now
      BY DEF IInv, ClockSound, TablesTyped, Time
  <2> QED BY <2>1 DEF ClockSound
<1>5. /\ \A i \in kept : db.item[i].category \in cats /\ i \in DOMAIN rows
                         /\ rows[i].state = "active"
                         /\ rows[i].category = db.item[i].category
      /\ cats \cap closed = {} /\ withdrawn \cap DOMAIN rows = {}
      /\ \A i \in kept : overs[i].available # "no"
      /\ \A i \in soldOut : overs[i].available = "no"
      /\ overs \in [Items -> OverrideRow] /\ DOMAIN rows \subseteq Items
      /\ kept \subseteq Items
    BY DEF IInv, TablesTyped, ReadsTyped, ReadsAgree, AfterItems, AfterOverrides
<1>6. DOMAIN menu' = {i \in DOMAIN rows : rows[i].category \in cats /\ IsAvailable(i)}
    OBVIOUS
<1>7. /\ \A i \in kept : IsAvailable(i)
      /\ \A i \in soldOut : ~IsAvailable(i)
    BY <1>5, EffectiveMenuAssumption DEF IsAvailable, OverrideRow
<1>8. StaysOnMenu'
    BY <1>5, <1>6, <1>7 DEF StaysOnMenu
<1>9. \A i \in DOMAIN menu' : menu'[i].category = rows[i].category
    BY DEF buildEffectiveItem
<1>10. StaysOff'
    BY <1>5, <1>6, <1>7, <1>9 DEF StaysOff
<1> QED BY <1>1, <1>2, <1>3, <1>4, <1>8, <1>10 DEF IInv, AfterOverrides

LEMMA NextChangeKeeps == ASSUME IInv, NextPromotionChange PROVE IInv'
<1> USE DEF NextPromotionChange, readVars, historyVars
<1>1. TablesTyped' /\ HistoriesTrue'
    BY QuietKeeps DEF Quiet, Queries
<1>2. ChangesAfter(generatedAt) \subseteq Nat
  <2>1. \A p \in Promotions : db.promotion[p].offer \in Offer
    BY DEF IInv, TablesTyped, Tables, PromotionRow
  <2>2. \A o \in Offer : o.starts \in Nat /\ o.ends \in Nat
    BY DEF Offer
  <2>3. QED
    BY <2>1, <2>2 DEF ChangesAfter, Scheduled
<1>3. ReadsTyped' /\ AnswerTyped'
    BY <1>2 DEF IInv, ReadsTyped, AnswerTyped
<1>4. ReadsAgree'
    BY DEF ReadsAgree, AfterItems, AfterOverrides
<1>5. ChangesAfter(generatedAt)' = ChangesAfter(generatedAt)
    BY DEF ChangesAfter, Scheduled
<1>6. \A t \in ChangesAfter(generatedAt) : validUntil' # Null /\ validUntil' <= t
    BY <1>2, EffectiveMenuAssumption
<1>7. ClockSound'
    BY <1>5, <1>6 DEF IInv, ClockSound, Assembled
<1>8. StaysOnMenu' /\ StaysOff'
    BY DEF IInv, StaysOnMenu, StaysOff, Assembled
<1> QED BY <1>1, <1>3, <1>4, <1>7, <1>8 DEF IInv, AfterOverrides

LEMMA FailureKeeps == ASSUME IInv, QueryFails PROVE IInv'
<1> USE DEF QueryFails, readVars, answerVars, historyVars
<1>1. TablesTyped' /\ HistoriesTrue'
    BY QuietKeeps DEF Quiet
<1>2. ReadsTyped' /\ AnswerTyped' /\ ReadsAgree' /\ ClockSound'
    BY DEF IInv, ReadsTyped, AnswerTyped, ReadsAgree, ClockSound, Assembled,
           AfterItems, AfterOverrides
<1>3. StaysOnMenu' /\ StaysOff'
    BY NoMenuYet DEF Assembled
<1> QED BY <1>1, <1>2, <1>3 DEF IInv, AfterOverrides

-----------------------------------------------------------------------------
LEMMA InitIInv == Init => IInv
<1> SUFFICES ASSUME Init PROVE IInv
    OBVIOUS
<1> USE DEF Init
<1>1. TablesTyped
  <2>1. db \in Tables /\ was \in Tables /\ retargeted \in BOOLEAN
      BY EffectiveMenuAssumption
  <2>2. now \in Time /\ edits \in 0..MaxEdits
      BY EffectiveMenuAssumption DEF Time
  <2>3. pc \in Queries
      BY DEF Queries
  <2>4. /\ kept \subseteq Items /\ withdrawn \subseteq Items /\ soldOut \subseteq Items
        /\ closed \subseteq Categories
      OBVIOUS
  <2> QED BY <2>1, <2>2, <2>3, <2>4 DEF TablesTyped
<1>2. ReadsTyped /\ AnswerTyped
    BY EffectiveMenuAssumption DEF ReadsTyped, AnswerTyped, Time
<1>3. HistoriesTrue
    BY DEF HistoriesTrue
<1>4. ReadsAgree /\ ClockSound /\ StaysOnMenu /\ StaysOff
    BY DEF ReadsAgree, ClockSound, StaysOnMenu, StaysOff, Assembled, AfterItems, AfterOverrides
<1> QED BY <1>1, <1>2, <1>3, <1>4 DEF IInv, AfterOverrides

LEMMA StutterKeeps == ASSUME IInv, UNCHANGED vars PROVE IInv'
<1> USE DEF vars
<1>1. TablesTyped' /\ ReadsTyped' /\ AnswerTyped'
    BY DEF IInv, TablesTyped, ReadsTyped, AnswerTyped
<1>2. HistoriesTrue' /\ ReadsAgree' /\ ClockSound'
    BY DEF IInv, HistoriesTrue, ReadsAgree, ClockSound, Assembled, ForSale, ChangesAfter, Scheduled
<1>3. StaysOnMenu' /\ StaysOff'
    BY DEF IInv, StaysOnMenu, StaysOff, Assembled
<1> QED BY <1>1, <1>2, <1>3 DEF IInv

LEMMA StepIInv == IInv /\ [Next]_vars => IInv'
<1> SUFFICES ASSUME IInv, [Next]_vars PROVE IInv'
    OBVIOUS
<1>1. CASE CatalogueWrites
    BY <1>1, WritesAreEdits, EditKeeps DEF IInv, TablesTyped
<1>2. CASE Computes
    BY <1>2, CategoriesKeeps, ItemsKeeps, VariationsKeeps, OverridesKeeps, PromotionsKeep,
       AssembleKeeps, NextChangeKeeps, FailureKeeps DEF Computes
<1>3. CASE Tick
    BY <1>3, TickKeeps
<1>4. CASE UNCHANGED vars
    BY <1>4, StutterKeeps
<1> QED BY <1>1, <1>2, <1>3, <1>4 DEF Next

\* The reads and the histories agree at every step of a computation.
THEOREM EffectiveMenuInvariant == Spec => []IInv
BY InitIInv, StepIInv, PTL DEF Spec

\* However many writes come in between its seven queries, the menu has every
\* item that was for sale in one category from beginning to end
\* (computeEffectiveMenu).
THEOREM SpecStaysOnMenu == Spec => []StaysOnMenu
<1>1. IInv => StaysOnMenu
    BY DEF IInv
<1> QED BY <1>1, EffectiveMenuInvariant, PTL

\* And none that was withdrawn, unavailable or in a closed category from
\* beginning to end.
THEOREM SpecStaysOff == Spec => []StaysOff
<1>1. IInv => StaysOff
    BY DEF IInv
<1> QED BY <1>1, EffectiveMenuInvariant, PTL

-----------------------------------------------------------------------------
LEMMA ValidAsLongAsSaid == IInv => StaysValid
<1> SUFFICES ASSUME IInv, pc = "done", NothingTurns,
                    NEW x \in Time, generatedAt <= x, validUntil = Null \/ x < validUntil
             PROVE  Running(db, x) = Running(db, readAt)
    BY DEF StaysValid
<1>1. ASSUME NEW p \in Scheduled(db)
      PROVE  p \in Running(db, x) <=> p \in Running(db, readAt)
  <2> DEFINE starts == db.promotion[p].offer.starts
             ends == db.promotion[p].offer.ends
  <2>1. starts \in Nat /\ ends \in Nat
      BY <1>1 DEF IInv, TablesTyped, Tables, PromotionRow, Offer, Scheduled
  <2>2. readAt \in Int /\ generatedAt \in Int /\ x \in Int /\ readAt <= generatedAt
      BY DEF IInv, ReadsTyped, AnswerTyped, ClockSound, Assembled, Time
  <2>3. \A t \in {starts, ends} : t > generatedAt => t \in ChangesAfter(generatedAt)
      BY <1>1 DEF ChangesAfter
  <2>4. \A t \in ChangesAfter(generatedAt) : validUntil # Null /\ validUntil <= t
      BY DEF IInv, ClockSound
  <2>5. validUntil \in Nat \cup {Null}
      BY DEF IInv, AnswerTyped
  <2>6. \A t \in {starts, ends} : t > generatedAt => x < t
      BY <2>1, <2>2, <2>3, <2>4, <2>5
  <2>7. /\ ~(readAt < starts /\ starts <= generatedAt)
        /\ ~(readAt <= ends /\ ends <= generatedAt)
      BY <1>1 DEF NothingTurns
  <2> HIDE DEF starts, ends
  <2>8. (starts <= x /\ x <= ends) <=> (starts <= readAt /\ readAt <= ends)
      BY <2>1, <2>2, <2>6, <2>7
  <2> QED BY <1>1, <2>8 DEF Running, starts, ends
<1> QED BY <1>1 DEF Running

\* Between the instant a menu was made at and its ValidUntil no promotion
\* starts or ends (NextPromotionChange), whatever the schedule.
THEOREM SpecStaysValid == Spec => []StaysValid
BY ValidAsLongAsSaid, EffectiveMenuInvariant, PTL

-----------------------------------------------------------------------------
(* The index of promotions: the loop of buildPromotionIndex.               *)

LEMMA LeastNumber ==
    ASSUME NEW S, S \subseteq Nat, S # {}
    PROVE  \E m \in S : \A n \in S : m <= n
<1>1. \E m \in S : \A n \in S : <<n, m>> \notin OpToRel(<, Nat)
  BY WFMin, NatLessThanWellFounded, Zenon
<1>2. PICK m \in S : \A n \in S : <<n, m>> \notin OpToRel(<, Nat)
  BY <1>1, Zenon
<1>3. ASSUME NEW n \in S
      PROVE  ~(n < m)
  <2>1. <<n, m>> \notin OpToRel(<, Nat) /\ n \in Nat /\ m \in Nat
    BY <1>2, Zenon
  <2> QED BY <2>1, Zenon DEF OpToRel
<1> QED BY <1>3

\* f[n] is the index's entry for i after n promotions, for the first m of them.
Runs(f, m, i) ==
    /\ f = [n \in 0..m |-> f[n]]
    /\ f[0] = Nobody
    /\ \A n \in 1..m : f[n] = Indexed(promos[n], f[n - 1], i)

\* A run of m - 1 rounds can go on: the least m without a run does not exist.
LEMMA LoopRuns ==
    ASSUME NEW i, NEW m \in Nat
    PROVE  \E f : Runs(f, m, i)
<1> DEFINE Bad == {n \in 0..m : ~\E f : Runs(f, n, i)}
<1>1. Bad = {}
  <2> SUFFICES ASSUME Bad # {} PROVE FALSE
    OBVIOUS
  <2>1. Bad \subseteq Nat
    OBVIOUS
  <2>2. PICK least \in Bad : \A n \in Bad : least <= n
    BY <2>1, LeastNumber
  <2>3. least # 0
    <3>1. Runs([n \in 0..0 |-> Nobody], 0, i)
      BY DEF Runs
    <3> QED BY <3>1
  <2>4. least - 1 \in 0..m /\ least - 1 \notin Bad /\ least \in Nat
    BY <2>2, <2>3
  <2>5. PICK f : Runs(f, least - 1, i)
    BY <2>4
  <2> DEFINE g == [n \in 0..least |-> IF n = least THEN Indexed(promos[n], f[n - 1], i) ELSE f[n]]
  <2>6. Runs(g, least, i)
    <3>1. g = [n \in 0..least |-> g[n]]
      OBVIOUS
    <3>2. g[0] = Nobody
      BY <2>3, <2>4, <2>5 DEF Runs
    <3>3. ASSUME NEW n \in 1..least PROVE g[n] = Indexed(promos[n], g[n - 1], i)
      <4>1. n \in 0..least /\ n - 1 \in 0..least /\ n - 1 # least
        BY <2>4
      <4>2. g[n - 1] = f[n - 1]
        BY <4>1
      <4>3. n # least => n \in 1..(least - 1)
        BY <2>4
      <4> QED BY <4>1, <4>2, <4>3, <2>5 DEF Runs
    <3> HIDE DEF g
    <3> QED BY <3>1, <3>2, <3>3 DEF Runs
  <2> QED BY <2>6
<1> QED BY <1>1

LEMMA IndexIsRun ==
    ASSUME NEW i, Len(promos) \in Nat
    PROVE  \E f : Runs(f, Len(promos), i) /\ buildPromotionIndex(i) = f[Len(promos)]
<1> DEFINE N == Len(promos)
<1> DEFINE entry == CHOOSE f : f = [n \in 0..N |->
                        IF n = 0 THEN Nobody ELSE Indexed(promos[n], f[n - 1], i)]
<1>1. PICK g : Runs(g, N, i)
  BY LoopRuns
<1>2. g = [n \in 0..N |-> IF n = 0 THEN Nobody ELSE Indexed(promos[n], g[n - 1], i)]
  BY <1>1 DEF Runs
<1>3. entry = [n \in 0..N |-> IF n = 0 THEN Nobody ELSE Indexed(promos[n], entry[n - 1], i)]
  BY <1>2
<1>4. buildPromotionIndex(i) = entry[N]
  BY DEF buildPromotionIndex
<1> HIDE DEF entry
<1>5. Runs(entry, N, i)
  BY <1>3 DEF Runs
<1> QED BY <1>4, <1>5

IndexRow == [id : Promotions, offer : Offer]

\* As the query sorts them: ORDER BY priority DESC, starts_at ASC.
InOrder(s) ==
    \A m, n \in 1..Len(s) : m < n =>
        \/ s[m].offer.priority > s[n].offer.priority
        \/ /\ s[m].offer.priority = s[n].offer.priority
           /\ s[m].offer.starts <= s[n].offer.starts

\* None of the first n promotions is better for i than the index's entry.
Winner(e, n, i) ==
    \/ e = Nobody /\ \A k \in 1..n : ~IsFor(promos[k].offer, i)
    \/ \E k \in 1..n :
          /\ e = promos[k] /\ IsFor(promos[k].offer, i)
          /\ \A l \in 1..n : IsFor(promos[l].offer, i) => ~Better(promos[l].offer, promos[k].offer)

\* Better and Replaces compare in the same order, but for the start of the offer;
\* there the order of the rows stands in.
LEMMA ReplacedOffers ==
    ASSUME NEW o \in Offer, NEW p \in Offer, NEW q \in Offer
    PROVE  /\ Replaces(p, o) /\ Better(q, p) => Better(q, o)
           /\ Replaces(p, o) => ~Better(o, p)
           /\ (~Replaces(p, o)) /\ Better(p, o) =>
                 p.priority = o.priority /\ p.value = o.value /\ p.starts < o.starts
           /\ ~Better(p, p)
<1>1. \A r \in Offer : r.priority \in Int /\ r.value \in Int /\ r.starts \in Int
  BY DEF Offer
<1> QED BY <1>1 DEF Replaces, Better

LEMMA IndexedWins ==
    ASSUME promos \in Seq(IndexRow), InOrder(promos), NEW i,
           NEW n \in 1..Len(promos), NEW e, Winner(e, n - 1, i)
    PROVE  Winner(Indexed(promos[n], e, i), n, i)
<1> DEFINE p == promos[n]
<1>1. \A k \in 1..Len(promos) : promos[k] \in IndexRow /\ promos[k].offer \in Offer /\ promos[k] # Nobody
  <2>1. \A k \in 1..Len(promos) : promos[k] \in IndexRow
    OBVIOUS
  <2>2. \A r \in IndexRow : r.offer \in Offer /\ r.id # Null
    BY EffectiveMenuAssumption DEF IndexRow
  <2>3. Nobody.id = Null
    BY DEF Nobody
  <2> QED BY <2>1, <2>2, <2>3
<1>2. 1..n \subseteq 1..Len(promos) /\ 1..n = (1..(n - 1)) \cup {n}
  OBVIOUS
<1>3. CASE ~IsFor(p.offer, i)
  <2>1. Indexed(p, e, i) = e
    BY <1>3 DEF Indexed
  <2> QED BY <1>2, <1>3, <2>1 DEF Winner
<1>4. CASE IsFor(p.offer, i) /\ e = Nobody
  <2>1. Indexed(p, e, i) = p
    BY <1>4 DEF Indexed
  <2>2. \A k \in 1..(n - 1) : ~IsFor(promos[k].offer, i)
    BY <1>1, <1>2, <1>4 DEF Winner
  <2>3. ~Better(p.offer, p.offer)
    BY <1>1, ReplacedOffers
  <2> QED BY <1>2, <1>4, <2>1, <2>2, <2>3 DEF Winner
<1>5. CASE IsFor(p.offer, i) /\ e # Nobody
  <2>1. PICK k \in 1..(n - 1) :
           /\ e = promos[k] /\ IsFor(promos[k].offer, i)
           /\ \A l \in 1..(n - 1) :
                 IsFor(promos[l].offer, i) => ~Better(promos[l].offer, promos[k].offer)
    BY <1>5 DEF Winner
  <2>2. CASE Replaces(p.offer, e.offer)
    <3>1. Indexed(p, e, i) = p
      BY <1>5, <2>2 DEF Indexed
    <3>2. ASSUME NEW l \in 1..n, IsFor(promos[l].offer, i) PROVE ~Better(promos[l].offer, p.offer)
      <4>1. CASE l = n
        BY <1>1, <4>1, ReplacedOffers
      <4>2. CASE l \in 1..(n - 1)
        <5>1. ~Better(promos[l].offer, e.offer)
          BY <2>1, <3>2, <4>2
        <5> QED BY <1>1, <1>2, <2>1, <2>2, <5>1, ReplacedOffers
      <4> QED BY <1>2, <4>1, <4>2
    <3> QED BY <1>5, <3>1, <3>2 DEF Winner
  <2>3. CASE ~Replaces(p.offer, e.offer)
    <3>1. Indexed(p, e, i) = e
      BY <1>5, <2>3 DEF Indexed
    <3>2. ~Better(p.offer, e.offer)
      <4>1. \/ e.offer.priority > p.offer.priority
            \/ e.offer.priority = p.offer.priority /\ e.offer.starts <= p.offer.starts
        BY <2>1 DEF InOrder
      <4>2. e.offer \in Offer /\ p.offer \in Offer
        BY <1>1, <1>2, <2>1
      <4>3. Better(p.offer, e.offer) =>
               p.offer.priority = e.offer.priority /\ p.offer.starts < e.offer.starts
        BY <2>3, <4>2, ReplacedOffers
      <4>4. \A r \in Offer : r.priority \in Int /\ r.starts \in Int
        BY DEF Offer
      <4> QED BY <4>1, <4>2, <4>3, <4>4
    <3>3. \A l \in 1..n : IsFor(promos[l].offer, i) => ~Better(promos[l].offer, e.offer)
      BY <1>2, <2>1, <3>2
    <3> QED BY <1>2, <2>1, <3>1, <3>3 DEF Winner
  <2> QED BY <2>2, <2>3
<1> QED BY <1>3, <1>4, <1>5

\* The entry of the index is the best promotion, so by induction on the loop.
LEMMA IndexWins ==
    ASSUME promos \in Seq(IndexRow), InOrder(promos), NEW i
    PROVE  Winner(buildPromotionIndex(i), Len(promos), i)
<1> DEFINE N == Len(promos)
<1>1. N \in Nat
  OBVIOUS
<1>2. PICK f : Runs(f, N, i) /\ buildPromotionIndex(i) = f[N]
  BY <1>1, IndexIsRun
<1> DEFINE Bad == {n \in 0..N : ~Winner(f[n], n, i)}
<1>3. Bad = {}
  <2> SUFFICES ASSUME Bad # {} PROVE FALSE
    OBVIOUS
  <2>1. PICK least \in Bad : \A n \in Bad : least <= n
    <3>1. Bad \subseteq Nat
      OBVIOUS
    <3> QED BY <3>1, LeastNumber
  <2>2. least # 0
    BY <1>2 DEF Runs, Winner
  <2>3. least \in 1..N /\ least - 1 \in 0..N /\ least - 1 \notin Bad
    BY <1>1, <2>1, <2>2
  <2>4. Winner(f[least - 1], least - 1, i)
    BY <2>3
  <2>5. f[least] = Indexed(promos[least], f[least - 1], i)
    BY <1>2, <2>3 DEF Runs
  <2>6. Winner(f[least], least, i)
    BY <2>3, <2>4, <2>5, IndexedWins
  <2> QED BY <2>6
<1> QED BY <1>1, <1>2, <1>3

-----------------------------------------------------------------------------
(* The menu of one moment.  t stands for the tables at that moment.         *)

Shown(t) == {c \in Categories : t.category[c] = "active"}
OnSale(t) == {i \in Items : t.item[i].state = "active"}
SizesOnSale(t) == {v \in Variations : ItemOf[v] \in OnSale(t) /\ t.variation[v].state = "active"}

OfferAt(t, n) == t.promotion[promos[n].id].offer

\* The promotions read are those of t that ran at readAt, sorted, and the first
\* of them have got their items.
PromotionsFrom(t) ==
    /\ \A n \in 1..Len(promos) :
          /\ promos[n].id \in Running(t, readAt)
          /\ promos[n].offer = IF n <= mapped THEN OfferAt(t, n)
                               ELSE [OfferAt(t, n) EXCEPT !.targets = {}]
    /\ \A p \in Running(t, readAt) : \E n \in 1..Len(promos) : promos[n].id = p

BeforeItems == {"categories", "items"}
BeforeVariations == BeforeItems \cup {"variations"}
BeforeOverrides == BeforeVariations \cup {"overrides"}
BeforePromotions == BeforeOverrides \cup {"promotions"}
Reading == BeforePromotions \cup {"targets", "assemble"}

\* All that was read so far is what t has.
ReadFrom(t) ==
    /\ pc \in Reading \ {"categories"} => cats = Shown(t)
    /\ pc \in Reading \ BeforeItems => rows = [i \in OnSale(t) |-> t.item[i]]
    /\ pc \in Reading \ BeforeVariations =>
          deltas = [v \in SizesOnSale(t) |-> t.variation[v].delta]
    /\ pc \in Reading \ BeforeOverrides => overs = t.override
    /\ pc \in Reading \ BeforePromotions => PromotionsFrom(t)

\* What is still to be read is the same in t as in u.
LeftAlike(t, u) ==
    /\ pc = "categories" => t.category = u.category
    /\ pc \in BeforeItems => t.item = u.item
    /\ pc \in BeforeVariations => t.variation = u.variation
    /\ pc \in BeforeOverrides => t.override = u.override
    /\ pc \in BeforePromotions => t.promotion = u.promotion
    /\ pc = "targets" => \A n \in (mapped + 1)..Len(promos) :
                            OfferAt(t, n).targets = OfferAt(u, n).targets

\* t is a moment whose menu the computation will have put together.
MomentOf(t) == ReadFrom(t) /\ LeftAlike(t, db)

PromosTyped ==
    /\ promos \in Seq(IndexRow) /\ InOrder(promos)
    /\ mapped \in 0..Len(promos)
    /\ pc \in BeforePromotions => mapped = 0
    /\ pc = "targets" => mapped < Len(promos)
    /\ pc = "assemble" => mapped = Len(promos)

Undisturbed == edits <= 1 /\ ~retargeted

\* Until the second write there is such a moment, the first or the present one,
\* and the menu is the one of that moment.
MomentInv ==
    /\ PromosTyped
    /\ edits = 0 => was = db
    /\ pc \in Reading /\ Undisturbed =>
          \E t \in Tables : t \in {was, db} /\ MomentOf(t)
    /\ Assembled /\ Undisturbed =>
          \/ IsMenu(menu, was, readAt)
          \/ edits = 1 /\ IsMenu(menu, db, readAt)

\* A query reads what is alike in t and in the tables.
LEMMA QueriesOfMoment ==
    ASSUME IInv, NEW t \in Tables, MomentOf(t),
           \/ LoadCategories \/ LoadMenuItems \/ LoadVariationsByItemIDs
           \/ LoadOverridesForRestaurant
    PROVE  ReadFrom(t)' /\ LeftAlike(t, db)'
<1> USE DEF MomentOf
<1> USE DEF Reading, BeforePromotions, BeforeOverrides, BeforeVariations, BeforeItems
<1>1. CASE LoadCategories
  <2>1. cats' = Shown(t)
    BY <1>1 DEF LoadCategories, LeftAlike, Shown
  <2> QED BY <1>1, <2>1 DEF LoadCategories, ReadFrom, LeftAlike
<1>2. CASE LoadMenuItems
  <2>1. rows' = [i \in OnSale(t) |-> t.item[i]]
    BY <1>2 DEF LoadMenuItems, ActiveItems, LeftAlike, OnSale
  <2> QED BY <1>2, <2>1 DEF LoadMenuItems, ReadFrom, LeftAlike
<1>3. CASE LoadVariationsByItemIDs
  <2>1. rows = [i \in OnSale(t) |-> t.item[i]] /\ t.variation = db.variation
    BY <1>3 DEF LoadVariationsByItemIDs, ReadFrom, LeftAlike
  <2>2. deltas' = [v \in SizesOnSale(t) |-> t.variation[v].delta]
    BY <1>3, <2>1 DEF LoadVariationsByItemIDs, SizesOnSale
  <2> QED BY <1>3, <2>2 DEF LoadVariationsByItemIDs, ReadFrom, LeftAlike
<1>4. CASE LoadOverridesForRestaurant
  <2>1. overs' = t.override
    BY <1>4 DEF LoadOverridesForRestaurant, LeftAlike
  <2> QED BY <1>4, <2>1 DEF LoadOverridesForRestaurant, ReadFrom, LeftAlike
<1> QED BY <1>1, <1>2, <1>3, <1>4

\* SetToSeqs lists each member of a finite set.
LEMMA ListsAll ==
    ASSUME NEW S, IsFiniteSet(S), NEW s \in SetToSeqs(S)
    PROVE  /\ s \in Seq(S) /\ DOMAIN s = 1..Len(s)
           /\ \A x \in S : \E n \in 1..Len(s) : s[n] = x
<1> DEFINE D == 1..Cardinality(S)
<1>1. Cardinality(S) \in Nat
  BY FS_CardinalityType
<1>2. s \in [D -> S] /\ \A i, j \in D : i # j => s[i] # s[j]
  BY DEF SetToSeqs
<1>3. s \in Injection(D, S)
  BY <1>2 DEF Injection, IsInjective
<1>4. IsFiniteSet(D) /\ Cardinality(D) = Cardinality(S)
  BY <1>1, FS_Interval
<1>5. s \in Surjection(D, S)
  BY <1>3, <1>4, FS_Injection
<1>6. \A x \in S : \E n \in D : s[n] = x
  BY <1>5 DEF Surjection
<1>7. s \in Seq(S) /\ Len(s) = Cardinality(S)
  BY <1>1, <1>2
<1> QED BY <1>2, <1>6, <1>7

LEMMA RunningFinite ==
    ASSUME NEW t, NEW x
    PROVE  IsFiniteSet(Running(t, x)) /\ Running(t, x) \subseteq Promotions
<1>1. Running(t, x) \in SUBSET Promotions
  BY DEF Running, Scheduled
<1> QED BY <1>1, FS_Subset, EffectiveMenuAssumption

LEMMA OffersTyped ==
    ASSUME NEW t \in Tables, NEW p \in Promotions
    PROVE  /\ t.promotion[p].offer \in Offer
           /\ [t.promotion[p].offer EXCEPT !.targets = {}] \in Offer
           /\ \A o \in Offer : [[o EXCEPT !.targets = {}] EXCEPT !.targets = o.targets] = o
           /\ \A o \in Offer : /\ [o EXCEPT !.targets = {}].priority = o.priority
                               /\ [o EXCEPT !.targets = {}].starts = o.starts
<1>1. t.promotion[p] \in PromotionRow
  BY DEF Tables
<1>2. t.promotion[p].offer \in Offer
  BY <1>1 DEF PromotionRow
<1> QED BY <1>2 DEF Offer

LEMMA SelectedPromotions ==
    ASSUME IInv, PromosTyped, SelectPromotions
    PROVE  /\ PromosTyped' /\ mapped' = 0
           /\ \A t \in Tables : t.promotion = db.promotion => PromotionsFrom(t)'
<1>1. PICK s \in SetToSeqs(Running(db, now)) :
        /\ Ordered(s)
        /\ promos' = [n \in DOMAIN s |->
              [id |-> s[n], offer |-> [db.promotion[s[n]].offer EXCEPT !.targets = {}]]]
        /\ pc' = IF s = << >> THEN "assemble" ELSE "targets"
  BY DEF SelectPromotions
<1>2. /\ s \in Seq(Running(db, now)) /\ DOMAIN s = 1..Len(s) /\ Len(s) \in Nat
      /\ \A p \in Running(db, now) : \E n \in 1..Len(s) : s[n] = p
  BY ListsAll, RunningFinite
<1>3. readAt' = now /\ mapped' = mapped /\ mapped = 0 /\ db' = db
  BY DEF SelectPromotions, PromosTyped, BeforePromotions
<1>4. db \in Tables
  BY DEF IInv, TablesTyped
<1> DEFINE row(n) == [id |-> s[n], offer |-> [db.promotion[s[n]].offer EXCEPT !.targets = {}]]
<1>5. \A n \in 1..Len(s) : s[n] \in Running(db, now) /\ s[n] \in Promotions
  BY <1>2, RunningFinite
<1>6. \A n \in 1..Len(s) : row(n) \in IndexRow
  BY <1>4, <1>5, OffersTyped DEF IndexRow
<1>7. promos' = [n \in 1..Len(s) |-> row(n)]
  BY <1>1, <1>2
<1>8. promos' \in Seq(IndexRow) /\ Len(promos') = Len(s)
  <2> HIDE DEF row
  <2> QED BY <1>2, <1>6, <1>7
<1>9. \A n \in 1..Len(s) :
         /\ promos'[n].id = s[n]
         /\ promos'[n].offer = [db.promotion[s[n]].offer EXCEPT !.targets = {}]
  <2>1. \A n \in 1..Len(s) : promos'[n] = row(n)
    <3> HIDE DEF row
    <3> QED BY <1>7
  <2>2. \A n \in 1..Len(s) :
           /\ row(n).id = s[n]
           /\ row(n).offer = [db.promotion[s[n]].offer EXCEPT !.targets = {}]
    OBVIOUS
  <2> HIDE DEF row
  <2> QED BY <2>1, <2>2
<1>10. InOrder(promos)'
  <2> SUFFICES ASSUME NEW m \in 1..Len(s), NEW n \in 1..Len(s), m < n
               PROVE  \/ promos'[m].offer.priority > promos'[n].offer.priority
                      \/ /\ promos'[m].offer.priority = promos'[n].offer.priority
                         /\ promos'[m].offer.starts <= promos'[n].offer.starts
    BY <1>8 DEF InOrder
  <2>1. \A k \in 1..Len(s) :
           /\ promos'[k].offer.priority = db.promotion[s[k]].offer.priority
           /\ promos'[k].offer.starts = db.promotion[s[k]].offer.starts
    <3> SUFFICES ASSUME NEW k \in 1..Len(s)
                 PROVE  /\ promos'[k].offer.priority = db.promotion[s[k]].offer.priority
                        /\ promos'[k].offer.starts = db.promotion[s[k]].offer.starts
      OBVIOUS
    <3> DEFINE o == db.promotion[s[k]].offer
    <3>1. /\ o \in Offer
          /\ [o EXCEPT !.targets = {}].priority = o.priority
          /\ [o EXCEPT !.targets = {}].starts = o.starts
      BY <1>4, <1>5, OffersTyped
    <3>2. promos'[k].offer = [o EXCEPT !.targets = {}]
      BY <1>9
    <3> HIDE DEF o
    <3>3. promos'[k].offer.priority = o.priority /\ promos'[k].offer.starts = o.starts
      BY <3>1, <3>2
    <3> QED BY <3>3 DEF o
  <2>2. \/ db.promotion[s[m]].offer.priority > db.promotion[s[n]].offer.priority
        \/ /\ db.promotion[s[m]].offer.priority = db.promotion[s[n]].offer.priority
           /\ db.promotion[s[m]].offer.starts <= db.promotion[s[n]].offer.starts
    BY <1>1, <1>2 DEF Ordered
  <2> QED BY <2>1, <2>2
<1>11. s = << >> <=> Len(s) = 0
  BY <1>2
<1>12. PromosTyped'
  BY <1>1, <1>2, <1>3, <1>8, <1>10, <1>11
     DEF PromosTyped, BeforePromotions, BeforeOverrides, BeforeVariations, BeforeItems
<1>13. ASSUME NEW t \in Tables, t.promotion = db.promotion PROVE PromotionsFrom(t)'
  <2>1. Running(t, now) = Running(db, now)
    BY <1>13 DEF Running, Scheduled
  <2>2. \A n \in 1..Len(s) : promos'[n].id = s[n]
                             /\ promos'[n].offer = [t.promotion[s[n]].offer EXCEPT !.targets = {}]
    BY <1>9, <1>13
  <2>3. \A n \in 1..Len(s) : ~(n <= 0)
    OBVIOUS
  <2>4. \A n \in 1..Len(promos') :
           /\ promos'[n].id \in Running(t, readAt')
           /\ promos'[n].offer = [t.promotion[promos'[n].id].offer EXCEPT !.targets = {}]
    BY <1>3, <1>5, <1>8, <2>1, <2>2
  <2>5. \A p \in Running(t, readAt') : \E n \in 1..Len(promos') : promos'[n].id = p
    <3> SUFFICES ASSUME NEW p \in Running(db, now) PROVE \E n \in 1..Len(s) : promos'[n].id = p
      BY <1>3, <1>8, <2>1
    <3>1. PICK n \in 1..Len(s) : s[n] = p
      BY <1>2
    <3>2. promos'[n].id = p
      BY <1>9, <3>1
    <3> QED BY <3>2
  <2>6. mapped' = 0
    BY <1>3
  <2> QED BY <1>8, <2>3, <2>4, <2>5, <2>6 DEF PromotionsFrom, OfferAt
<1> QED BY <1>3, <1>12, <1>13

LEMMA LoadedItems ==
    ASSUME IInv, PromosTyped, loadPromotionItems
    PROVE  /\ PromosTyped'
           /\ \A t \in Tables : MomentOf(t) => ReadFrom(t)' /\ LeftAlike(t, db)'
<1> DEFINE k == mapped + 1
<1> DEFINE T == db.promotion[promos[k].id].offer.targets
<1>1. /\ pc = "targets" /\ promos' = [promos EXCEPT ![k].offer.targets = T]
      /\ mapped' = k /\ pc' = IF k = Len(promos) THEN "assemble" ELSE "targets"
      /\ UNCHANGED <<db, cats, rows, deltas, overs, readAt>>
  BY DEF loadPromotionItems
<1>2. /\ promos \in Seq(IndexRow) /\ InOrder(promos) /\ Len(promos) \in Nat
      /\ mapped \in Nat /\ k \in 1..Len(promos)
  BY <1>1 DEF PromosTyped
<1>3. promos[k] \in IndexRow /\ promos[k].offer \in Offer /\ promos[k].id \in Promotions
  <2>1. promos[k] \in IndexRow
    BY <1>2
  <2> HIDE DEF k
  <2> QED BY <2>1 DEF IndexRow
<1>4. T \subseteq Items
  <2>1. db.promotion[promos[k].id].offer \in Offer
    BY <1>3, OffersTyped DEF IInv, TablesTyped
  <2> QED BY <2>1 DEF Offer
<1> DEFINE o == [promos[k].offer EXCEPT !.targets = T]
<1> DEFINE row == [promos[k] EXCEPT !.offer = o]
<1>5. o \in Offer /\ o.priority = promos[k].offer.priority /\ o.starts = promos[k].offer.starts
  <2> HIDE DEF T
  <2> QED BY <1>3, <1>4 DEF Offer
<1>6. row \in IndexRow /\ row.id = promos[k].id /\ row.offer = o
  <2> HIDE DEF o
  <2> QED BY <1>3, <1>5 DEF IndexRow
<1>7. promos' = [promos EXCEPT ![k] = row]
  BY <1>1
<1> HIDE DEF o, row, T
<1>8. /\ promos' \in Seq(IndexRow) /\ Len(promos') = Len(promos)
      /\ promos'[k] = row /\ \A n \in 1..Len(promos) : n # k => promos'[n] = promos[n]
  BY <1>2, <1>6, <1>7
<1>9. \A n \in 1..Len(promos) :
         /\ promos'[n].id = promos[n].id
         /\ promos'[n].offer.priority = promos[n].offer.priority
         /\ promos'[n].offer.starts = promos[n].offer.starts
  BY <1>5, <1>6, <1>8
<1>10. InOrder(promos)'
  BY <1>2, <1>8, <1>9 DEF InOrder
<1>11. PromosTyped'
  BY <1>1, <1>2, <1>8, <1>10
     DEF PromosTyped, BeforePromotions, BeforeOverrides, BeforeVariations, BeforeItems
<1>12. ASSUME NEW t \in Tables, MomentOf(t) PROVE ReadFrom(t)' /\ LeftAlike(t, db)'
  <2>1. PromotionsFrom(t) /\ \A n \in k..Len(promos) : OfferAt(t, n).targets = OfferAt(db, n).targets
    BY <1>1, <1>12 DEF MomentOf, ReadFrom, LeftAlike, Reading, BeforePromotions,
       BeforeOverrides, BeforeVariations, BeforeItems
  <2>2. o = OfferAt(t, k)
    <3>1. T = OfferAt(t, k).targets
      BY <1>2, <2>1 DEF OfferAt, T
    <3>2. promos[k].offer = [OfferAt(t, k) EXCEPT !.targets = {}]
      BY <1>2, <2>1 DEF PromotionsFrom
    <3>3. OfferAt(t, k) \in Offer
      BY <1>3, OffersTyped DEF OfferAt
    <3>4. [promos[k].offer EXCEPT !.targets = OfferAt(t, k).targets] = OfferAt(t, k)
      BY <1>3, <3>2, <3>3, OffersTyped
    <3> QED BY <3>1, <3>4 DEF o
  <2>3. PromotionsFrom(t)'
    <3>1. ASSUME NEW n \in 1..Len(promos)
          PROVE  /\ promos'[n].id \in Running(t, readAt)
                 /\ promos'[n].offer = IF n <= k THEN t.promotion[promos'[n].id].offer
                       ELSE [t.promotion[promos'[n].id].offer EXCEPT !.targets = {}]
      <4>1. promos'[n].id = promos[n].id /\ promos[n].id \in Running(t, readAt)
        BY <1>9, <2>1 DEF PromotionsFrom
      <4>2. CASE n = k
        BY <1>2, <1>6, <1>8, <2>2, <4>1, <4>2 DEF OfferAt
      <4>3. CASE n # k
        <5>1. promos'[n].offer = promos[n].offer
          BY <1>8, <4>3
        <5>2. n <= k <=> n <= mapped
          BY <1>2, <4>3
        <5> HIDE DEF k
        <5> QED BY <2>1, <4>1, <5>1, <5>2 DEF PromotionsFrom, OfferAt
      <4> QED BY <4>2, <4>3
    <3>2. \A p \in Running(t, readAt) : \E n \in 1..Len(promos) : promos'[n].id = p
      BY <1>9, <2>1 DEF PromotionsFrom
    <3> QED BY <1>1, <1>8, <3>1, <3>2 DEF PromotionsFrom, OfferAt
  <2>4. ReadFrom(t)'
    BY <1>1, <1>12, <2>3 DEF MomentOf, ReadFrom, Reading, BeforePromotions,
       BeforeOverrides, BeforeVariations, BeforeItems
  <2>5. LeftAlike(t, db)'
    <3>1. \A n \in (mapped' + 1)..Len(promos') :
             t.promotion[promos'[n].id].offer.targets = db.promotion[promos'[n].id].offer.targets
      BY <1>1, <1>2, <1>8, <1>9, <2>1 DEF OfferAt
    <3> QED BY <1>1, <3>1 DEF LeftAlike, OfferAt, BeforePromotions, BeforeOverrides,
               BeforeVariations, BeforeItems
  <2> QED BY <2>4, <2>5
<1> QED BY <1>11, <1>12

\* The entry of the index is the promotion that the tables make the best.
LEMMA BestOfMoment ==
    ASSUME PromosTyped, NEW t \in Tables, PromotionsFrom(t), mapped = Len(promos),
           NEW i \in Items
    PROVE  IF Best(t, readAt, i) = {} THEN buildPromotionIndex(i) = Nobody
           ELSE /\ buildPromotionIndex(i) # Nobody
                /\ buildPromotionIndex(i).id \in Best(t, readAt, i)
                /\ buildPromotionIndex(i).offer
                      = t.promotion[buildPromotionIndex(i).id].offer
<1> DEFINE e == buildPromotionIndex(i)
<1> DEFINE candidates == {p \in Running(t, readAt) : IsFor(t.promotion[p].offer, i)}
<1>1. promos \in Seq(IndexRow) /\ Winner(e, Len(promos), i)
  BY IndexWins DEF PromosTyped
<1>2. Best(t, readAt, i) = {p \in candidates :
          \A q \in candidates : ~Better(t.promotion[q].offer, t.promotion[p].offer)}
  BY DEF Best
<1>3. /\ \A n \in 1..Len(promos) : promos[n].id \in Running(t, readAt)
                                   /\ promos[n].offer = t.promotion[promos[n].id].offer
      /\ \A p \in Running(t, readAt) : \E n \in 1..Len(promos) : promos[n].id = p
  BY <1>1 DEF PromotionsFrom, OfferAt
<1> HIDE DEF e
<1>4. CASE e = Nobody /\ \A k \in 1..Len(promos) : ~IsFor(promos[k].offer, i)
  <2>1. candidates = {}
    BY <1>3, <1>4
  <2>2. Best(t, readAt, i) = {}
    BY <1>2, <2>1
  <2> QED BY <1>4, <2>2 DEF e
<1>5. ASSUME NEW k \in 1..Len(promos), e = promos[k], IsFor(promos[k].offer, i),
             \A l \in 1..Len(promos) :
                 IsFor(promos[l].offer, i) => ~Better(promos[l].offer, promos[k].offer)
      PROVE  e # Nobody /\ e.id \in Best(t, readAt, i) /\ e.offer = t.promotion[e.id].offer
  <2>1. e.offer = t.promotion[e.id].offer /\ e.id \in candidates
    BY <1>3, <1>5
  <2>2. ASSUME NEW q \in candidates PROVE ~Better(t.promotion[q].offer, e.offer)
    <3>1. PICK l \in 1..Len(promos) : promos[l].id = q
      BY <1>3
    <3>2. promos[l].offer = t.promotion[q].offer /\ IsFor(promos[l].offer, i)
      BY <1>3, <3>1
    <3> QED BY <1>5, <3>2
  <2>3. e.id \in Best(t, readAt, i)
    BY <1>2, <2>1, <2>2
  <2>4. e \in IndexRow /\ Nobody.id = Null
    BY <1>1, <1>5 DEF Nobody
  <2>5. e # Nobody
    BY <2>4, EffectiveMenuAssumption DEF IndexRow
  <2> QED BY <2>1, <2>3, <2>5
<1>6. \/ e = Nobody /\ \A k \in 1..Len(promos) : ~IsFor(promos[k].offer, i)
      \/ \E k \in 1..Len(promos) :
            /\ e = promos[k] /\ IsFor(promos[k].offer, i)
            /\ \A l \in 1..Len(promos) :
                  IsFor(promos[l].offer, i) => ~Better(promos[l].offer, promos[k].offer)
  BY <1>1 DEF Winner
<1>7. CASE e # Nobody
  <2>1. e.id \in Best(t, readAt, i) /\ e.offer = t.promotion[e.id].offer
    BY <1>5, <1>6, <1>7
  <2> QED BY <1>7, <2>1 DEF e
<1>8. CASE e = Nobody
  BY <1>4, <1>5, <1>6, <1>8
<1> QED BY <1>7, <1>8

\* The merge of what was read of one moment is its menu.
LEMMA AssembledMenu ==
    ASSUME IInv, PromosTyped, NEW t \in Tables, ReadFrom(t), Assemble
    PROVE  IsMenu(menu', t, readAt)
<1>1. /\ cats = Shown(t) /\ rows = [i \in OnSale(t) |-> t.item[i]]
      /\ deltas = [v \in SizesOnSale(t) |-> t.variation[v].delta]
      /\ overs = t.override /\ PromotionsFrom(t) /\ mapped = Len(promos)
  BY DEF Assemble, ReadFrom, PromosTyped, Reading, BeforePromotions, BeforeOverrides,
     BeforeVariations, BeforeItems
<1>2. /\ DOMAIN menu' = {i \in OnSale(t) : rows[i].category \in cats /\ IsAvailable(i)}
      /\ \A i \in DOMAIN menu' : menu'[i] = buildEffectiveItem(i)
  BY <1>1 DEF Assemble
<1>3. ASSUME NEW i \in OnSale(t)
      PROVE  /\ i \in Items /\ rows[i] = t.item[i] /\ t.item[i] \in ItemRow
             /\ t.item[i].state = "active"
             /\ t.override[i] \in OverrideRow
             /\ IsAvailable(i) <=> t.override[i].available # "no"
  <2>1. /\ i \in Items /\ t.item[i].state = "active"
        /\ t.item[i] \in ItemRow /\ t.override[i] \in OverrideRow
    BY DEF OnSale, Tables
  <2>2. rows[i] = t.item[i]
    BY <1>1
  <2>3. t.override[i].available \in {"yes", "no", Null}
    BY <2>1 DEF OverrideRow
  <2>4. IsAvailable(i) <=> t.override[i].available # "no"
    BY <1>1, <2>1, <2>2, <2>3, EffectiveMenuAssumption DEF IsAvailable
  <2> QED BY <2>1, <2>2, <2>4
<1>4. DOMAIN menu' = {i \in Items : ForSale(t, i)}
  <2>1. \A i \in Items : ForSale(t, i) => i \in OnSale(t)
    BY DEF ForSale, OnSale
  <2>2. ASSUME NEW i \in OnSale(t)
        PROVE  rows[i].category \in cats /\ IsAvailable(i) <=> ForSale(t, i)
    <3>1. t.item[i].category \in Categories
      BY <1>3 DEF ItemRow
    <3> QED BY <1>1, <1>3, <3>1 DEF ForSale, Shown
  <2> QED BY <1>2, <1>3, <2>1, <2>2
<1>5. ASSUME NEW i \in OnSale(t) PROVE IsEntry(buildEffectiveItem(i), t, readAt, i)
  <2> DEFINE price == IF t.override[i].price = Null THEN t.item[i].price ELSE t.override[i].price
             promotion == buildPromotionIndex(i)
             final == IF promotion = Nobody THEN price ELSE applyDiscount(price, promotion.offer)
             sizes == [v \in {w \in DOMAIN deltas : ItemOf[w] = i} |-> final + deltas[v]]
             e == [category |-> t.item[i].category, price |-> final,
                   promotion |-> promotion.id, sizes |-> sizes]
  <2>1. buildEffectiveItem(i) = e
    BY <1>1, <1>3 DEF buildEffectiveItem, MasterPrice
  <2>2. price \in Int
    BY <1>3 DEF ItemRow, OverrideRow
  <2>3. \A o \in Offer : applyDiscount(price, o) = Discounted(price, o)
    <3>1. \A o \in Offer : o.value \in Int
      BY DEF Offer
    <3> HIDE DEF price
    <3> QED BY <2>2, <3>1 DEF applyDiscount, Discounted
  <2>4. IF Best(t, readAt, i) = {} THEN promotion = Nobody
        ELSE /\ promotion # Nobody /\ promotion.id \in Best(t, readAt, i)
             /\ promotion.offer = t.promotion[promotion.id].offer
    BY <1>1, <1>3, BestOfMoment
  <2>5. Best(t, readAt, i) \subseteq Promotions
    BY RunningFinite DEF Best
  <2>6. IF Best(t, readAt, i) = {} THEN promotion.id = Null /\ final = price
        ELSE /\ promotion.id \in Best(t, readAt, i)
             /\ final = Discounted(price, t.promotion[promotion.id].offer)
    <3>1. Nobody.id = Null
      BY DEF Nobody
    <3> HIDE DEF price, promotion
    <3>2. CASE Best(t, readAt, i) = {}
      BY <2>4, <3>1, <3>2
    <3>3. CASE Best(t, readAt, i) # {}
      <4>1. t.promotion[promotion.id].offer \in Offer
        BY <2>4, <2>5, <3>3, OffersTyped
      <4> QED BY <2>3, <2>4, <3>3, <4>1
    <3> QED BY <3>2, <3>3
  <2>7. sizes = [v \in {w \in Variations : ItemOf[w] = i /\ t.variation[w].state = "active"}
                    |-> final + t.variation[v].delta]
    <3> HIDE DEF final
    <3>1. {w \in DOMAIN deltas : ItemOf[w] = i}
             = {w \in Variations : ItemOf[w] = i /\ t.variation[w].state = "active"}
      BY <1>1 DEF SizesOnSale
    <3>2. \A v \in DOMAIN deltas : deltas[v] = t.variation[v].delta
      BY <1>1
    <3> QED BY <3>1, <3>2
  <2> HIDE DEF price, promotion, final, sizes
  <2>8. e.category = t.item[i].category /\ e.price = final /\ e.promotion = promotion.id
        /\ e.sizes = sizes
    OBVIOUS
  <2> HIDE DEF e
  <2>9. IsEntry(e, t, readAt, i)
    BY <2>6, <2>7, <2>8 DEF IsEntry, price
  <2> QED BY <2>1, <2>9
<1> QED BY <1>2, <1>4, <1>5 DEF IsMenu

-----------------------------------------------------------------------------
(* A write comes in between.                                               *)

\* One write changes one table; what it makes of the items of promotions that
\* are there already is said apart (UpdatePromotion is the one to replace them).
OneTable(t, u) ==
    \/ /\ t.item = u.item /\ t.variation = u.variation
       /\ t.override = u.override /\ t.promotion = u.promotion
    \/ /\ t.category = u.category /\ t.variation = u.variation
       /\ t.override = u.override /\ t.promotion = u.promotion
    \/ /\ t.category = u.category /\ t.item = u.item
       /\ t.override = u.override /\ t.promotion = u.promotion
    \/ /\ t.category = u.category /\ t.item = u.item
       /\ t.variation = u.variation /\ t.promotion = u.promotion
    \/ /\ t.category = u.category /\ t.item = u.item
       /\ t.variation = u.variation /\ t.override = u.override
       /\ \A p \in Promotions : t.promotion[p].state # "none" =>
             u.promotion[p].offer.targets = t.promotion[p].offer.targets

LEMMA WriteOneTable ==
    ASSUME db \in Tables, CatalogueWrites
    PROVE  \E r \in BOOLEAN : Edit(db', r) /\ (r \/ OneTable(db, db'))
<1>1. ASSUME NEW c \in Categories, CreateCategory(c) \/ UpdateCategory(c) \/ DeleteCategory(c)
      PROVE  \E r \in BOOLEAN : Edit(db', r) /\ (r \/ OneTable(db, db'))
  <2>1. PICK s : Edit([db EXCEPT !.category[c] = s], FALSE)
    BY <1>1 DEF CreateCategory, UpdateCategory, DeleteCategory
  <2>2. db' = [db EXCEPT !.category[c] = s]
    BY <2>1 DEF Edit
  <2>3. OneTable(db, db')
    BY <2>2 DEF OneTable, Tables
  <2> QED BY <2>1, <2>2, <2>3
<1>2. ASSUME NEW i \in Items, CreateItem(i) \/ UpdateItem(i) \/ DeleteItem(i)
      PROVE  \E r \in BOOLEAN : Edit(db', r) /\ (r \/ OneTable(db, db'))
  <2>1. PICK row : Edit([db EXCEPT !.item[i] = row], FALSE)
    BY <1>2 DEF CreateItem, UpdateItem, DeleteItem
  <2>2. db' = [db EXCEPT !.item[i] = row]
    BY <2>1 DEF Edit
  <2>3. OneTable(db, db')
    BY <2>2 DEF OneTable, Tables
  <2> QED BY <2>1, <2>2, <2>3
<1>3. ASSUME NEW i \in Items, SetOverride(i) \/ DeleteOverride(i)
      PROVE  \E r \in BOOLEAN : Edit(db', r) /\ (r \/ OneTable(db, db'))
  <2>1. PICK row : Edit([db EXCEPT !.override[i] = row], FALSE)
    BY <1>3 DEF SetOverride, DeleteOverride
  <2>2. db' = [db EXCEPT !.override[i] = row]
    BY <2>1 DEF Edit
  <2>3. OneTable(db, db')
    BY <2>2 DEF OneTable, Tables
  <2> QED BY <2>1, <2>2, <2>3
<1>4. ASSUME NEW v \in Variations,
             CreateVariation(v) \/ UpdateVariation(v) \/ DeleteVariation(v)
      PROVE  \E r \in BOOLEAN : Edit(db', r) /\ (r \/ OneTable(db, db'))
  <2>1. PICK row : Edit([db EXCEPT !.variation[v] = row], FALSE)
    BY <1>4 DEF CreateVariation, UpdateVariation, DeleteVariation
  <2>2. db' = [db EXCEPT !.variation[v] = row]
    BY <2>1 DEF Edit
  <2>3. OneTable(db, db')
    BY <2>2 DEF OneTable, Tables
  <2> QED BY <2>1, <2>2, <2>3
<1>5. ASSUME NEW p \in Promotions, CreatePromotion(p) \/ DeletePromotion(p)
      PROVE  \E r \in BOOLEAN : Edit(db', r) /\ (r \/ OneTable(db, db'))
  <2>1. db.promotion[p] \in PromotionRow
    BY DEF Tables
  <2>2. PICK row :
           /\ Edit([db EXCEPT !.promotion[p] = row], FALSE)
           /\ db.promotion[p].state # "none" => row.offer = db.promotion[p].offer
    BY <1>5, <2>1 DEF CreatePromotion, DeletePromotion, PromotionRow
  <2>3. db' = [db EXCEPT !.promotion[p] = row]
    BY <2>2 DEF Edit
  <2>4. db'.promotion = [db.promotion EXCEPT ![p] = row]
    BY <2>3 DEF Tables
  <2>5. \A q \in Promotions : db.promotion[q].state # "none" =>
           db'.promotion[q].offer.targets = db.promotion[q].offer.targets
    BY <2>2, <2>4 DEF Tables
  <2>6. OneTable(db, db')
    BY <2>3, <2>5 DEF OneTable, Tables
  <2> QED BY <2>2, <2>3, <2>6
<1>6. ASSUME NEW p \in Promotions, UpdatePromotion(p)
      PROVE  \E r \in BOOLEAN : Edit(db', r) /\ (r \/ OneTable(db, db'))
  <2>1. PICK u : Edit(u, TRUE)
    BY <1>6 DEF UpdatePromotion
  <2> QED BY <2>1 DEF Edit
<1> QED BY <1>1, <1>2, <1>3, <1>4, <1>5, <1>6 DEF CatalogueWrites

\* What was read before the write is of the first moment, and if the write
\* changed a table that is still to be read, of the moment after it as well.
LEMMA WriteSplitsMoments ==
    ASSUME NEW t \in Tables, NEW u \in Tables, OneTable(t, u), ReadFrom(t), PromosTyped,
           pc \in Reading
    PROVE  (ReadFrom(t) /\ LeftAlike(t, u)) \/ ReadFrom(u)
<1> USE DEF Reading, BeforePromotions, BeforeOverrides, BeforeVariations, BeforeItems
<1> DEFINE late == {"targets", "assemble"}
<1>1. ASSUME \/ t.category # u.category /\ pc # "categories"
             \/ t.item # u.item /\ pc \notin BeforeItems
             \/ t.variation # u.variation /\ pc \notin BeforeVariations
             \/ t.override # u.override /\ pc \notin BeforeOverrides
      PROVE  LeftAlike(t, u)
  <2>1. t.promotion = u.promotion
    BY <1>1 DEF OneTable
  <2>2. pc \in BeforePromotions => LeftAlike(t, u)
    BY <1>1, <2>1 DEF OneTable, LeftAlike
  <2>3. pc \in late => LeftAlike(t, u)
    BY <2>1 DEF LeftAlike, OfferAt
  <2> QED BY <2>2, <2>3
<1>2. ASSUME t.promotion # u.promotion, pc \in late
      PROVE  LeftAlike(t, u)
  <2>1. \A n \in 1..Len(promos) : promos[n].id \in Promotions /\ t.promotion[promos[n].id].state # "none"
    BY <1>2 DEF ReadFrom, PromotionsFrom, Running, Scheduled
  <2>2. \A n \in 1..Len(promos) : OfferAt(t, n).targets = OfferAt(u, n).targets
    BY <1>2, <2>1 DEF OneTable, OfferAt
  <2>3. (mapped + 1)..Len(promos) \subseteq 1..Len(promos)
    BY DEF PromosTyped
  <2> QED BY <1>2, <2>2, <2>3 DEF LeftAlike
<1>3. ASSUME /\ t.category = u.category \/ pc = "categories"
             /\ t.item = u.item \/ pc \in BeforeItems
             /\ t.variation = u.variation \/ pc \in BeforeVariations
             /\ t.override = u.override \/ pc \in BeforeOverrides
             /\ t.promotion = u.promotion \/ pc \in BeforePromotions
      PROVE  ReadFrom(u)
  <2>1. pc \in Reading \ {"categories"} => cats = Shown(u)
    BY <1>3 DEF ReadFrom, Shown
  <2>2. pc \in Reading \ BeforeItems => rows = [i \in OnSale(u) |-> u.item[i]]
    BY <1>3 DEF ReadFrom, OnSale
  <2>3. pc \in Reading \ BeforeVariations =>
            deltas = [v \in SizesOnSale(u) |-> u.variation[v].delta]
    <3> SUFFICES ASSUME pc \in Reading \ BeforeVariations
                 PROVE  deltas = [v \in SizesOnSale(u) |-> u.variation[v].delta]
      OBVIOUS
    <3>1. t.item = u.item /\ t.variation = u.variation
      BY <1>3
    <3>2. SizesOnSale(t) = SizesOnSale(u)
      BY <3>1 DEF SizesOnSale, OnSale
    <3>3. deltas = [v \in SizesOnSale(t) |-> t.variation[v].delta]
      BY DEF ReadFrom
    <3> QED BY <3>1, <3>2, <3>3
  <2>4. pc \in Reading \ BeforeOverrides => overs = u.override
    BY <1>3 DEF ReadFrom
  <2>5. pc \in Reading \ BeforePromotions => PromotionsFrom(u)
    BY <1>3 DEF ReadFrom, PromotionsFrom, OfferAt, Running, Scheduled
  <2> QED BY <2>1, <2>2, <2>3, <2>4, <2>5 DEF ReadFrom
<1> QED BY <1>1, <1>2, <1>3

LEMMA EditKeepsMoment ==
    ASSUME IInv, IInv', MomentInv, NEW r \in BOOLEAN, Edit(db', r), r \/ OneTable(db, db')
    PROVE  MomentInv'
<1> USE DEF Edit, readVars, answerVars
<1>1. edits \in Nat /\ edits' = edits + 1 /\ was' = was /\ db \in Tables /\ db' \in Tables
  BY EffectiveMenuAssumption DEF IInv, TablesTyped
<1>2. PromosTyped'
  BY DEF MomentInv, PromosTyped, InOrder
<1>3. Undisturbed' => edits = 0 /\ edits' = 1 /\ ~retargeted /\ ~r
  <2>1. edits' <= 1 => edits = 0 /\ edits' = 1
    BY <1>1
  <2>2. ~retargeted' => ~retargeted /\ ~r
    BY Zenon
  <2> QED BY <2>1, <2>2 DEF Undisturbed
<1>4. ASSUME pc \in Reading, Undisturbed' PROVE \E t \in Tables : t \in {was, db'} /\ MomentOf(t)'
  <2>1. edits = 0 /\ ~retargeted /\ ~r /\ was = db
    BY <1>1, <1>4, <1>3 DEF MomentInv
  <2>2. ReadFrom(db)
    <3>1. Undisturbed
      BY <2>1 DEF Undisturbed
    <3>2. PICK t \in Tables : t \in {was, db} /\ MomentOf(t)
      BY <1>4, <3>1 DEF MomentInv
    <3>3. t = db
      BY <2>1, <3>2
    <3> QED BY <3>2, <3>3 DEF MomentOf
  <2>3. PICK t \in Tables : t = db
    BY <1>1
  <2>4. PICK u \in Tables : u = db'
    BY <1>1
  <2>5. ReadFrom(t) /\ OneTable(t, u)
    BY <2>1, <2>2, <2>3, <2>4
  <2>6. (ReadFrom(t) /\ LeftAlike(t, u)) \/ ReadFrom(u)
    BY <1>4, <2>5, WriteSplitsMoments DEF MomentInv
  <2>7. \A x \in Tables : ReadFrom(x) => ReadFrom(x)'
    BY DEF ReadFrom, PromotionsFrom, OfferAt
  <2>8. LeftAlike(t, u) => LeftAlike(t, db)'
    BY <2>4 DEF LeftAlike, OfferAt
  <2>9. LeftAlike(u, db)'
    BY <2>4 DEF LeftAlike, OfferAt
  <2>10. MomentOf(t)' \/ MomentOf(u)'
    BY <2>6, <2>7, <2>8, <2>9 DEF MomentOf
  <2> QED BY <2>1, <2>3, <2>4, <2>10
<1>5. ASSUME Assembled', Undisturbed'
      PROVE  IsMenu(menu', was', readAt') \/ (edits' = 1 /\ IsMenu(menu', db', readAt'))
  <2>1. Assembled /\ Undisturbed
    BY <1>5, <1>3 DEF Assembled, Undisturbed
  <2>2. IsMenu(menu, was, readAt)
    BY <1>5, <1>3, <2>1 DEF MomentInv
  <2>3. menu' = menu /\ readAt' = readAt
    OBVIOUS
  <2> QED BY <1>1, <2>2, <2>3
<1>6. edits' # 0
  BY <1>1
<1>7. (Assembled /\ Undisturbed =>
          IsMenu(menu, was, readAt) \/ (edits = 1 /\ IsMenu(menu, db, readAt)))'
  BY <1>5
<1> QED BY <1>1, <1>2, <1>4, <1>6, <1>7 DEF MomentInv

-----------------------------------------------------------------------------
(* The invariant, step by step.                                            *)

\* What a step of the computation, which leaves the tables and the histories,
\* has to show.
LEMMA QuietKeepsMoment ==
    ASSUME MomentInv, UNCHANGED <<db, historyVars>>, PromosTyped',
           pc \in Reading \/ ~(pc' \in Reading), ~Assembled' \/ UNCHANGED <<menu, readAt>>,
           Assembled \/ ~Assembled',
           \A t \in Tables : pc' \in Reading /\ MomentOf(t) => MomentOf(t)'
    PROVE  MomentInv'
<1>1. (pc \in Reading /\ Undisturbed => \E t \in Tables : t \in {was, db} /\ MomentOf(t))'
  BY DEF MomentInv, Undisturbed, historyVars
<1>2. (Assembled /\ Undisturbed =>
          IsMenu(menu, was, readAt) \/ (edits = 1 /\ IsMenu(menu, db, readAt)))'
  BY DEF MomentInv, Undisturbed, historyVars
<1>3. (edits = 0 => was = db)'
  BY DEF MomentInv, historyVars
<1> QED BY <1>1, <1>2, <1>3 DEF MomentInv

LEMMA ComputesKeepsMoment == ASSUME IInv, MomentInv, Computes PROVE MomentInv'
<1> DEFINE stages == Reading
<1>1. ASSUME \/ LoadCategories \/ LoadMenuItems \/ LoadVariationsByItemIDs
             \/ LoadOverridesForRestaurant
      PROVE  MomentInv'
  <2>1. /\ UNCHANGED <<db, historyVars, promos, mapped>>
        /\ pc \in Reading /\ pc' \in BeforePromotions /\ pc \in BeforePromotions
    BY <1>1 DEF LoadCategories, LoadMenuItems, LoadVariationsByItemIDs,
       LoadOverridesForRestaurant, Reading, BeforePromotions, BeforeOverrides,
       BeforeVariations, BeforeItems
  <2>2. PromosTyped'
    BY <2>1 DEF MomentInv, PromosTyped, InOrder, BeforePromotions, BeforeOverrides,
       BeforeVariations, BeforeItems
  <2>3. ~Assembled'
    BY <2>1 DEF Assembled, BeforePromotions, BeforeOverrides, BeforeVariations, BeforeItems
  <2>4. \A t \in Tables : MomentOf(t) => MomentOf(t)'
    BY <1>1, QueriesOfMoment DEF MomentOf
  <2> QED BY <2>1, <2>2, <2>3, <2>4, QuietKeepsMoment
<1>2. CASE SelectPromotions
  <2>1. /\ UNCHANGED <<db, historyVars, cats, rows, deltas, overs>>
        /\ pc = "promotions" /\ pc' \in {"targets", "assemble"}
    BY <1>2 DEF SelectPromotions
  <2>2. PromosTyped' /\ mapped' = 0
    BY <1>2, SelectedPromotions DEF MomentInv
  <2>3. pc \in Reading /\ ~Assembled'
    BY <2>1 DEF Assembled, Reading, BeforePromotions
  <2>4. ASSUME NEW t \in Tables, MomentOf(t) PROVE MomentOf(t)'
    <3>1. t.promotion = db.promotion
      BY <2>1, <2>4 DEF MomentOf, LeftAlike, BeforePromotions
    <3>2. PromotionsFrom(t)'
      BY <1>2, <3>1, SelectedPromotions DEF MomentInv
    <3>3. ReadFrom(t)'
      BY <2>1, <2>4, <3>2 DEF MomentOf, ReadFrom, Reading, BeforePromotions, BeforeOverrides,
         BeforeVariations, BeforeItems
    <3>4. LeftAlike(t, db)'
      BY <2>1, <3>1 DEF LeftAlike, OfferAt, BeforePromotions, BeforeOverrides,
         BeforeVariations, BeforeItems
    <3> QED BY <3>3, <3>4 DEF MomentOf
  <2> QED BY <2>1, <2>2, <2>3, <2>4, QuietKeepsMoment
<1>3. CASE loadPromotionItems
  <2>1. /\ UNCHANGED <<db, historyVars>>
        /\ pc = "targets" /\ pc' \in {"targets", "assemble"}
    BY <1>3 DEF loadPromotionItems
  <2>2. PromosTyped' /\ \A t \in Tables : MomentOf(t) => MomentOf(t)'
    BY <1>3, LoadedItems DEF MomentInv, MomentOf
  <2>3. pc \in Reading /\ ~Assembled'
    BY <2>1 DEF Assembled, Reading
  <2> QED BY <2>1, <2>2, <2>3, QuietKeepsMoment
<1>4. CASE Assemble
  <2>1. /\ UNCHANGED <<db, historyVars, promos, mapped, readAt>>
        /\ pc = "assemble" /\ pc' = "next"
    BY <1>4 DEF Assemble, readVars
  <2>2. PromosTyped'
    BY <2>1 DEF MomentInv, PromosTyped, InOrder, BeforePromotions, BeforeOverrides,
       BeforeVariations, BeforeItems
  <2>3. ASSUME Undisturbed
        PROVE  IsMenu(menu', was, readAt) \/ (edits = 1 /\ IsMenu(menu', db, readAt))
    <3>1. PICK t \in Tables : t \in {was, db} /\ MomentOf(t)
      BY <2>1, <2>3 DEF MomentInv, Reading
    <3>2. IsMenu(menu', t, readAt)
      BY <1>4, <3>1, AssembledMenu DEF MomentInv, MomentOf
    <3>3. edits \in Nat /\ edits <= 1
      BY <2>3, EffectiveMenuAssumption DEF Undisturbed, IInv, TablesTyped
    <3>4. edits # 1 => was = db
      BY <3>3 DEF MomentInv
    <3> QED BY <3>1, <3>2, <3>4
  <2>4. pc' \notin Reading
    BY <2>1 DEF Reading, BeforePromotions, BeforeOverrides, BeforeVariations, BeforeItems
  <2> QED BY <2>1, <2>2, <2>3, <2>4 DEF MomentInv, Undisturbed, historyVars
<1>5. CASE NextPromotionChange \/ QueryFails
  <2>1. /\ UNCHANGED <<db, historyVars, promos, mapped, readAt, menu>>
        /\ pc' \in {"done", "failed"} /\ (pc' = "done" => pc = "next")
    BY <1>5 DEF NextPromotionChange, QueryFails, readVars, answerVars
  <2>2. PromosTyped'
    BY <2>1 DEF MomentInv, PromosTyped, InOrder, BeforePromotions, BeforeOverrides,
       BeforeVariations, BeforeItems
  <2>3. pc' \notin Reading /\ (Assembled \/ ~Assembled')
    BY <2>1 DEF Assembled, Reading, BeforePromotions, BeforeOverrides, BeforeVariations,
       BeforeItems
  <2> QED BY <2>1, <2>2, <2>3, QuietKeepsMoment
<1> QED BY <1>1, <1>2, <1>3, <1>4, <1>5 DEF Computes

LEMMA StepMoment == ASSUME IInv, IInv', MomentInv, [Next]_vars PROVE MomentInv'
<1>1. CASE CatalogueWrites
  <2>1. PICK r \in BOOLEAN : Edit(db', r) /\ (r \/ OneTable(db, db'))
    BY <1>1, WriteOneTable DEF IInv, TablesTyped
  <2> QED BY <2>1, EditKeepsMoment
<1>2. CASE Computes
  BY <1>2, ComputesKeepsMoment
<1>3. CASE Tick \/ UNCHANGED vars
  <2>1. UNCHANGED <<db, pc, readVars, menu, historyVars>>
    BY <1>3 DEF Tick, vars, readVars, answerVars, historyVars
  <2>2. PromosTyped' /\ (pc \in Reading \/ ~(pc' \in Reading)) /\ (Assembled \/ ~Assembled')
    BY <2>1 DEF MomentInv, PromosTyped, InOrder, Assembled, readVars
  <2>3. \A t \in Tables : MomentOf(t) => MomentOf(t)'
    BY <2>1 DEF MomentOf, ReadFrom, LeftAlike, PromotionsFrom, OfferAt, readVars
  <2> QED BY <2>1, <2>2, <2>3, QuietKeepsMoment DEF readVars
<1> QED BY <1>1, <1>2, <1>3 DEF Next

LEMMA InitMoment == ASSUME Init PROVE MomentInv
<1> USE DEF Init
<1>1. promos \in Seq(IndexRow) /\ Len(promos) = 0
  OBVIOUS
<1>2. PromosTyped
  BY <1>1 DEF PromosTyped, InOrder, BeforePromotions, BeforeOverrides, BeforeVariations,
     BeforeItems
<1>3. db \in Tables /\ MomentOf(db)
  BY EffectiveMenuAssumption DEF MomentOf, ReadFrom, LeftAlike, Reading, BeforePromotions,
     BeforeOverrides, BeforeVariations, BeforeItems
<1>4. ~Assembled
  BY DEF Assembled
<1> QED BY <1>2, <1>3, <1>4 DEF MomentInv

\* The moment of which the menu will be is there from the first query to the last.
THEOREM MomentInvariant == Spec => []MomentInv
<1>1. Init => MomentInv
  BY InitMoment
<1>2. IInv /\ IInv' /\ MomentInv /\ [Next]_vars => MomentInv'
  BY StepMoment
<1> QED BY <1>1, <1>2, EffectiveMenuInvariant, PTL DEF Spec

\* The menu is the one that the tables defined before or after a write that came
\* in between its queries, unless that write replaced the items of a promotion:
\* the same items at the same prices, with the sizes and the best promotions of
\* one moment (computeEffectiveMenu), for any tables.
THEOREM SpecMenuOfOneMoment == Spec => []MenuOfOneMoment
<1>1. MomentInv => MenuOfOneMoment
  BY DEF MomentInv, MenuOfOneMoment, Undisturbed
<1> QED BY <1>1, MomentInvariant, PTL

==============================================================================
