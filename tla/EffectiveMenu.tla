----------------------------- MODULE EffectiveMenu -----------------------------
(***************************************************************************)
(* One computation of a restaurant's effective menu (computeEffectiveMenu, *)
(* internal/service/effective_menu_service.go).  It reads the catalogue in *)
(* seven queries that share no snapshot (effective_menu_repo.go), merges   *)
(* what it read, and asks when the menu will change by itself, while the   *)
(* catalogue's handlers write and time passes.                             *)
(*                                                                         *)
(* A write is the statement, or the transaction, of a repository.  Names,  *)
(* images and sort orders are left out.  Amounts are integers in a unit    *)
(* small enough for percentages to be exact, instants are numbers.         *)
(***************************************************************************)
EXTENDS Integers, FiniteSets, Sequences, SequencesExt

CONSTANTS
    Categories, Items, Variations, Promotions,  \* ids of rows
    ItemOf,             \* the item of each variation, which never changes
    Prices, Deltas,     \* bound: amounts the writes choose from
    Offers,             \* bound: what promotions are created and updated with
    Start,              \* bound: the tables when the computation begins
    MaxEdits,           \* bound: writes during the computation
    MaxTime,            \* bound: the last instant
    Null

Time == 0..MaxTime

\* Whether a row is shown to customers; a deleted one stays in its table.
RowState == {"none", "active", "inactive", "deleted"}
Live == {"active", "inactive"}

ItemRow == [state : RowState, category : Categories, price : Nat]

VariationRow == [state : {"none", "active", "inactive"}, delta : Int]

\* The restaurant's override of an item; both Null when there is none.
OverrideRow == [price : Nat \cup {Null}, available : {"yes", "no", Null}]
NoOverride == [price |-> Null, available |-> Null]

\* "elsewhere": the scope is another region or another restaurant.
Scopes == {"global", "region", "restaurant", "elsewhere"}

Offer == [type : {"percentage", "fixed"}, value : Nat \ {0}, priority : Int,
          starts : Nat, ends : Nat, targets : SUBSET Items]

PromotionRow == [state : RowState, scope : Scopes, offer : Offer]

Tables == [category : [Categories -> RowState], item : [Items -> ItemRow],
           variation : [Variations -> VariationRow],
           override : [Items -> OverrideRow],
           promotion : [Promotions -> PromotionRow]]

\* chk_promotion_discount and chk_promotion_dates.
Allowed(o) == o.starts < o.ends /\ (o.type = "percentage" => o.value <= 100)

ASSUME EffectiveMenuAssumption ==
    /\ IsFiniteSet(Promotions)
    /\ ItemOf \in [Variations -> Items]
    /\ Prices \subseteq Nat \ {0}
    /\ Deltas \subseteq Int
    /\ Offers \subseteq Offer /\ \A o \in Offers : Allowed(o)
    /\ Start \subseteq Tables
    /\ \A t \in Start, p \in Promotions : Allowed(t.promotion[p].offer)
    /\ MaxEdits \in Nat /\ MaxTime \in Nat
    /\ Null \notin Nat \cup Promotions \cup {"yes", "no"}

VARIABLES
    db,             \* the six tables
    now,
    pc,             \* the query the computation comes to next
    cats,           \* what LoadCategories returned
    rows,           \* what LoadMenuItems returned
    deltas,         \* what LoadVariationsByItemIDs returned
    overs,          \* what LoadOverridesForRestaurant returned
    promos,         \* what LoadActivePromotions has so far, in its order
    mapped,         \* the promotions in promos whose items were loaded
    readAt,         \* the instant LoadActivePromotions asked about
    menu,           \* the answer: an entry for each item on it
    generatedAt, validUntil,
    was,            \* history: db when the computation began
    edits,          \* history: writes since then
    retargeted,     \* history: one of them replaced a promotion's items
    kept,           \* history: items for sale, in one category, ever since
    withdrawn,      \* history: items inactive or deleted ever since
    soldOut,        \* history: items overridden as unavailable ever since
    closed          \* history: categories not shown ever since

readVars == <<cats, rows, deltas, overs, promos, mapped, readAt>>
answerVars == <<menu, generatedAt, validUntil>>
historyVars == <<was, edits, retargeted, kept, withdrawn, soldOut, closed>>
vars == <<db, now, pc, cats, rows, deltas, overs, promos, mapped, readAt,
          menu, generatedAt, validUntil,
          was, edits, retargeted, kept, withdrawn, soldOut, closed>>

Queries == {"categories", "items", "variations", "overrides", "promotions",
            "targets", "assemble", "next"}

-----------------------------------------------------------------------------
(* What a menu is, as a function of the tables.                            *)

ForSale(t, i) ==
    /\ t.item[i].state = "active"
    /\ t.category[t.item[i].category] = "active"
    /\ t.override[i].available # "no"

\* The promotions that apply to the restaurant, at some time.
Scheduled(t) ==
    {p \in Promotions : /\ t.promotion[p].state = "active"
                        /\ t.promotion[p].scope # "elsewhere"}

\* Those that run at the instant x, both ends included.
Running(t, x) ==
    {p \in Scheduled(t) : /\ t.promotion[p].offer.starts <= x
                          /\ x <= t.promotion[p].offer.ends}

IsFor(offer, i) == offer.targets = {} \/ i \in offer.targets

Better(o, than) ==
    \/ o.priority > than.priority
    \/ o.priority = than.priority /\ o.value > than.value
    \/ /\ o.priority = than.priority /\ o.value = than.value
       /\ o.starts < than.starts

\* The promotions i may be sold under: none of those that run is better.
Best(t, x, i) ==
    LET candidates == {p \in Running(t, x) : IsFor(t.promotion[p].offer, i)} IN
    {p \in candidates : \A q \in candidates :
        ~Better(t.promotion[q].offer, t.promotion[p].offer)}

Discounted(price, o) ==
    IF o.type = "percentage" THEN (price * (100 - o.value)) \div 100
    ELSE IF o.value > price THEN 0 ELSE price - o.value

IsEntry(e, t, x, i) ==
    LET price == IF t.override[i].price = Null THEN t.item[i].price
                 ELSE t.override[i].price IN
    /\ e.category = t.item[i].category
    /\ IF Best(t, x, i) = {} THEN e.promotion = Null /\ e.price = price
       ELSE /\ e.promotion \in Best(t, x, i)
            /\ e.price = Discounted(price, t.promotion[e.promotion].offer)
    /\ e.sizes = [v \in {w \in Variations : /\ ItemOf[w] = i
                                            /\ t.variation[w].state = "active"}
                    |-> e.price + t.variation[v].delta]

\* m is the menu that the tables t define at the instant x.
IsMenu(m, t, x) ==
    /\ DOMAIN m = {i \in Items : ForSale(t, i)}
    /\ \A i \in DOMAIN m : IsEntry(m[i], t, x, i)

-----------------------------------------------------------------------------
Init ==
    /\ db \in Start
    /\ now = 0
    /\ pc = "categories"
    /\ cats = {} /\ rows = << >> /\ deltas = << >> /\ overs = << >>
    /\ promos = << >> /\ mapped = 0 /\ readAt = 0
    /\ menu = << >> /\ generatedAt = 0 /\ validUntil = Null
    /\ was = db
    /\ edits = 0
    /\ retargeted = FALSE
    /\ kept = {i \in Items : ForSale(db, i)}
    /\ withdrawn = {i \in Items : db.item[i].state # "active"}
    /\ soldOut = {i \in Items : db.override[i].available = "no"}
    /\ closed = {c \in Categories : db.category[c] # "active"}

Tick ==
    /\ now < MaxTime
    /\ now' = now + 1
    /\ UNCHANGED <<db, pc, readVars, answerVars, historyVars>>

-----------------------------------------------------------------------------
(* The catalogue's handlers write.                                         *)

\* Bound: only writes that change a column modelled here, and only while the
\* computation runs.
Edit(t, retarget) ==
    /\ pc \in Queries /\ edits < MaxEdits /\ t # db
    /\ db' = t
    /\ edits' = edits + 1
    /\ retargeted' = (retargeted \/ retarget)
    /\ kept' = {i \in kept : /\ ForSale(t, i)
                             /\ t.item[i].category = db.item[i].category}
    /\ withdrawn' = {i \in withdrawn : t.item[i].state # "active"}
    /\ soldOut' = {i \in soldOut : t.override[i].available = "no"}
    /\ closed' = {c \in closed : t.category[c] # "active"}
    /\ UNCHANGED <<now, pc, readVars, answerVars, was>>

CreateCategory(c) ==
    /\ db.category[c] = "none"
    /\ Edit([db EXCEPT !.category[c] = "active"], FALSE)

\* Every UPDATE of a category, an item or a promotion has deleted_at IS NULL.
UpdateCategory(c) ==
    /\ db.category[c] \in Live
    /\ \E s \in Live : Edit([db EXCEPT !.category[c] = s], FALSE)

DeleteCategory(c) ==
    /\ db.category[c] \in Live
    /\ Edit([db EXCEPT !.category[c] = "deleted"], FALSE)

\* The foreign keys only ask for a row, which may have been soft-deleted since
\* the handler looked.
CreateItem(i) ==
    /\ db.item[i].state = "none"
    /\ \E c \in Categories, price \in Prices :
          /\ db.category[c] # "none"
          /\ Edit([db EXCEPT !.item[i] =
                      [state |-> "active", category |-> c, price |-> price]], FALSE)

UpdateItem(i) ==
    /\ db.item[i].state \in Live
    /\ \E s \in Live, c \in Categories, price \in Prices :
          /\ db.category[c] # "none"
          /\ Edit([db EXCEPT !.item[i] =
                      [state |-> s, category |-> c, price |-> price]], FALSE)

DeleteItem(i) ==
    /\ db.item[i].state \in Live
    /\ Edit([db EXCEPT !.item[i].state = "deleted"], FALSE)

CreateVariation(v) ==
    /\ db.variation[v].state = "none" /\ db.item[ItemOf[v]].state # "none"
    /\ \E d \in Deltas :
          Edit([db EXCEPT !.variation[v] = [state |-> "active", delta |-> d]], FALSE)

\* A variation has no deleted_at: Delete makes it inactive, Update can make it
\* active again.
UpdateVariation(v) ==
    /\ db.variation[v].state # "none"
    /\ \E s \in Live, d \in Deltas :
          Edit([db EXCEPT !.variation[v] = [state |-> s, delta |-> d]], FALSE)

DeleteVariation(v) ==
    /\ db.variation[v].state = "active"
    /\ Edit([db EXCEPT !.variation[v].state = "inactive"], FALSE)

\* Upsert, and Update of a row that is there.
SetOverride(i) ==
    /\ db.item[i].state # "none"
    /\ \E price \in Prices \cup {Null}, available \in {"yes", "no", Null} :
          /\ price # Null \/ available # Null
          /\ Edit([db EXCEPT !.override[i] =
                      [price |-> price, available |-> available]], FALSE)

DeleteOverride(i) ==
    /\ db.override[i] # NoOverride
    /\ Edit([db EXCEPT !.override[i] = NoOverride], FALSE)

Targetable(o) == \A i \in o.targets : db.item[i].state # "none"

\* The promotion and its items in one transaction.
CreatePromotion(p) ==
    /\ db.promotion[p].state = "none"
    /\ \E s \in Live, scope \in Scopes, o \in Offers :
          /\ Targetable(o)
          /\ Edit([db EXCEPT !.promotion[p] =
                      [state |-> s, scope |-> scope, offer |-> o]], FALSE)

\* So too; the scope stays.
UpdatePromotion(p) ==
    /\ db.promotion[p].state \in Live
    /\ \E s \in Live, o \in Offers :
          /\ Targetable(o)
          /\ Edit([db EXCEPT !.promotion[p] =
                      [state |-> s, scope |-> @.scope, offer |-> o]], TRUE)

DeletePromotion(p) ==
    /\ db.promotion[p].state \in Live
    /\ Edit([db EXCEPT !.promotion[p].state = "deleted"], FALSE)

-----------------------------------------------------------------------------
(* The computation, a query at a time.                                     *)

LoadCategories ==
    /\ pc = "categories"
    /\ cats' = {c \in Categories : db.category[c] = "active"}
    /\ pc' = "items"
    /\ UNCHANGED <<db, now, rows, deltas, overs, promos, mapped, readAt, answerVars, historyVars>>

\* Mutant: no is_active in the WHERE clause.
NotDeleted == {i \in Items : db.item[i].state \in Live}

ActiveItems == {i \in Items : db.item[i].state = "active"}

LoadMenuItems ==
    /\ pc = "items"
    /\ rows' = [i \in ActiveItems |-> db.item[i]]
    /\ pc' = "variations"
    /\ UNCHANGED <<db, now, cats, deltas, overs, promos, mapped, readAt, answerVars, historyVars>>

LoadVariationsByItemIDs ==
    /\ pc = "variations"
    /\ deltas' = [v \in {w \in Variations : /\ ItemOf[w] \in DOMAIN rows
                                            /\ db.variation[w].state = "active"}
                    |-> db.variation[v].delta]
    /\ pc' = "overrides"
    /\ UNCHANGED <<db, now, cats, rows, overs, promos, mapped, readAt, answerVars, historyVars>>

LoadOverridesForRestaurant ==
    /\ pc = "overrides"
    /\ overs' = db.override
    /\ pc' = "promotions"
    /\ UNCHANGED <<db, now, cats, rows, deltas, promos, mapped, readAt, answerVars, historyVars>>

\* ORDER BY priority DESC, starts_at ASC
Ordered(s) ==
    \A m, n \in DOMAIN s : m < n =>
        LET former == db.promotion[s[m]].offer
            latter == db.promotion[s[n]].offer
        IN \/ former.priority > latter.priority
           \/ former.priority = latter.priority /\ former.starts <= latter.starts

\* The rows without their items, which come in queries of their own.
SelectPromotions ==
    /\ pc = "promotions"
    /\ readAt' = now
    /\ \E s \in SetToSeqs(Running(db, now)) :
          /\ Ordered(s)
          /\ promos' = [n \in DOMAIN s |->
                [id |-> s[n], offer |-> [db.promotion[s[n]].offer EXCEPT !.targets = {}]]]
          /\ pc' = IF s = << >> THEN "assemble" ELSE "targets"
    /\ UNCHANGED <<db, now, cats, rows, deltas, overs, mapped, answerVars, historyVars>>

loadPromotionItems ==
    /\ pc = "targets"
    /\ promos' = [promos EXCEPT ![mapped + 1].offer.targets =
                     db.promotion[promos[mapped + 1].id].offer.targets]
    /\ mapped' = mapped + 1
    /\ pc' = IF mapped + 1 = Len(promos) THEN "assemble" ELSE "targets"
    /\ UNCHANGED <<db, now, cats, rows, deltas, overs, readAt, answerVars, historyVars>>

applyDiscount(price, o) ==
    IF o.type = "percentage" THEN (price * (100 - o.value)) \div 100
    ELSE IF price - o.value < 0 THEN 0 ELSE price - o.value

Replaces(o, existing) ==
    \/ o.priority > existing.priority
    \/ o.priority = existing.priority /\ o.value > existing.value

Nobody == [id |-> Null]

\* The index's entry for item i after one more promotion, p.
Indexed(p, existing, i) ==
    IF IsFor(p.offer, i) /\ (existing = Nobody \/ Replaces(p.offer, existing.offer))
    THEN p ELSE existing

\* entry[n]: the index's entry for item i after n promotions.
buildPromotionIndex(i) ==
    LET entry[n \in 0..Len(promos)] ==
            IF n = 0 THEN Nobody ELSE Indexed(promos[n], entry[n - 1], i)
    IN entry[Len(promos)]

IsAvailable(i) ==
    IF overs[i].available = Null THEN rows[i].state = "active"
    ELSE overs[i].available = "yes"

\* Mutant: the item is read again for its price.
MasterPriceNow(i) == db.item[i].price

MasterPrice(i) == rows[i].price

buildEffectiveItem(i) ==
    LET price == IF overs[i].price = Null THEN MasterPrice(i) ELSE overs[i].price
        promotion == buildPromotionIndex(i)
        final == IF promotion = Nobody THEN price ELSE applyDiscount(price, promotion.offer)
    IN [category |-> rows[i].category, price |-> final, promotion |-> promotion.id,
        sizes |-> [v \in {w \in DOMAIN deltas : ItemOf[w] = i} |-> final + deltas[v]]]

\* A category comes with its items; one without items is not on the menu.
Assemble ==
    /\ pc = "assemble"
    /\ menu' = [i \in {j \in DOMAIN rows : rows[j].category \in cats /\ IsAvailable(j)}
                  |-> buildEffectiveItem(i)]
    /\ generatedAt' = now
    /\ pc' = "next"
    /\ UNCHANGED <<db, now, readVars, validUntil, historyVars>>

\* Mutant: the ends are forgotten.
StartsOnly(x) ==
    {t \in {db.promotion[p].offer.starts : p \in Scheduled(db)} : t > x}

ChangesAfter(x) ==
    {t \in {db.promotion[p].offer.starts : p \in Scheduled(db)}
           \cup {db.promotion[p].offer.ends : p \in Scheduled(db)} : t > x}

NextPromotionChange ==
    /\ pc = "next"
    /\ \/ /\ ChangesAfter(generatedAt) = {}
          /\ validUntil' = Null
       \/ \E t \in ChangesAfter(generatedAt) :
             /\ \A u \in ChangesAfter(generatedAt) : t <= u
             /\ validUntil' = t
    /\ pc' = "done"
    /\ UNCHANGED <<db, now, readVars, menu, generatedAt, historyVars>>

QueryFails ==
    /\ pc \in Queries \ {"assemble"}
    /\ pc' = "failed"
    /\ UNCHANGED <<db, now, readVars, answerVars, historyVars>>

-----------------------------------------------------------------------------
CatalogueWrites ==
    \/ \E c \in Categories : CreateCategory(c) \/ UpdateCategory(c) \/ DeleteCategory(c)
    \/ \E i \in Items :
          \/ CreateItem(i) \/ UpdateItem(i) \/ DeleteItem(i)
          \/ SetOverride(i) \/ DeleteOverride(i)
    \/ \E v \in Variations : CreateVariation(v) \/ UpdateVariation(v) \/ DeleteVariation(v)
    \/ \E p \in Promotions : CreatePromotion(p) \/ UpdatePromotion(p) \/ DeletePromotion(p)

Computes ==
    \/ LoadCategories \/ LoadMenuItems \/ LoadVariationsByItemIDs
    \/ LoadOverridesForRestaurant \/ SelectPromotions \/ loadPromotionItems
    \/ Assemble \/ NextPromotionChange \/ QueryFails

Next == CatalogueWrites \/ Computes \/ Tick

Spec == Init /\ [][Next]_vars

-----------------------------------------------------------------------------
(* Properties.                                                             *)

TablesTyped ==
    /\ db \in Tables /\ was \in Tables
    /\ now \in Time
    /\ pc \in Queries \cup {"done", "failed"}
    /\ edits \in 0..MaxEdits /\ retargeted \in BOOLEAN
    /\ kept \subseteq Items /\ withdrawn \subseteq Items /\ soldOut \subseteq Items
    /\ closed \subseteq Categories

ReadsTyped ==
    /\ cats \subseteq Categories
    /\ DOMAIN rows \subseteq Items /\ \A i \in DOMAIN rows : rows[i] \in ItemRow
    /\ DOMAIN deltas \subseteq Variations /\ \A v \in DOMAIN deltas : deltas[v] \in Int
    /\ overs = << >> \/ overs \in [Items -> OverrideRow]
    /\ readAt \in Time

AnswerTyped ==
    /\ generatedAt \in Time
    /\ validUntil \in Nat \cup {Null}

Assembled == pc \in {"next", "done"}

\* The menu is the one that the tables define, although it is put together
\* from seven queries: those before or those after a write that came in
\* between.  An update that replaces a promotion's items is the exception: its
\* row and its items are read apart (effective_menu_repo.go:174, 180).
MenuOfOneMoment ==
    Assembled /\ edits <= 1 /\ ~retargeted =>
        IsMenu(menu, was, readAt) \/ IsMenu(menu, db, readAt)

\* Whatever is written meanwhile, and however often, an item that is for sale
\* all along and stays in its category is on the menu: no query loses it to
\* the moment of another one.
StaysOnMenu == Assembled => kept \subseteq DOMAIN menu

\* Nor is an item on the menu that was withdrawn, or overridden as unavailable,
\* or whose category was closed, all along.
StaysOff ==
    Assembled =>
        /\ DOMAIN menu \cap (withdrawn \cup soldOut) = {}
        /\ \A i \in DOMAIN menu : menu[i].category \notin closed

\* No promotion starts or ends between the moment the promotions were read for
\* and the moment the menu says it was made at.
NothingTurns ==
    \A p \in Scheduled(db) :
        LET o == db.promotion[p].offer IN
        /\ ~(readAt < o.starts /\ o.starts <= generatedAt)
        /\ ~(readAt <= o.ends /\ o.ends <= generatedAt)

\* ValidUntil (domain/effective_menu.go:15): until then the promotions that run
\* are those the menu was made with, so it does not change by itself, unless
\* one started or ended while it was made.
StaysValid ==
    pc = "done" /\ edits = 0 /\ NothingTurns =>
        \A x \in Time : generatedAt <= x /\ (validUntil = Null \/ x < validUntil)
            => Running(db, x) = Running(db, readAt)

-----------------------------------------------------------------------------
(* The inductive invariant of EffectiveMenuProofs.                         *)

\* The queries answered before the computation stands at one of those.
AfterItems == {"variations", "overrides", "promotions", "targets", "assemble"}
AfterOverrides == {"promotions", "targets", "assemble"}

\* What has been so all along is so now.
HistoriesTrue ==
    /\ \A i \in kept : ForSale(db, i)
    /\ \A i \in withdrawn : db.item[i].state # "active"
    /\ \A i \in soldOut : db.override[i].available = "no"
    /\ \A c \in closed : db.category[c] # "active"

\* What was read of it says so too, whichever moment it was read at.
ReadsAgree ==
    /\ pc \in AfterItems \cup {"items"} =>
          /\ \A i \in kept : db.item[i].category \in cats
          /\ cats \cap closed = {}
    /\ pc \in AfterItems =>
          /\ \A i \in kept : /\ i \in DOMAIN rows /\ rows[i].state = "active"
                            /\ rows[i].category = db.item[i].category
          /\ withdrawn \cap DOMAIN rows = {}
    /\ pc \in AfterOverrides =>
          /\ \A i \in kept : overs[i].available # "no"
          /\ \A i \in soldOut : overs[i].available = "no"

ClockSound ==
    /\ readAt <= now /\ generatedAt <= now
    /\ Assembled => readAt <= generatedAt
    /\ pc = "done" => \A t \in ChangesAfter(generatedAt) :
                          validUntil # Null /\ validUntil <= t

IInv ==
    /\ TablesTyped /\ ReadsTyped /\ AnswerTyped
    /\ pc \in AfterOverrides => overs \in [Items -> OverrideRow]
    /\ HistoriesTrue
    /\ ReadsAgree
    /\ ClockSound
    /\ StaysOnMenu
    /\ StaysOff

=============================================================================
