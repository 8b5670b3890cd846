---------------------------- MODULE CatalogueProofs ----------------------------
(***************************************************************************)
(* Proofs about the changes of the menu: no old menu is shown without its  *)
(* reason, and no handler writes what it may not, for any rows, accounts   *)
(* and requests, and any number of failures and repeated messages.         *)
(***************************************************************************)
EXTENDS Catalogue, SequenceTheorems, TLAPS

-----------------------------------------------------------------------------
(* The inductive invariant.                                                *)

\* Kinds of rows that belong to a place, which the handlers check.
Scoped == {"override", "promotion"}

\* A request that deletes its row without a look at it.
Blunt(kind, op) == kind \in {"category", "variation"} /\ op = "delete"

\* What is left of a script.
Left(kind, op) ==
    CASE op = "create" /\ kind = "override" ->
            {<<"scope", "parent", "upsert", "publish">>, <<"parent", "upsert", "publish">>,
             <<"upsert", "publish">>, <<"publish">>}
      [] op = "create" /\ kind = "promotion" ->
            {<<"scope", "insert", "publish">>, <<"insert", "publish">>, <<"publish">>}
      [] op = "create" /\ kind \notin Scoped ->
            {<<"parent", "insert", "publish">>, <<"insert", "publish">>, <<"publish">>}
      [] op = "update" /\ kind \in Scoped ->
            {<<"load", "scope", "write", "publish">>, <<"scope", "write", "publish">>,
             <<"write", "publish">>, <<"publish">>}
      [] op = "update" /\ kind \notin Scoped ->
            {<<"load", "write", "publish">>, <<"load", "parent", "write", "publish">>,
             <<"parent", "write", "publish">>, <<"write", "publish">>, <<"publish">>}
      [] op = "delete" /\ kind \in Scoped ->
            {<<"load", "scope", "remove", "publish">>, <<"scope", "remove", "publish">>,
             <<"remove", "publish">>, <<"publish">>}
      [] op = "delete" /\ kind = "item" ->
            {<<"load", "remove", "publish">>, <<"remove", "publish">>, <<"publish">>}
      [] OTHER -> {<<"remove", "publish">>, <<"publish">>}

Scripts == {<<>>} \cup (UNION {UNION {Left(kind, op) : op \in Ops} : kind \in Kinds})

\* The step that q is at.
Stage(q) == IF outcome[q] = "running" THEN Head(todo[q]) ELSE "none"

Scripted ==
    /\ outcome \in [Requests -> {"idle", "running", "ok", "refused", "failed"}]
    /\ todo \in [Requests -> Scripts]
    /\ \A q \in Requests :
          IF outcome[q] = "running" THEN todo[q] \in Left(req[q].kind, req[q].op)
                                    ELSE todo[q] = <<>>

\* Where the override e applies.
Place(e) == CHOOSE s \in Restaurants : Overrides(e, s)

\* What may be asked for, and by whom.
Asked ==
    \A q \in Requests :
        /\ req[q].kind = KindOf[req[q].on]
        /\ req[q].kind # "promotion" /\ req[q].op = "create" => req[q].change = "keep"
        /\ req[q].kind = "override" => req[q].change = "keep"
        /\ req[q].kind = "override" /\ req[q].op = "create" => req[q].at = Place(req[q].on)
        /\ outcome[q] = "running" => CheckPermission(Actor(q), Permission(req[q]))

\* A topic has, and has lost, only events that were accepted.
Queued ==
    /\ status \in [Announcements -> {"absent", "accepted", "retired"}]
    /\ topic \in [Keys -> Seq(Announcements)]
    /\ \A k \in Keys : \A i \in 1..Len(topic[k]) :
          topic[k][i][2] = k /\ status[topic[k][i]] # "absent"
    /\ dropped \subseteq {c \in Announcements : status[c] # "absent"}

\* An override is on, where it belongs, or there is none.
Placed ==
    \A e \in Entities : KindOf[e] = "override" /\ rows[e] # NoRow =>
        rows[e].state = "live" /\ rows[e].active /\ rows[e].at = Place(e)

\* The row a handler read is where its row still is, whoever has changed it.
Known ==
    \A q \in Requests :
        /\ Blunt(req[q].kind, req[q].op) => loaded[q] = NoRow
        /\ Stage(q) \notin {"none", "load"} /\ req[q].op # "create"
              => loaded[q].state = "live" \/ Blunt(req[q].kind, req[q].op)
        /\ loaded[q].state # "none" =>
              IF req[q].kind = "override"
              THEN loaded[q].at = Place(req[q].on) /\ loaded[q].active
              ELSE rows[req[q].on].state # "none" /\ loaded[q].at = rows[req[q].on].at

ScopeRule(q) ==
    IF req[q].kind = "promotion"
    THEN checkPromotionScope(Actor(q), Where(q))
    ELSE CanAccessRestaurant(Actor(q), Where(q), Restaurants)

\* The handler has checked the place.
ScopeKept ==
    \A q \in Requests :
        req[q].kind \in Scoped /\ Stage(q) \notin {"none", "load", "scope"} => ScopeRule(q)

\* The reasons for which s may be shown an old menu.
Announced(s) ==
    \/ s \in blind
    \/ \E q \in Requests : At(q, "publish") /\ s \in Covers(KeyOf(q))
    \/ \E c \in Announcements : Pending(c) /\ s \in Covers(c[2])

\* A menu that is served, and one that will be, is not old without a reason.
Fresh ==
    \A s \in Restaurants :
        /\ cache[s] \notin {<<>>, <<Menu(s)>>} => Announced(s)
        /\ filling[s] \notin {<<>>, <<Menu(s)>>} => Announced(s)

IInv ==
    TypeOK /\ Scripted /\ Asked /\ Queued /\ Placed /\ Known /\ ScopeKept /\ Fresh

-----------------------------------------------------------------------------
(* Scripts.                                                                *)

Writes == {"insert", "upsert", "write", "remove"}

\* What is known of the rest s of a script: the step it is at, and the next.
Rests(kind, op, s) ==
    /\ s # <<>>
    /\ Head(s) \in {"load", "parent", "scope", "publish"} \cup Writes
    /\ Head(s) = "publish" <=> Len(s) = 1
    /\ Len(s) = 1 => Tail(s) = <<>>
    /\ Len(s) # 1 => /\ Tail(s) \in Left(kind, op)
                     /\ Head(Tail(s)) \notin {Head(s), "load", "none"}
    /\ Head(s) \in Writes => Head(Tail(s)) = "publish"
    /\ Head(s) = "load" => op # "create" /\ ~Blunt(kind, op)
    /\ Head(s) = "load" /\ kind \in Scoped => Head(Tail(s)) = "scope"
    /\ Head(s) = "scope" => kind \in Scoped
    /\ Head(s) = "insert" => op = "create" /\ kind # "override"
    /\ Head(s) = "upsert" => op = "create" /\ kind = "override"
    /\ Head(s) = "write" => op = "update"
    /\ Head(s) = "remove" => op = "delete"

\* A script of several steps: its first step, and the rest.
LEMMA Rest ==
    ASSUME NEW a, NEW b, NEW c, NEW d
    PROVE  /\ Head(<<a>>) = a /\ Tail(<<a>>) = <<>> /\ Len(<<a>>) = 1
           /\ Head(<<a, b>>) = a /\ Tail(<<a, b>>) = <<b>> /\ Len(<<a, b>>) = 2
           /\ Head(<<a, b, c>>) = a /\ Tail(<<a, b, c>>) = <<b, c>> /\ Len(<<a, b, c>>) = 3
           /\ Head(<<a, b, c, d>>) = a /\ Tail(<<a, b, c, d>>) = <<b, c, d>> /\ Len(<<a, b, c, d>>) = 4
<1>1. Head(<<a>>) = a /\ Len(<<a>>) = 1
  OBVIOUS
<1>2. Tail(<<a>>) = <<>>
  OBVIOUS
<1>3. Head(<<a, b>>) = a /\ Len(<<a, b>>) = 2
  OBVIOUS
<1>4. Tail(<<a, b>>) = <<b>>
  OBVIOUS
<1>5. Head(<<a, b, c>>) = a /\ Len(<<a, b, c>>) = 3
  OBVIOUS
<1>6. Tail(<<a, b, c>>) = <<b, c>>
  OBVIOUS
<1>7. Head(<<a, b, c, d>>) = a /\ Len(<<a, b, c, d>>) = 4
  OBVIOUS
<1>8. Tail(<<a, b, c, d>>) = <<b, c, d>>
  OBVIOUS
<1> QED BY <1>1, <1>2, <1>3, <1>4, <1>5, <1>6, <1>7, <1>8

\* What is left, request by request.
LEMMA LeftFacts ==
    ASSUME NEW kind, NEW op
    PROVE  /\ op = "create" /\ kind = "override" => Left(kind, op) =
                {<<"scope", "parent", "upsert", "publish">>,
                 <<"parent", "upsert", "publish">>,
                 <<"upsert", "publish">>,
                 <<"publish">>}
           /\ op = "create" /\ kind = "promotion" => Left(kind, op) =
                {<<"scope", "insert", "publish">>,
                 <<"insert", "publish">>,
                 <<"publish">>}
           /\ op = "create" /\ kind \notin Scoped => Left(kind, op) =
                {<<"parent", "insert", "publish">>,
                 <<"insert", "publish">>,
                 <<"publish">>}
           /\ op = "update" /\ kind \in Scoped => Left(kind, op) =
                {<<"load", "scope", "write", "publish">>,
                 <<"scope", "write", "publish">>,
                 <<"write", "publish">>,
                 <<"publish">>}
           /\ op = "update" /\ kind \notin Scoped => Left(kind, op) =
                {<<"load", "write", "publish">>,
                 <<"load", "parent", "write", "publish">>,
                 <<"parent", "write", "publish">>,
                 <<"write", "publish">>,
                 <<"publish">>}
           /\ op = "delete" /\ kind \in Scoped => Left(kind, op) =
                {<<"load", "scope", "remove", "publish">>,
                 <<"scope", "remove", "publish">>,
                 <<"remove", "publish">>,
                 <<"publish">>}
           /\ op = "delete" /\ kind = "item" => Left(kind, op) =
                {<<"load", "remove", "publish">>,
                 <<"remove", "publish">>,
                 <<"publish">>}
           /\ op = "delete" /\ kind \in {"category", "variation"} => Left(kind, op) =
                {<<"remove", "publish">>,
                 <<"publish">>}
<1>1. ASSUME op = "create" /\ kind = "override"
      PROVE  Left(kind, op) =
                {<<"scope", "parent", "upsert", "publish">>,
                 <<"parent", "upsert", "publish">>,
                 <<"upsert", "publish">>,
                 <<"publish">>}
  BY <1>1 DEF Left, Scoped
<1>2. ASSUME op = "create" /\ kind = "promotion"
      PROVE  Left(kind, op) =
                {<<"scope", "insert", "publish">>,
                 <<"insert", "publish">>,
                 <<"publish">>}
  BY <1>2 DEF Left, Scoped
<1>3. ASSUME op = "create" /\ kind \notin Scoped
      PROVE  Left(kind, op) =
                {<<"parent", "insert", "publish">>,
                 <<"insert", "publish">>,
                 <<"publish">>}
  BY <1>3 DEF Left, Scoped
<1>4. ASSUME op = "update" /\ kind \in Scoped
      PROVE  Left(kind, op) =
                {<<"load", "scope", "write", "publish">>,
                 <<"scope", "write", "publish">>,
                 <<"write", "publish">>,
                 <<"publish">>}
  BY <1>4 DEF Left, Scoped
<1>5. ASSUME op = "update" /\ kind \notin Scoped
      PROVE  Left(kind, op) =
                {<<"load", "write", "publish">>,
                 <<"load", "parent", "write", "publish">>,
                 <<"parent", "write", "publish">>,
                 <<"write", "publish">>,
                 <<"publish">>}
  BY <1>5 DEF Left, Scoped
<1>6. ASSUME op = "delete" /\ kind \in Scoped
      PROVE  Left(kind, op) =
                {<<"load", "scope", "remove", "publish">>,
                 <<"scope", "remove", "publish">>,
                 <<"remove", "publish">>,
                 <<"publish">>}
  BY <1>6 DEF Left, Scoped
<1>7. ASSUME op = "delete" /\ kind = "item"
      PROVE  Left(kind, op) =
                {<<"load", "remove", "publish">>,
                 <<"remove", "publish">>,
                 <<"publish">>}
  BY <1>7 DEF Left, Scoped
<1>8. ASSUME op = "delete" /\ kind \in {"category", "variation"}
      PROVE  Left(kind, op) =
                {<<"remove", "publish">>,
                 <<"publish">>}
  BY <1>8 DEF Left, Scoped
<1> QED BY <1>1, <1>2, <1>3, <1>4, <1>5, <1>6, <1>7, <1>8

LEMMA LeftSetsOverride ==
    ASSUME NEW kind \in Kinds, NEW op \in Ops, op = "create" /\ kind = "override",
           NEW s \in Left(kind, op)
    PROVE  Rests(kind, op, s)
<1> DEFINE L == {<<"scope", "parent", "upsert", "publish">>,
                 <<"parent", "upsert", "publish">>,
                 <<"upsert", "publish">>,
                 <<"publish">>}
<1>1. Left(kind, op) = L /\ s \in L
  BY LeftFacts
<1>2. CASE s = <<"scope", "parent", "upsert", "publish">>
  <2>1. Head(s) = "scope" /\ Len(s) = 4 /\ Tail(s) = <<"parent", "upsert", "publish">>
    BY <1>2, Rest
  <2>2. Head(<<"parent", "upsert", "publish">>) = "parent"
    BY Rest
  <2>3. Tail(s) \in Left(kind, op)
    BY <1>1, <2>1
  <2> QED BY <1>2, <2>1, <2>2, <2>3 DEF Rests, Writes, Blunt, Scoped
<1>3. CASE s = <<"parent", "upsert", "publish">>
  <2>1. Head(s) = "parent" /\ Len(s) = 3 /\ Tail(s) = <<"upsert", "publish">>
    BY <1>3, Rest
  <2>2. Head(<<"upsert", "publish">>) = "upsert"
    BY Rest
  <2>3. Tail(s) \in Left(kind, op)
    BY <1>1, <2>1
  <2> QED BY <1>3, <2>1, <2>2, <2>3 DEF Rests, Writes, Blunt, Scoped
<1>4. CASE s = <<"upsert", "publish">>
  <2>1. Head(s) = "upsert" /\ Len(s) = 2 /\ Tail(s) = <<"publish">>
    BY <1>4, Rest
  <2>2. Head(<<"publish">>) = "publish"
    BY Rest
  <2>3. Tail(s) \in Left(kind, op)
    BY <1>1, <2>1
  <2> QED BY <1>4, <2>1, <2>2, <2>3 DEF Rests, Writes, Blunt, Scoped
<1>5. CASE s = <<"publish">>
  <2>1. Head(s) = "publish" /\ Len(s) = 1 /\ Tail(s) = <<>>
    BY <1>5, Rest
  <2> QED BY <1>5, <2>1 DEF Rests, Writes, Blunt, Scoped
<1> QED BY <1>1, <1>2, <1>3, <1>4, <1>5

LEMMA LeftCreatesPromotion ==
    ASSUME NEW kind \in Kinds, NEW op \in Ops, op = "create" /\ kind = "promotion",
           NEW s \in Left(kind, op)
    PROVE  Rests(kind, op, s)
<1> DEFINE L == {<<"scope", "insert", "publish">>,
                 <<"insert", "publish">>,
                 <<"publish">>}
<1>1. Left(kind, op) = L /\ s \in L
  BY LeftFacts
<1>2. CASE s = <<"scope", "insert", "publish">>
  <2>1. Head(s) = "scope" /\ Len(s) = 3 /\ Tail(s) = <<"insert", "publish">>
    BY <1>2, Rest
  <2>2. Head(<<"insert", "publish">>) = "insert"
    BY Rest
  <2>3. Tail(s) \in Left(kind, op)
    BY <1>1, <2>1
  <2> QED BY <1>2, <2>1, <2>2, <2>3 DEF Rests, Writes, Blunt, Scoped
<1>3. CASE s = <<"insert", "publish">>
  <2>1. Head(s) = "insert" /\ Len(s) = 2 /\ Tail(s) = <<"publish">>
    BY <1>3, Rest
  <2>2. Head(<<"publish">>) = "publish"
    BY Rest
  <2>3. Tail(s) \in Left(kind, op)
    BY <1>1, <2>1
  <2> QED BY <1>3, <2>1, <2>2, <2>3 DEF Rests, Writes, Blunt, Scoped
<1>4. CASE s = <<"publish">>
  <2>1. Head(s) = "publish" /\ Len(s) = 1 /\ Tail(s) = <<>>
    BY <1>4, Rest
  <2> QED BY <1>4, <2>1 DEF Rests, Writes, Blunt, Scoped
<1> QED BY <1>1, <1>2, <1>3, <1>4

LEMMA LeftCreates ==
    ASSUME NEW kind \in Kinds, NEW op \in Ops, op = "create" /\ kind \notin Scoped,
           NEW s \in Left(kind, op)
    PROVE  Rests(kind, op, s)
<1> DEFINE L == {<<"parent", "insert", "publish">>,
                 <<"insert", "publish">>,
                 <<"publish">>}
<1>1. Left(kind, op) = L /\ s \in L
  BY LeftFacts
<1>2. CASE s = <<"parent", "insert", "publish">>
  <2>1. Head(s) = "parent" /\ Len(s) = 3 /\ Tail(s) = <<"insert", "publish">>
    BY <1>2, Rest
  <2>2. Head(<<"insert", "publish">>) = "insert"
    BY Rest
  <2>3. Tail(s) \in Left(kind, op)
    BY <1>1, <2>1
  <2> QED BY <1>2, <2>1, <2>2, <2>3 DEF Rests, Writes, Blunt, Scoped
<1>3. CASE s = <<"insert", "publish">>
  <2>1. Head(s) = "insert" /\ Len(s) = 2 /\ Tail(s) = <<"publish">>
    BY <1>3, Rest
  <2>2. Head(<<"publish">>) = "publish"
    BY Rest
  <2>3. Tail(s) \in Left(kind, op)
    BY <1>1, <2>1
  <2> QED BY <1>3, <2>1, <2>2, <2>3 DEF Rests, Writes, Blunt, Scoped
<1>4. CASE s = <<"publish">>
  <2>1. Head(s) = "publish" /\ Len(s) = 1 /\ Tail(s) = <<>>
    BY <1>4, Rest
  <2> QED BY <1>4, <2>1 DEF Rests, Writes, Blunt, Scoped
<1> QED BY <1>1, <1>2, <1>3, <1>4

LEMMA LeftUpdatesScoped ==
    ASSUME NEW kind \in Kinds, NEW op \in Ops, op = "update" /\ kind \in Scoped,
           NEW s \in Left(kind, op)
    PROVE  Rests(kind, op, s)
<1> DEFINE L == {<<"load", "scope", "write", "publish">>,
                 <<"scope", "write", "publish">>,
                 <<"write", "publish">>,
                 <<"publish">>}
<1>1. Left(kind, op) = L /\ s \in L
  BY LeftFacts
<1>2. CASE s = <<"load", "scope", "write", "publish">>
  <2>1. Head(s) = "load" /\ Len(s) = 4 /\ Tail(s) = <<"scope", "write", "publish">>
    BY <1>2, Rest
  <2>2. Head(<<"scope", "write", "publish">>) = "scope"
    BY Rest
  <2>3. Tail(s) \in Left(kind, op)
    BY <1>1, <2>1
  <2> QED BY <1>2, <2>1, <2>2, <2>3 DEF Rests, Writes, Blunt, Scoped
<1>3. CASE s = <<"scope", "write", "publish">>
  <2>1. Head(s) = "scope" /\ Len(s) = 3 /\ Tail(s) = <<"write", "publish">>
    BY <1>3, Rest
  <2>2. Head(<<"write", "publish">>) = "write"
    BY Rest
  <2>3. Tail(s) \in Left(kind, op)
    BY <1>1, <2>1
  <2> QED BY <1>3, <2>1, <2>2, <2>3 DEF Rests, Writes, Blunt, Scoped
<1>4. CASE s = <<"write", "publish">>
  <2>1. Head(s) = "write" /\ Len(s) = 2 /\ Tail(s) = <<"publish">>
    BY <1>4, Rest
  <2>2. Head(<<"publish">>) = "publish"
    BY Rest
  <2>3. Tail(s) \in Left(kind, op)
    BY <1>1, <2>1
  <2> QED BY <1>4, <2>1, <2>2, <2>3 DEF Rests, Writes, Blunt, Scoped
<1>5. CASE s = <<"publish">>
  <2>1. Head(s) = "publish" /\ Len(s) = 1 /\ Tail(s) = <<>>
    BY <1>5, Rest
  <2> QED BY <1>5, <2>1 DEF Rests, Writes, Blunt, Scoped
<1> QED BY <1>1, <1>2, <1>3, <1>4, <1>5

LEMMA LeftUpdates ==
    ASSUME NEW kind \in Kinds, NEW op \in Ops, op = "update" /\ kind \notin Scoped,
           NEW s \in Left(kind, op)
    PROVE  Rests(kind, op, s)
<1> DEFINE L == {<<"load", "write", "publish">>,
                 <<"load", "parent", "write", "publish">>,
                 <<"parent", "write", "publish">>,
                 <<"write", "publish">>,
                 <<"publish">>}
<1>1. Left(kind, op) = L /\ s \in L
  BY LeftFacts
<1>2. CASE s = <<"load", "write", "publish">>
  <2>1. Head(s) = "load" /\ Len(s) = 3 /\ Tail(s) = <<"write", "publish">>
    BY <1>2, Rest
  <2>2. Head(<<"write", "publish">>) = "write"
    BY Rest
  <2>3. Tail(s) \in Left(kind, op)
    BY <1>1, <2>1
  <2> QED BY <1>2, <2>1, <2>2, <2>3 DEF Rests, Writes, Blunt, Scoped
<1>3. CASE s = <<"load", "parent", "write", "publish">>
  <2>1. Head(s) = "load" /\ Len(s) = 4 /\ Tail(s) = <<"parent", "write", "publish">>
    BY <1>3, Rest
  <2>2. Head(<<"parent", "write", "publish">>) = "parent"
    BY Rest
  <2>3. Tail(s) \in Left(kind, op)
    BY <1>1, <2>1
  <2> QED BY <1>3, <2>1, <2>2, <2>3 DEF Rests, Writes, Blunt, Scoped
<1>4. CASE s = <<"parent", "write", "publish">>
  <2>1. Head(s) = "parent" /\ Len(s) = 3 /\ Tail(s) = <<"write", "publish">>
    BY <1>4, Rest
  <2>2. Head(<<"write", "publish">>) = "write"
    BY Rest
  <2>3. Tail(s) \in Left(kind, op)
    BY <1>1, <2>1
  <2> QED BY <1>4, <2>1, <2>2, <2>3 DEF Rests, Writes, Blunt, Scoped
<1>5. CASE s = <<"write", "publish">>
  <2>1. Head(s) = "write" /\ Len(s) = 2 /\ Tail(s) = <<"publish">>
    BY <1>5, Rest
  <2>2. Head(<<"publish">>) = "publish"
    BY Rest
  <2>3. Tail(s) \in Left(kind, op)
    BY <1>1, <2>1
  <2> QED BY <1>5, <2>1, <2>2, <2>3 DEF Rests, Writes, Blunt, Scoped
<1>6. CASE s = <<"publish">>
  <2>1. Head(s) = "publish" /\ Len(s) = 1 /\ Tail(s) = <<>>
    BY <1>6, Rest
  <2> QED BY <1>6, <2>1 DEF Rests, Writes, Blunt, Scoped
<1> QED BY <1>1, <1>2, <1>3, <1>4, <1>5, <1>6

LEMMA LeftDeletesScoped ==
    ASSUME NEW kind \in Kinds, NEW op \in Ops, op = "delete" /\ kind \in Scoped,
           NEW s \in Left(kind, op)
    PROVE  Rests(kind, op, s)
<1> DEFINE L == {<<"load", "scope", "remove", "publish">>,
                 <<"scope", "remove", "publish">>,
                 <<"remove", "publish">>,
                 <<"publish">>}
<1>1. Left(kind, op) = L /\ s \in L
  BY LeftFacts
<1>2. CASE s = <<"load", "scope", "remove", "publish">>
  <2>1. Head(s) = "load" /\ Len(s) = 4 /\ Tail(s) = <<"scope", "remove", "publish">>
    BY <1>2, Rest
  <2>2. Head(<<"scope", "remove", "publish">>) = "scope"
    BY Rest
  <2>3. Tail(s) \in Left(kind, op)
    BY <1>1, <2>1
  <2> QED BY <1>2, <2>1, <2>2, <2>3 DEF Rests, Writes, Blunt, Scoped
<1>3. CASE s = <<"scope", "remove", "publish">>
  <2>1. Head(s) = "scope" /\ Len(s) = 3 /\ Tail(s) = <<"remove", "publish">>
    BY <1>3, Rest
  <2>2. Head(<<"remove", "publish">>) = "remove"
    BY Rest
  <2>3. Tail(s) \in Left(kind, op)
    BY <1>1, <2>1
  <2> QED BY <1>3, <2>1, <2>2, <2>3 DEF Rests, Writes, Blunt, Scoped
<1>4. CASE s = <<"remove", "publish">>
  <2>1. Head(s) = "remove" /\ Len(s) = 2 /\ Tail(s) = <<"publish">>
    BY <1>4, Rest
  <2>2. Head(<<"publish">>) = "publish"
    BY Rest
  <2>3. Tail(s) \in Left(kind, op)
    BY <1>1, <2>1
  <2> QED BY <1>4, <2>1, <2>2, <2>3 DEF Rests, Writes, Blunt, Scoped
<1>5. CASE s = <<"publish">>
  <2>1. Head(s) = "publish" /\ Len(s) = 1 /\ Tail(s) = <<>>
    BY <1>5, Rest
  <2> QED BY <1>5, <2>1 DEF Rests, Writes, Blunt, Scoped
<1> QED BY <1>1, <1>2, <1>3, <1>4, <1>5

LEMMA LeftDeletesItem ==
    ASSUME NEW kind \in Kinds, NEW op \in Ops, op = "delete" /\ kind = "item",
           NEW s \in Left(kind, op)
    PROVE  Rests(kind, op, s)
<1> DEFINE L == {<<"load", "remove", "publish">>,
                 <<"remove", "publish">>,
                 <<"publish">>}
<1>1. Left(kind, op) = L /\ s \in L
  BY LeftFacts
<1>2. CASE s = <<"load", "remove", "publish">>
  <2>1. Head(s) = "load" /\ Len(s) = 3 /\ Tail(s) = <<"remove", "publish">>
    BY <1>2, Rest
  <2>2. Head(<<"remove", "publish">>) = "remove"
    BY Rest
  <2>3. Tail(s) \in Left(kind, op)
    BY <1>1, <2>1
  <2> QED BY <1>2, <2>1, <2>2, <2>3 DEF Rests, Writes, Blunt, Scoped
<1>3. CASE s = <<"remove", "publish">>
  <2>1. Head(s) = "remove" /\ Len(s) = 2 /\ Tail(s) = <<"publish">>
    BY <1>3, Rest
  <2>2. Head(<<"publish">>) = "publish"
    BY Rest
  <2>3. Tail(s) \in Left(kind, op)
    BY <1>1, <2>1
  <2> QED BY <1>3, <2>1, <2>2, <2>3 DEF Rests, Writes, Blunt, Scoped
<1>4. CASE s = <<"publish">>
  <2>1. Head(s) = "publish" /\ Len(s) = 1 /\ Tail(s) = <<>>
    BY <1>4, Rest
  <2> QED BY <1>4, <2>1 DEF Rests, Writes, Blunt, Scoped
<1> QED BY <1>1, <1>2, <1>3, <1>4

LEMMA LeftDeletes ==
    ASSUME NEW kind \in Kinds, NEW op \in Ops, op = "delete" /\ kind \in {"category", "variation"},
           NEW s \in Left(kind, op)
    PROVE  Rests(kind, op, s)
<1> DEFINE L == {<<"remove", "publish">>,
                 <<"publish">>}
<1>1. Left(kind, op) = L /\ s \in L
  BY LeftFacts
<1>2. CASE s = <<"remove", "publish">>
  <2>1. Head(s) = "remove" /\ Len(s) = 2 /\ Tail(s) = <<"publish">>
    BY <1>2, Rest
  <2>2. Head(<<"publish">>) = "publish"
    BY Rest
  <2>3. Tail(s) \in Left(kind, op)
    BY <1>1, <2>1
  <2> QED BY <1>2, <2>1, <2>2, <2>3 DEF Rests, Writes, Blunt, Scoped
<1>3. CASE s = <<"publish">>
  <2>1. Head(s) = "publish" /\ Len(s) = 1 /\ Tail(s) = <<>>
    BY <1>3, Rest
  <2> QED BY <1>3, <2>1 DEF Rests, Writes, Blunt, Scoped
<1> QED BY <1>1, <1>2, <1>3

\* What is left of any script.
LEMMA LeftOfAny ==
    ASSUME NEW kind \in Kinds, NEW op \in Ops, NEW s \in Left(kind, op)
    PROVE  Rests(kind, op, s)
<1>1. op \in {"create", "update", "delete"}
      /\ kind \in {"category", "item", "variation", "override", "promotion"}
  BY DEF Ops, Kinds
<1>2. CASE op = "create"
  BY <1>1, <1>2, LeftSetsOverride, LeftCreatesPromotion, LeftCreates DEF Scoped
<1>3. CASE op = "update"
  BY <1>1, <1>3, LeftUpdatesScoped, LeftUpdates DEF Scoped
<1>4. CASE op = "delete"
  BY <1>1, <1>4, LeftDeletesScoped, LeftDeletesItem, LeftDeletes DEF Scoped
<1> QED BY <1>1, <1>2, <1>3, <1>4

\* What can be left, of whatever script.
LEMMA ScriptsFacts ==
    /\ <<>> \in Scripts
    /\ \A kind \in Kinds, op \in Ops : \A s \in Left(kind, op) : s \in Scripts
<1>1. <<>> \in Scripts
  BY DEF Scripts
<1>2. ASSUME NEW kind \in Kinds, NEW op \in Ops, NEW s \in Left(kind, op) PROVE s \in Scripts
  <2>1. s \in UNION {Left(kind, o) : o \in Ops}
    BY ZenonT(30)
  <2>2. s \in UNION {UNION {Left(k, o) : o \in Ops} : k \in Kinds}
    BY <2>1, ZenonT(30)
  <2> QED BY <2>2 DEF Scripts
<1> QED BY <1>1, <1>2

\* The script of a request: it begins with a look at its row, or at its place.
Begins(kind, op) ==
    LET s == Script(kind, op) IN
    /\ s \in Left(kind, op) /\ Head(s) \notin {"none", "publish"}
    /\ op # "create" => Head(s) = "load" \/ Blunt(kind, op)
    /\ kind \in Scoped => Head(s) \in {"load", "scope"}

LEMMA ScriptFacts ==
    ASSUME NEW kind \in Kinds, NEW op \in Ops
    PROVE  Begins(kind, op)
<1>1. op \in {"create", "update", "delete"}
      /\ kind \in {"category", "item", "variation", "override", "promotion"}
  BY DEF Ops, Kinds
<1>2. CASE kind = "category" /\ op = "create"
  <2>1. Script(kind, op) = <<"insert", "publish">>
    BY <1>2 DEF Script, CreateCategory
  <2>2. Head(<<"insert", "publish">>) = "insert"
    BY Rest
  <2>3. Script(kind, op) \in Left(kind, op)
    BY <1>2, <2>1, LeftFacts DEF Scoped
  <2> QED BY <1>2, <2>1, <2>2, <2>3 DEF Begins, Blunt, Scoped
<1>3. CASE kind = "category" /\ op = "update"
  <2>1. Script(kind, op) = <<"load", "write", "publish">>
    BY <1>3 DEF Script, UpdateCategory
  <2>2. Head(<<"load", "write", "publish">>) = "load"
    BY Rest
  <2>3. Script(kind, op) \in Left(kind, op)
    BY <1>3, <2>1, LeftFacts DEF Scoped
  <2> QED BY <1>3, <2>1, <2>2, <2>3 DEF Begins, Blunt, Scoped
<1>4. CASE kind = "category" /\ op = "delete"
  <2>1. Script(kind, op) = <<"remove", "publish">>
    BY <1>4 DEF Script, DeleteCategory
  <2>2. Head(<<"remove", "publish">>) = "remove"
    BY Rest
  <2>3. Script(kind, op) \in Left(kind, op)
    BY <1>4, <2>1, LeftFacts DEF Scoped
  <2> QED BY <1>4, <2>1, <2>2, <2>3 DEF Begins, Blunt, Scoped
<1>5. CASE kind = "item" /\ op = "create"
  <2>1. Script(kind, op) = <<"parent", "insert", "publish">>
    BY <1>5 DEF Script, CreateItem
  <2>2. Head(<<"parent", "insert", "publish">>) = "parent"
    BY Rest
  <2>3. Script(kind, op) \in Left(kind, op)
    BY <1>5, <2>1, LeftFacts DEF Scoped
  <2> QED BY <1>5, <2>1, <2>2, <2>3 DEF Begins, Blunt, Scoped
<1>6. CASE kind = "item" /\ op = "update"
  <2>1. Script(kind, op) = <<"load", "parent", "write", "publish">>
    BY <1>6 DEF Script, UpdateItem
  <2>2. Head(<<"load", "parent", "write", "publish">>) = "load"
    BY Rest
  <2>3. Script(kind, op) \in Left(kind, op)
    BY <1>6, <2>1, LeftFacts DEF Scoped
  <2> QED BY <1>6, <2>1, <2>2, <2>3 DEF Begins, Blunt, Scoped
<1>7. CASE kind = "item" /\ op = "delete"
  <2>1. Script(kind, op) = <<"load", "remove", "publish">>
    BY <1>7 DEF Script, DeleteItem
  <2>2. Head(<<"load", "remove", "publish">>) = "load"
    BY Rest
  <2>3. Script(kind, op) \in Left(kind, op)
    BY <1>7, <2>1, LeftFacts DEF Scoped
  <2> QED BY <1>7, <2>1, <2>2, <2>3 DEF Begins, Blunt, Scoped
<1>8. CASE kind = "variation" /\ op = "create"
  <2>1. Script(kind, op) = <<"parent", "insert", "publish">>
    BY <1>8 DEF Script, CreateVariation
  <2>2. Head(<<"parent", "insert", "publish">>) = "parent"
    BY Rest
  <2>3. Script(kind, op) \in Left(kind, op)
    BY <1>8, <2>1, LeftFacts DEF Scoped
  <2> QED BY <1>8, <2>1, <2>2, <2>3 DEF Begins, Blunt, Scoped
<1>9. CASE kind = "variation" /\ op = "update"
  <2>1. Script(kind, op) = <<"load", "write", "publish">>
    BY <1>9 DEF Script, UpdateVariation
  <2>2. Head(<<"load", "write", "publish">>) = "load"
    BY Rest
  <2>3. Script(kind, op) \in Left(kind, op)
    BY <1>9, <2>1, LeftFacts DEF Scoped
  <2> QED BY <1>9, <2>1, <2>2, <2>3 DEF Begins, Blunt, Scoped
<1>10. CASE kind = "variation" /\ op = "delete"
  <2>1. Script(kind, op) = <<"remove", "publish">>
    BY <1>10 DEF Script, DeleteVariation
  <2>2. Head(<<"remove", "publish">>) = "remove"
    BY Rest
  <2>3. Script(kind, op) \in Left(kind, op)
    BY <1>10, <2>1, LeftFacts DEF Scoped
  <2> QED BY <1>10, <2>1, <2>2, <2>3 DEF Begins, Blunt, Scoped
<1>11. CASE kind = "override" /\ op = "create"
  <2>1. Script(kind, op) = <<"scope", "parent", "upsert", "publish">>
    BY <1>11 DEF Script, SetOverride
  <2>2. Head(<<"scope", "parent", "upsert", "publish">>) = "scope"
    BY Rest
  <2>3. Script(kind, op) \in Left(kind, op)
    BY <1>11, <2>1, LeftFacts DEF Scoped
  <2> QED BY <1>11, <2>1, <2>2, <2>3 DEF Begins, Blunt, Scoped
<1>12. CASE kind = "override" /\ op = "update"
  <2>1. Script(kind, op) = <<"load", "scope", "write", "publish">>
    BY <1>12 DEF Script, UpdateOverride
  <2>2. Head(<<"load", "scope", "write", "publish">>) = "load"
    BY Rest
  <2>3. Script(kind, op) \in Left(kind, op)
    BY <1>12, <2>1, LeftFacts DEF Scoped
  <2> QED BY <1>12, <2>1, <2>2, <2>3 DEF Begins, Blunt, Scoped
<1>13. CASE kind = "override" /\ op = "delete"
  <2>1. Script(kind, op) = <<"load", "scope", "remove", "publish">>
    BY <1>13 DEF Script, DeleteOverride
  <2>2. Head(<<"load", "scope", "remove", "publish">>) = "load"
    BY Rest
  <2>3. Script(kind, op) \in Left(kind, op)
    BY <1>13, <2>1, LeftFacts DEF Scoped
  <2> QED BY <1>13, <2>1, <2>2, <2>3 DEF Begins, Blunt, Scoped
<1>14. CASE kind = "promotion" /\ op = "create"
  <2>1. Script(kind, op) = <<"scope", "insert", "publish">>
    BY <1>14 DEF Script, CreatePromotion
  <2>2. Head(<<"scope", "insert", "publish">>) = "scope"
    BY Rest
  <2>3. Script(kind, op) \in Left(kind, op)
    BY <1>14, <2>1, LeftFacts DEF Scoped
  <2> QED BY <1>14, <2>1, <2>2, <2>3 DEF Begins, Blunt, Scoped
<1>15. CASE kind = "promotion" /\ op = "update"
  <2>1. Script(kind, op) = <<"load", "scope", "write", "publish">>
    BY <1>15 DEF Script, UpdatePromotion
  <2>2. Head(<<"load", "scope", "write", "publish">>) = "load"
    BY Rest
  <2>3. Script(kind, op) \in Left(kind, op)
    BY <1>15, <2>1, LeftFacts DEF Scoped
  <2> QED BY <1>15, <2>1, <2>2, <2>3 DEF Begins, Blunt, Scoped
<1>16. CASE kind = "promotion" /\ op = "delete"
  <2>1. Script(kind, op) = <<"load", "scope", "remove", "publish">>
    BY <1>16 DEF Script, DeletePromotion
  <2>2. Head(<<"load", "scope", "remove", "publish">>) = "load"
    BY Rest
  <2>3. Script(kind, op) \in Left(kind, op)
    BY <1>16, <2>1, LeftFacts DEF Scoped
  <2> QED BY <1>16, <2>1, <2>2, <2>3 DEF Begins, Blunt, Scoped
<1> QED BY <1>1, <1>2, <1>3, <1>4, <1>5, <1>6, <1>7, <1>8, <1>9, <1>10, <1>11, <1>12, <1>13, <1>14, <1>15, <1>16

-----------------------------------------------------------------------------
(* The steps of a request.                                                 *)

\* The step q is at is one of its own script.
LEMMA StageFacts ==
    ASSUME Scripted, req \in [Requests -> Request], NEW q \in Requests
    PROVE  /\ req[q] \in Request /\ req[q].kind \in Kinds /\ req[q].op \in Ops
           /\ req[q].on \in Entities
           /\ outcome[q] = "running" <=> todo[q] # <<>>
           /\ outcome[q] = "running" <=> Stage(q) # "none"
           /\ outcome[q] = "running" =>
                 /\ Stage(q) = Head(todo[q])
                 /\ todo[q] \in Left(req[q].kind, req[q].op)
                 /\ Rests(req[q].kind, req[q].op, todo[q])
           /\ Stage(q) \in {"none", "load", "parent", "scope", "publish"} \cup Writes
           /\ \A step : step # "none" => (At(q, step) <=> Stage(q) = step)
<1>1. req[q] \in Request /\ req[q].kind \in Kinds /\ req[q].op \in Ops /\ req[q].on \in Entities
  BY DEF Request
<1>2. CASE outcome[q] = "running"
  <2>1. todo[q] \in Left(req[q].kind, req[q].op)
    BY <1>2 DEF Scripted
  <2>2. Rests(req[q].kind, req[q].op, todo[q])
    BY <1>1, <2>1, LeftOfAny
  <2>3. todo[q] # <<>> /\ Head(todo[q]) \in {"load", "parent", "scope", "publish"} \cup Writes
    BY <2>2 DEF Rests
  <2>4. Head(todo[q]) # "none"
    BY <2>3 DEF Writes
  <2>5. Stage(q) = Head(todo[q])
    BY <1>2 DEF Stage
  <2> QED BY <1>1, <1>2, <2>1, <2>2, <2>3, <2>4, <2>5 DEF At
<1>3. CASE outcome[q] # "running"
  <2>1. Stage(q) = "none" /\ todo[q] = <<>>
    BY <1>3 DEF Stage, Scripted
  <2> QED BY <1>1, <1>3, <2>1 DEF At
<1> QED BY <1>2, <1>3

\* q takes its step `from` and is then at `to`; the others stay.
Moved(q, from, to) ==
    /\ Stage(q) = from /\ Stage(q)' = to
    /\ todo'[q] # todo[q]
    /\ \A p \in Requests \ {q} : /\ Stage(p)' = Stage(p)
                                 /\ outcome'[p] = outcome[p] /\ todo'[p] = todo[p]

\* A request whose script is rewritten.
LEMMA Rewritten ==
    ASSUME Scripted, req \in [Requests -> Request], NEW q \in Requests,
           req' \in [Requests -> Request],
           \A p \in Requests : req'[p].kind = req[p].kind /\ req'[p].op = req[p].op,
           NEW s, NEW o \in {"running", "ok", "refused", "failed"},
           IF o = "running" THEN s \in Left(req[q].kind, req[q].op) ELSE s = <<>>,
           s # todo[q],
           todo' = [todo EXCEPT ![q] = s],
           outcome' = [outcome EXCEPT ![q] = o]
    PROVE  /\ Scripted'
           /\ Moved(q, Stage(q), IF o = "running" THEN Head(s) ELSE "none")
           /\ outcome'[q] = o
<1>1. s \in Scripts
  BY ScriptsFacts, StageFacts
<1>2. todo' \in [Requests -> Scripts] /\ todo'[q] = s
      /\ \A p \in Requests \ {q} : todo'[p] = todo[p]
  BY <1>1 DEF Scripted
<1>3. outcome' \in [Requests -> {"idle", "running", "ok", "refused", "failed"}] /\ outcome'[q] = o
      /\ \A p \in Requests \ {q} : outcome'[p] = outcome[p]
  BY DEF Scripted
<1>4. ASSUME NEW p \in Requests
      PROVE  IF outcome'[p] = "running" THEN todo'[p] \in Left(req'[p].kind, req'[p].op)
                                        ELSE todo'[p] = <<>>
  <2>1. req'[p].kind = req[p].kind /\ req'[p].op = req[p].op
    OBVIOUS
  <2>2. CASE p = q
    BY <1>2, <1>3, <2>1, <2>2
  <2>3. CASE p # q
    BY <1>2, <1>3, <2>1, <2>3 DEF Scripted
  <2> QED BY <2>2, <2>3
<1>5. Scripted'
  BY <1>2, <1>3, <1>4 DEF Scripted
<1>6. Stage(q)' = IF o = "running" THEN Head(s) ELSE "none"
  BY <1>2, <1>3 DEF Stage
<1>7. \A p \in Requests \ {q} : Stage(p)' = Stage(p)
  BY <1>2, <1>3 DEF Stage
<1>8. todo'[q] # todo[q]
  BY <1>2
<1> QED BY <1>2, <1>3, <1>5, <1>6, <1>7, <1>8 DEF Moved

\* What a step of a handler does to its script.
Goes(q, step, ok) ==
    /\ Moved(q, step, Stage(q)')
    /\ ~ok => Stage(q)' = "none"
    /\ ok /\ step # "publish" => Stage(q)' \notin {"none", "load", step}
    /\ step = "publish" => Stage(q)' = "none"
    /\ ok /\ step \in Writes => Stage(q)' = "publish"
    /\ ok /\ step = "load" /\ req[q].kind \in Scoped => Stage(q)' = "scope"
    /\ Stage(q)' = "publish" => ok
    /\ \A p \in Requests : outcome'[p] = "running" => outcome[p] = "running"

LEMMA Decides ==
    ASSUME Scripted, req \in [Requests -> Request], NEW q \in Requests, NEW step,
           step # "none", At(q, step), NEW ok \in BOOLEAN, Decide(q, ok), req' = req
    PROVE  Scripted' /\ Goes(q, step, ok)
<1>1. /\ outcome[q] = "running" /\ Stage(q) = step /\ Head(todo[q]) = step
      /\ req[q].kind \in Kinds /\ req[q].op \in Ops /\ todo[q] # <<>>
      /\ todo[q] \in Left(req[q].kind, req[q].op)
      /\ Rests(req[q].kind, req[q].op, todo[q])
  BY StageFacts DEF At
<1>2. CASE ~ok
  <2>1. /\ todo' = [todo EXCEPT ![q] = <<>>]
        /\ outcome' = [outcome EXCEPT ![q] = "refused"]
    BY <1>2 DEF Decide
  <2>2. Scripted' /\ Moved(q, Stage(q), "none") /\ outcome'[q] = "refused"
    BY <1>1, <2>1, Rewritten
  <2>3. Stage(q)' = "none"
    BY <2>2 DEF Moved
  <2>4. \A p \in Requests : outcome'[p] = "running" => outcome[p] = "running"
    BY <1>1, <2>2 DEF Moved
  <2> QED BY <1>1, <1>2, <2>2, <2>3, <2>4 DEF Goes
<1>3. CASE ok /\ Len(todo[q]) = 1
  <2>1. Tail(todo[q]) = <<>> /\ step = "publish"
    BY <1>1, <1>3 DEF Rests
  <2>2. /\ todo' = [todo EXCEPT ![q] = <<>>]
        /\ outcome' = [outcome EXCEPT ![q] = "ok"]
    BY <1>3, <2>1 DEF Decide
  <2>3. Scripted' /\ Moved(q, Stage(q), "none") /\ outcome'[q] = "ok"
    BY <1>1, <2>2, Rewritten
  <2>4. Stage(q)' = "none"
    BY <2>3 DEF Moved
  <2>5. \A p \in Requests : outcome'[p] = "running" => outcome[p] = "running"
    BY <1>1, <2>3 DEF Moved
  <2> QED BY <1>1, <2>1, <2>3, <2>4, <2>5 DEF Goes, Writes
<1>4. CASE ok /\ Len(todo[q]) # 1
  <2>1. /\ Tail(todo[q]) \in Left(req[q].kind, req[q].op)
        /\ Head(Tail(todo[q])) \notin {step, "load", "none"}
        /\ step # "publish"
        /\ step \in Writes => Head(Tail(todo[q])) = "publish"
        /\ step = "load" /\ req[q].kind \in Scoped => Head(Tail(todo[q])) = "scope"
    BY <1>1, <1>4 DEF Rests
  <2>2. /\ todo' = [todo EXCEPT ![q] = Tail(todo[q])]
        /\ outcome' = [outcome EXCEPT ![q] = "running"]
    BY <1>1, <1>4 DEF Decide, Scripted
  <2>3. Tail(todo[q]) # todo[q]
    BY <1>1, <2>1
  <2>4. Scripted' /\ Moved(q, Stage(q), Head(Tail(todo[q]))) /\ outcome'[q] = "running"
    BY <1>1, <2>1, <2>2, <2>3, Rewritten
  <2>5. Stage(q)' = Head(Tail(todo[q]))
    BY <2>4 DEF Moved
  <2>6. \A p \in Requests : outcome'[p] = "running" => outcome[p] = "running"
    BY <1>1, <2>4 DEF Moved
  <2>7. Moved(q, step, Stage(q)')
    BY <1>1, <2>4, <2>5
  <2> QED BY <1>4, <2>1, <2>4, <2>5, <2>6, <2>7 DEF Goes
<1> QED BY <1>2, <1>3, <1>4

-----------------------------------------------------------------------------
(* What a step leaves alone.                                               *)

\* The values of the variables, but for the scripts.
Typed ==
    /\ rows \in [Entities -> Row]
    /\ req \in [Requests -> Request]
    /\ loaded \in [Requests -> Row]
    /\ \A k \in Keys : seen[k] \in 0..Len(topic[k])
    /\ DOMAIN cache = Restaurants /\ DOMAIN filling = Restaurants
    /\ \A s \in Restaurants : IsKept(cache[s]) /\ IsKept(filling[s])
    /\ blind \subseteq Restaurants
    /\ faults \in 0..MaxFaults

LEMMA TypesSplit ==
    ASSUME Scripted, req \in [Requests -> Request]
    PROVE  Typed <=> TypeOK
<1>1. \A q \in Requests : (outcome[q] = "running") <=> (todo[q] # <<>>)
  BY StageFacts
<1> QED BY <1>1 DEF TypeOK, Typed, Scripted

\* A fault is counted as long as there is room.
LEMMA FaultsCounted ==
    ASSUME faults \in 0..MaxFaults, Fault
    PROVE  faults' \in 0..MaxFaults
BY CatalogueAssumption DEF Fault

LEMMA AskedStays ==
    ASSUME Asked, req' = req,
           \A p \in Requests : outcome'[p] = "running" => outcome[p] = "running"
    PROVE  Asked'
BY DEF Asked, Actor

LEMMA QueuedStays ==
    ASSUME Queued, status' = status, topic' = topic, dropped' = dropped
    PROVE  Queued'
BY DEF Queued

LEMMA PlacedStays ==
    ASSUME Placed, rows' = rows
    PROVE  Placed'
BY DEF Placed

LEMMA KnownStays ==
    ASSUME Known, rows' = rows, loaded' = loaded, req' = req,
           NEW q \in Requests, NEW from, NEW to, Moved(q, from, to),
           from \in {"none", "load"} => to = "none"
    PROVE  Known'
<1>1. \A p \in Requests : Stage(p)' \notin {"none", "load"} => Stage(p) \notin {"none", "load"}
  BY DEF Moved
<1> QED BY <1>1 DEF Known

\* The same place, the same key and the same rule.
LEMMA SameRule ==
    ASSUME NEW p, loaded'[p] = loaded[p], req'[p].op = req[p].op, req'[p].at = req[p].at,
           req'[p].kind = req[p].kind, req'[p].by = req[p].by
    PROVE  /\ Where(p)' = Where(p) /\ KeyOf(p)' = KeyOf(p)
           /\ ScopeRule(p)' <=> ScopeRule(p)
<1>1. Where(p)' = Where(p)
  BY DEF Where
<1>2. Actor(p)' = Actor(p)
  BY DEF Actor
<1> QED BY <1>1, <1>2 DEF KeyOf, ScopeRule

LEMMA ScopeStays ==
    ASSUME ScopeKept, loaded' = loaded, req' = req,
           NEW q \in Requests, NEW from, NEW to, Moved(q, from, to),
           from \in {"none", "load", "scope"} /\ req[q].kind \in Scoped
              => to \in {"none", "load", "scope"} \/ ScopeRule(q)
    PROVE  ScopeKept'
<1> SUFFICES ASSUME NEW p \in Requests, req[p].kind \in Scoped,
                    Stage(p)' \notin {"none", "load", "scope"}
             PROVE  ScopeRule(p)'
  BY DEF ScopeKept
<1>1. ScopeRule(p)' <=> ScopeRule(p)
  BY SameRule
<1>2. CASE p = q
  <2>1. Stage(p) = from /\ Stage(p)' = to
    BY <1>2 DEF Moved
  <2>2. Stage(p) \notin {"none", "load", "scope"} => ScopeRule(p)
    BY DEF ScopeKept
  <2> QED BY <1>1, <1>2, <2>1, <2>2
<1>3. CASE p # q
  <2>1. Stage(p)' = Stage(p)
    BY <1>3 DEF Moved
  <2> QED BY <1>1, <2>1 DEF ScopeKept
<1> QED BY <1>2, <1>3

\* Who was about to announce a change still is.
Publishers ==
    \A p \in Requests : Stage(p) = "publish" => Stage(p)' = "publish" /\ KeyOf(p)' = KeyOf(p)

LEMMA AnnouncedStays ==
    ASSUME Scripted, Scripted', req \in [Requests -> Request],
           (req \in [Requests -> Request])', Publishers,
           UNCHANGED <<outboxVars, seen>>, blind \subseteq blind',
           NEW s, Announced(s)
    PROVE  Announced(s)'
<1>1. CASE s \in blind
  BY <1>1 DEF Announced
<1>2. ASSUME NEW q \in Requests, At(q, "publish"), s \in Covers(KeyOf(q))
      PROVE  Announced(s)'
  <2>1. Stage(q) = "publish"
    BY <1>2, StageFacts
  <2>2. Stage(q)' = "publish" /\ KeyOf(q)' = KeyOf(q)
    BY <2>1 DEF Publishers
  <2>3. At(q, "publish")'
    BY <2>2 DEF Stage, At
  <2>4. (s \in Covers(KeyOf(q)))'
    BY <1>2, <2>2 DEF Covers
  <2> QED BY <2>3, <2>4 DEF Announced
<1>3. ASSUME NEW c \in Announcements, Pending(c), s \in Covers(c[2])
      PROVE  Announced(s)'
  <2>1. Pending(c)'
    BY <1>3 DEF Pending, Outbox!Delivered, outboxVars
  <2>2. (s \in Covers(c[2]))'
    BY <1>3 DEF Covers
  <2> QED BY <2>1, <2>2 DEF Announced
<1> QED BY <1>1, <1>2, <1>3 DEF Announced

\* A step that changes a menu leaves its announcement to be made.
LEMMA FreshStays ==
    ASSUME Fresh, Scripted, Scripted', req \in [Requests -> Request],
           (req \in [Requests -> Request])', Publishers,
           UNCHANGED <<outboxVars, seen, cache, filling>>, blind \subseteq blind',
           \A s \in Restaurants : Menu(s)' # Menu(s) => Announced(s)'
    PROVE  Fresh'
<1> SUFFICES ASSUME NEW s \in Restaurants
             PROVE  /\ cache[s] \notin {<<>>, <<Menu(s)'>>} => Announced(s)'
                    /\ filling[s] \notin {<<>>, <<Menu(s)'>>} => Announced(s)'
  BY DEF Fresh
<1>1. CASE Menu(s)' # Menu(s)
  BY <1>1
<1>2. CASE Menu(s)' = Menu(s)
  <2>1. Announced(s) => Announced(s)'
    BY AnnouncedStays
  <2> QED BY <1>2, <2>1 DEF Fresh
<1> QED BY <1>1, <1>2

\* A step that only turns to the next query.
LEMMA QuietStep ==
    ASSUME IInv, NEW q \in Requests, NEW step, step \notin {"none", "load", "publish"},
           NEW ok \in BOOLEAN, At(q, step), Decide(q, ok),
           UNCHANGED <<rows, req, loaded, outboxVars, userapiVars, faults>>,
           step = "scope" /\ ok => ScopeRule(q)
    PROVE  IInv' /\ Goes(q, step, ok)
<1>1. Scripted /\ req \in [Requests -> Request]
  BY DEF IInv, TypeOK
<1>2. Scripted' /\ Goes(q, step, ok)
  BY <1>1, Decides
<1>3. Moved(q, step, Stage(q)')
  BY <1>2 DEF Goes
<1>4. Typed'
  <2>1. Typed
    BY <1>1, TypesSplit DEF IInv
  <2> QED BY <2>1 DEF Typed, userapiVars, outboxVars
<1>5. TypeOK'
  <2>1. (Scripted /\ req \in [Requests -> Request])'
    BY <1>2, <1>4 DEF Typed
  <2>2. (Typed <=> TypeOK)'
    BY <2>1, TypesSplit, PTL
  <2> QED BY <1>4, <2>2
<1>6. Asked' /\ Queued' /\ Placed'
  BY <1>2, AskedStays, QueuedStays, PlacedStays DEF IInv, Goes, outboxVars
<1>7. Known'
  BY <1>3, KnownStays DEF IInv
<1>8. ScopeKept'
  <2>1. step = "scope" => Stage(q)' = "none" \/ ScopeRule(q)
    BY <1>2 DEF Goes
  <2> QED BY <1>3, <2>1, ScopeStays DEF IInv
<1>9. Publishers
  <2> SUFFICES ASSUME NEW p \in Requests, Stage(p) = "publish"
               PROVE  Stage(p)' = "publish" /\ KeyOf(p)' = KeyOf(p)
    BY DEF Publishers
  <2>1. p # q
    BY <1>3 DEF Moved
  <2> QED BY <1>3, <2>1, SameRule DEF Moved
<1>10. \A s \in Restaurants : Menu(s)' = Menu(s)
  BY DEF Menu
<1>11. Fresh'
  <2>1. UNCHANGED <<outboxVars, seen, cache, filling>> /\ blind \subseteq blind'
    BY DEF userapiVars
  <2>2. Fresh /\ Scripted'
    BY <1>2 DEF IInv
  <2>3. (req \in [Requests -> Request])'
    BY <1>1
  <2> QED BY <1>1, <1>9, <1>10, <2>1, <2>2, <2>3, FreshStays
<1> QED BY <1>2, <1>5, <1>6, <1>7, <1>8, <1>11 DEF IInv

-----------------------------------------------------------------------------
(* The steps that leave the tables alone.                                  *)

\* The permission that a request needs.
LEMMA Permissions ==
    ASSUME NEW r, r.kind \in Kinds
    PROVE  /\ r.op = "delete" /\ r.kind = "category" => Permission(r) = "menu.category.delete"
           /\ r.op = "delete" /\ r.kind = "item" => Permission(r) = "menu.item.delete"
           /\ r.op = "delete" /\ r.kind = "variation" => Permission(r) = "menu.variation.delete"
           /\ r.op = "delete" /\ r.kind = "override" => Permission(r) = "menu.override.delete"
           /\ r.op = "delete" /\ r.kind = "promotion" => Permission(r) = "menu.promotion.delete"
           /\ r.op # "delete" /\ r.kind = "category" => Permission(r) = "menu.category.write"
           /\ r.op # "delete" /\ r.kind = "item" => Permission(r) = "menu.item.write"
           /\ r.op # "delete" /\ r.kind = "variation" => Permission(r) = "menu.variation.write"
           /\ r.op # "delete" /\ r.kind = "override" => Permission(r) = "menu.override.write"
           /\ r.op # "delete" /\ r.kind = "promotion" => Permission(r) = "menu.promotion.write"
BY DEF Permission, Kinds

\* A handler starts, or refuses to.
LEMMA ArriveStep ==
    ASSUME IInv, NEW q \in Requests, NEW kind \in Kinds, NEW op \in Ops, Arrive(q, kind, op)
    PROVE  /\ IInv' /\ UNCHANGED <<rows, loaded>>
           /\ \A p \in Requests : At(p, "publish") => At(p, "publish")'
<1>1. Scripted /\ req \in [Requests -> Request] /\ rows \in [Entities -> Row]
  BY DEF IInv, TypeOK
<1> DEFINE ok == CheckPermission(Actor(q), Permission(req[q]))
           r == [req[q] EXCEPT !.id = rows[req[q].on].born]
<1>2. outcome[q] = "idle" /\ req[q].kind = kind /\ req[q].op = op
      /\ req' = [req EXCEPT ![q] = r]
  BY DEF Arrive
<1>3. /\ outcome' = [outcome EXCEPT ![q] = IF ok THEN "running" ELSE "refused"]
      /\ todo' = [todo EXCEPT ![q] = IF ok THEN Script(kind, op) ELSE <<>>]
      /\ UNCHANGED <<rows, loaded, outboxVars, userapiVars, faults>>
  BY DEF Arrive
<1>4. r \in Request
  <2>1. rows[req[q].on].born \in Requests \cup {None}
    BY <1>1, StageFacts DEF Row
  <2> QED BY <1>1, <2>1 DEF Request
<1>5. r.kind = req[q].kind /\ r.op = req[q].op /\ r.on = req[q].on /\ r.at = req[q].at
      /\ r.change = req[q].change /\ r.by = req[q].by
  BY <1>1 DEF Request
<1> HIDE DEF r
<1>6. req' \in [Requests -> Request]
  BY <1>1, <1>2, <1>4
<1>7. \A p \in Requests :
         /\ req'[p].kind = req[p].kind /\ req'[p].op = req[p].op /\ req'[p].on = req[p].on
         /\ req'[p].at = req[p].at /\ req'[p].change = req[p].change /\ req'[p].by = req[p].by
  BY <1>1, <1>2, <1>5
<1>8. todo[q] = <<>> /\ Stage(q) = "none"
  BY <1>1, <1>2, StageFacts
<1>9. Begins(kind, op)
  BY ScriptFacts
<1>10. Scripted' /\ outcome'[q] = (IF ok THEN "running" ELSE "refused")
      /\ Stage(q)' = (IF ok THEN Head(Script(kind, op)) ELSE "none")
      /\ \A p \in Requests \ {q} : Stage(p)' = Stage(p) /\ outcome'[p] = outcome[p]
  <2>1. CASE ok
    <3>1. Script(kind, op) \in Left(kind, op) /\ Script(kind, op) # todo[q]
      <4>1. Script(kind, op) \in Left(kind, op)
        BY <1>9 DEF Begins
      <4>2. Script(kind, op) # <<>>
        BY <4>1, LeftOfAny DEF Rests
      <4> QED BY <1>8, <4>1, <4>2
    <3>2. Scripted' /\ Moved(q, Stage(q), Head(Script(kind, op))) /\ outcome'[q] = "running"
      BY <1>1, <1>2, <1>3, <1>6, <1>7, <2>1, <3>1, Rewritten
    <3> QED BY <2>1, <3>2 DEF Moved
  <2>2. CASE ~ok
    <3>1. /\ todo' \in [Requests -> Scripts] /\ todo' = todo
      BY <1>1, <1>3, <1>8, <2>2 DEF Scripted
    <3>2. /\ outcome' \in [Requests -> {"idle", "running", "ok", "refused", "failed"}]
          /\ outcome'[q] = "refused" /\ \A p \in Requests \ {q} : outcome'[p] = outcome[p]
      BY <1>1, <1>3, <2>2 DEF Scripted
    <3>3. \A p \in Requests :
             IF outcome'[p] = "running" THEN todo'[p] \in Left(req'[p].kind, req'[p].op)
                                        ELSE todo'[p] = <<>>
      BY <1>1, <1>7, <1>8, <3>1, <3>2 DEF Scripted
    <3>4. \A p \in Requests \ {q} : Stage(p)' = Stage(p)
      BY <3>1, <3>2 DEF Stage
    <3>5. Stage(q)' = "none"
      BY <3>2 DEF Stage
    <3> QED BY <2>2, <3>1, <3>2, <3>3, <3>4, <3>5 DEF Scripted
  <2> QED BY <2>1, <2>2
<1>11. TypeOK'
  <2>1. Typed
    BY <1>1, TypesSplit DEF IInv
  <2>2. Typed'
    BY <1>3, <1>6, <2>1 DEF Typed, userapiVars, outboxVars
  <2>3. (Scripted /\ req \in [Requests -> Request])'
    BY <1>6, <1>10
  <2>4. (Typed <=> TypeOK)'
    BY <2>3, TypesSplit, PTL
  <2> QED BY <2>2, <2>4
<1>12. Asked'
  <2> SUFFICES ASSUME NEW p \in Requests
               PROVE  /\ req'[p].kind = KindOf[req'[p].on]
                      /\ req'[p].kind # "promotion" /\ req'[p].op = "create" => req'[p].change = "keep"
                      /\ req'[p].kind = "override" => req'[p].change = "keep"
                      /\ req'[p].kind = "override" /\ req'[p].op = "create"
                            => req'[p].at = Place(req'[p].on)
                      /\ outcome'[p] = "running" => CheckPermission(Actor(p)', Permission(req'[p]))
    BY DEF Asked
  <2>1. Actor(p)' = Actor(p) /\ Permission(req'[p]) = Permission(req[p])
    <3>1. Actor(p)' = Actor(p)
      BY <1>7 DEF Actor
    <3>2. req'[p].kind = req[p].kind /\ req'[p].op = req[p].op
      BY <1>7
    <3>3. Permission(req'[p]) = Permission(req[p])
      BY <1>1, <3>2, Permissions, StageFacts DEF Kinds
    <3> QED BY <3>1, <3>3
  <2>2. outcome'[p] = "running" => CheckPermission(Actor(p), Permission(req[p]))
    BY <1>10 DEF IInv, Asked
  <2> QED BY <1>7, <2>1, <2>2 DEF IInv, Asked
<1>13. Queued' /\ Placed'
  BY <1>3, QueuedStays, PlacedStays DEF IInv, outboxVars
<1>14. Known'
  <2> SUFFICES ASSUME NEW p \in Requests
               PROVE  /\ Blunt(req[p].kind, req[p].op) => loaded[p] = NoRow
                      /\ Stage(p)' \notin {"none", "load"} /\ req[p].op # "create"
                            => loaded[p].state = "live" \/ Blunt(req[p].kind, req[p].op)
                      /\ loaded[p].state # "none" =>
                            IF req[p].kind = "override"
                            THEN loaded[p].at = Place(req[p].on) /\ loaded[p].active
                            ELSE rows[req[p].on].state # "none"
                                 /\ loaded[p].at = rows[req[p].on].at
    BY <1>3, <1>7 DEF Known
  <2>1. Stage(q)' \in {"none", "load"} \/ req[q].op = "create" \/ Blunt(req[q].kind, req[q].op)
    BY <1>2, <1>9, <1>10 DEF Begins
  <2> QED BY <1>10, <2>1 DEF IInv, Known
<1>15. ScopeKept'
  <2> SUFFICES ASSUME NEW p \in Requests, req[p].kind \in Scoped,
                      Stage(p)' \notin {"none", "load", "scope"}
               PROVE  ScopeRule(p)'
    BY <1>7 DEF ScopeKept
  <2>1. p # q
    BY <1>2, <1>9, <1>10 DEF Begins
  <2>2. ScopeRule(p)' <=> ScopeRule(p)
    BY <1>3, <1>7, SameRule
  <2> QED BY <1>10, <2>1, <2>2 DEF IInv, ScopeKept
<1>16. Publishers
  <2> SUFFICES ASSUME NEW p \in Requests, Stage(p) = "publish"
               PROVE  Stage(p)' = "publish" /\ KeyOf(p)' = KeyOf(p)
    BY DEF Publishers
  <2>1. p # q
    BY <1>8
  <2>2. KeyOf(p)' = KeyOf(p)
    BY <1>3, <1>7, SameRule
  <2> QED BY <1>10, <2>1, <2>2
<1>17. Fresh'
  <2>1. \A s \in Restaurants : Menu(s)' = Menu(s)
    BY <1>3 DEF Menu
  <2>2. UNCHANGED <<outboxVars, seen, cache, filling>> /\ blind \subseteq blind'
    BY <1>3 DEF userapiVars
  <2>3. Fresh
    BY DEF IInv
  <2> QED BY <1>1, <1>6, <1>10, <1>16, <2>1, <2>2, <2>3, FreshStays
<1>18. \A p \in Requests : At(p, "publish") => At(p, "publish")'
  <2>1. \A p \in Requests : At(p, "publish") => Stage(p) = "publish"
    BY <1>1, StageFacts
  <2>2. \A p \in Requests : Stage(p)' = "publish" => At(p, "publish")'
    BY DEF Stage, At
  <2> QED BY <1>16, <2>1, <2>2 DEF Publishers
<1> QED BY <1>3, <1>10, <1>11, <1>12, <1>13, <1>14, <1>15, <1>17, <1>18 DEF IInv

\* The row that the request names is read.
LEMMA LoadStep ==
    ASSUME IInv, NEW q \in Requests, Load(q)
    PROVE  IInv' /\ UNCHANGED rows
<1>1. Scripted /\ req \in [Requests -> Request] /\ rows \in [Entities -> Row]
  BY DEF IInv, TypeOK
<1>2. Found(q) \in BOOLEAN
  BY DEF Found, Exists
<1>3. /\ At(q, "load") /\ Decide(q, Found(q))
      /\ loaded' = [loaded EXCEPT ![q] = IF Found(q) THEN rows[req[q].on] ELSE @]
      /\ UNCHANGED <<rows, req, outboxVars, userapiVars, faults>>
  BY DEF Load
<1>4. Scripted' /\ Goes(q, "load", Found(q))
  BY <1>1, <1>2, <1>3, Decides
<1>5. Moved(q, "load", Stage(q)')
  BY <1>4 DEF Goes
<1>6. /\ req[q].on \in Entities /\ req[q].op # "create" /\ ~Blunt(req[q].kind, req[q].op)
  <2>1. outcome[q] = "running" /\ Head(todo[q]) = "load"
    BY <1>3 DEF At
  <2> QED BY <1>1, <2>1, StageFacts DEF Rests
<1>7. Typed'
  <2>1. Typed
    BY <1>1, TypesSplit DEF IInv
  <2>2. loaded' \in [Requests -> Row]
    BY <1>1, <1>3, <1>6, <2>1 DEF Typed
  <2> QED BY <1>3, <2>1, <2>2 DEF Typed, userapiVars, outboxVars
<1>8. TypeOK'
  <2>1. (Scripted /\ req \in [Requests -> Request])'
    BY <1>4, <1>7 DEF Typed
  <2>2. (Typed <=> TypeOK)'
    BY <2>1, TypesSplit, PTL
  <2> QED BY <1>7, <2>2
<1>9. Asked' /\ Queued' /\ Placed'
  BY <1>3, <1>4, AskedStays, QueuedStays, PlacedStays DEF IInv, Goes, outboxVars
<1>10. Known'
  <2> SUFFICES ASSUME NEW p \in Requests
               PROVE  /\ Blunt(req[p].kind, req[p].op) => loaded'[p] = NoRow
                      /\ Stage(p)' \notin {"none", "load"} /\ req[p].op # "create"
                            => loaded'[p].state = "live" \/ Blunt(req[p].kind, req[p].op)
                      /\ loaded'[p].state # "none" =>
                            IF req[p].kind = "override"
                            THEN loaded'[p].at = Place(req[p].on) /\ loaded'[p].active
                            ELSE rows[req[p].on].state # "none"
                                 /\ loaded'[p].at = rows[req[p].on].at
    BY <1>3 DEF Known
  <2>1. loaded \in [Requests -> Row]
    BY DEF IInv, TypeOK
  <2>2. CASE p # q
    <3>1. loaded'[p] = loaded[p] /\ Stage(p)' = Stage(p)
      BY <1>3, <1>5, <2>1, <2>2 DEF Moved
    <3> QED BY <3>1 DEF IInv, Known
  <2>3. CASE p = q /\ Found(q)
    <3>1. loaded'[p] = rows[req[p].on] /\ rows[req[p].on].state = "live"
      BY <1>3, <2>1, <2>3 DEF Found, Exists
    <3>2. req[p].kind = "override" =>
             rows[req[p].on].at = Place(req[p].on) /\ rows[req[p].on].active
      <4>1. req[p].kind = KindOf[req[p].on]
        BY DEF IInv, Asked
      <4>2. rows[req[p].on] # NoRow
        BY <3>1 DEF NoRow
      <4> QED BY <1>6, <2>3, <4>1, <4>2 DEF IInv, Placed
    <3> QED BY <1>6, <2>3, <3>1, <3>2
  <2>4. CASE p = q /\ ~Found(q)
    <3>1. loaded'[p] = loaded[p] /\ Stage(p)' = "none"
      BY <1>3, <1>4, <2>1, <2>4 DEF Goes
    <3> QED BY <3>1 DEF IInv, Known
  <2> QED BY <2>2, <2>3, <2>4
<1>11. \A p \in Requests \ {q} : loaded'[p] = loaded[p]
  BY <1>3 DEF IInv, TypeOK
<1>12. ScopeKept'
  <2> SUFFICES ASSUME NEW p \in Requests, req[p].kind \in Scoped,
                      Stage(p)' \notin {"none", "load", "scope"}
               PROVE  ScopeRule(p)'
    BY <1>3 DEF ScopeKept
  <2>1. p # q
    <3>1. req[q].kind \in Scoped => Stage(q)' \in {"none", "scope"}
      BY <1>4 DEF Goes
    <3> QED BY <3>1
  <2>2. ScopeRule(p)' <=> ScopeRule(p)
    BY <1>3, <1>11, <2>1, SameRule
  <2> QED BY <1>5, <2>1, <2>2 DEF IInv, ScopeKept, Moved
<1>13. Publishers
  <2> SUFFICES ASSUME NEW p \in Requests, Stage(p) = "publish"
               PROVE  Stage(p)' = "publish" /\ KeyOf(p)' = KeyOf(p)
    BY DEF Publishers
  <2>1. p # q
    BY <1>5 DEF Moved
  <2>2. KeyOf(p)' = KeyOf(p)
    BY <1>3, <1>11, <2>1, SameRule
  <2> QED BY <1>5, <2>1, <2>2 DEF Moved
<1>14. Fresh'
  <2>1. \A s \in Restaurants : Menu(s)' = Menu(s)
    BY <1>3 DEF Menu
  <2>2. UNCHANGED <<outboxVars, seen, cache, filling>> /\ blind \subseteq blind'
    BY <1>3 DEF userapiVars
  <2>3. Fresh /\ (req \in [Requests -> Request])'
    BY <1>1, <1>3 DEF IInv
  <2> QED BY <1>1, <1>4, <1>13, <2>1, <2>2, <2>3, FreshStays
<1> QED BY <1>3, <1>4, <1>8, <1>9, <1>10, <1>12, <1>14 DEF IInv

LEMMA FindParentStep ==
    ASSUME IInv, NEW q \in Requests, FindParent(q)
    PROVE  IInv' /\ UNCHANGED rows
<1> DEFINE ok == Exists(req[q].of) \/ (req[q].op = "update" /\ req[q].of = loaded[q].of)
<1>1. ok \in BOOLEAN
  BY DEF Exists
<1>2. /\ At(q, "parent") /\ Decide(q, ok)
      /\ UNCHANGED <<rows, req, loaded, outboxVars, userapiVars, faults>>
  BY DEF FindParent
<1> HIDE DEF ok
<1> QED BY <1>1, <1>2, QuietStep

LEMMA CheckScopeStep ==
    ASSUME IInv, NEW q \in Requests, CheckScope(q)
    PROVE  IInv' /\ UNCHANGED rows
<1>1. ScopeRule(q) \in BOOLEAN
  BY DEF ScopeRule, checkPromotionScope, CanAccessRestaurant
<1>2. /\ At(q, "scope") /\ Decide(q, ScopeRule(q))
      /\ UNCHANGED <<rows, req, loaded, outboxVars, userapiVars, faults>>
  BY DEF CheckScope, ScopeRule
<1> QED BY <1>1, <1>2, QuietStep

-----------------------------------------------------------------------------
(* The steps that write a row.                                             *)

\* The row is on the menu of s.
Shown(row, s) == row.state = "live" /\ row.active /\ Reaches(row.at, s)

\* A row that is on a menu neither before nor after changes nothing there.
LEMMA MenuStays ==
    ASSUME NEW e \in Entities, NEW s, \A f \in Entities \ {e} : rows'[f] = rows[f],
           ~Shown(rows[e], s), ~Shown(rows'[e], s)
    PROVE  Menu(s)' = Menu(s)
<1> DEFINE on == {f \in Entities : Shown(rows[f], s)}
           off == {f \in Entities : Shown(rows'[f], s)}
<1>1. Menu(s) = {<<f, rows[f].by>> : f \in on}
  BY DEF Menu, Shown
<1>2. Menu(s)' = {<<f, rows'[f].by>> : f \in off}
  BY DEF Menu, Shown, Reaches
<1>3. on = off /\ \A f \in on : rows'[f] = rows[f]
  OBVIOUS
<1> HIDE DEF on, off
<1>4. {<<f, rows'[f].by>> : f \in on} = {<<f, rows[f].by>> : f \in on}
  BY <1>3
<1> QED BY <1>1, <1>2, <1>3, <1>4

\* A place that a restaurant belongs to is covered by the announcement.
LEMMA ReachIsCovered ==
    ASSUME NEW q, NEW s \in Restaurants, Reaches(Where(q), s)
    PROVE  s \in Covers(KeyOf(q))
<1>1. RegionOf[s] \notin Restaurants /\ None \notin Restaurants
  BY OrganisationAssumption, CatalogueAssumption
<1> QED BY <1>1 DEF Reaches, KeyOf, Covers

\* What a write of q's row does.
Wrote(q) ==
    /\ rows' \in [Entities -> Row]
    /\ \A e \in Entities \ {req[q].on} : rows'[e] = rows[e]
    /\ \A s \in Restaurants :
          Menu(s)' # Menu(s) => Reaches(Where(q), s) \/ Blunt(req[q].kind, req[q].op)
    /\ LET old == rows[req[q].on]
           new == rows'[req[q].on]
       IN /\ old.state = "deleted" => new = old
          /\ old.state = "live" /\ ~old.active /\ new.state = "live" /\ new.active
                => req[q].change = "on" \/ loaded[q].active
          /\ req[q].kind = "override" /\ new # NoRow =>
                new.state = "live" /\ new.active /\ new.at = Place(req[q].on)
          /\ req[q].kind # "override" /\ old.state # "none" =>
                new.state # "none" /\ new.at = old.at

\* The row that q is about, which it writes.
LEMMA RowFacts ==
    ASSUME IInv, NEW q \in Requests, Stage(q) \in Writes
    PROVE  /\ req[q] \in Request /\ req[q].on \in Entities /\ req[q].kind = KindOf[req[q].on]
           /\ rows[req[q].on] \in Row /\ rows \in [Entities -> Row]
           /\ loaded[q] \in Row /\ loaded \in [Requests -> Row]
           /\ req[q].kind = "override" /\ rows[req[q].on] # NoRow =>
                 /\ rows[req[q].on].state = "live" /\ rows[req[q].on].active
                 /\ rows[req[q].on].at = Place(req[q].on)
           /\ Stage(q) = "insert" => req[q].op = "create" /\ req[q].kind # "override"
           /\ Stage(q) = "upsert" => /\ req[q].op = "create" /\ req[q].kind = "override"
                                     /\ req[q].at = Place(req[q].on)
                                     /\ req[q].change = "keep"
           /\ Stage(q) = "write" => req[q].op = "update" /\ loaded[q].state = "live"
           /\ Stage(q) = "remove" => /\ req[q].op = "delete"
                                     /\ loaded[q].state = "live" \/ Blunt(req[q].kind, req[q].op)
           /\ Stage(q) = "write" => (req[q].kind = "override" => req[q].change = "keep")
           /\ loaded[q].state = "live" /\ rows[req[q].on].state = "live"
                 => loaded[q].at = rows[req[q].on].at
           /\ loaded[q].state = "live" /\ req[q].kind = "override" => loaded[q].active
<1>1. Scripted /\ req \in [Requests -> Request] /\ rows \in [Entities -> Row]
      /\ loaded \in [Requests -> Row]
  BY DEF IInv, TypeOK
<1>2. /\ req[q] \in Request /\ req[q].on \in Entities /\ req[q].kind = KindOf[req[q].on]
      /\ rows[req[q].on] \in Row /\ loaded[q] \in Row
  BY <1>1, StageFacts DEF IInv, Asked
<1>3. outcome[q] = "running" /\ Stage(q) = Head(todo[q]) /\ Rests(req[q].kind, req[q].op, todo[q])
  <2>1. Stage(q) # "none"
    BY DEF Writes
  <2> QED BY <1>1, <2>1, StageFacts
<1>4. /\ Stage(q) = "insert" => req[q].op = "create" /\ req[q].kind # "override"
      /\ Stage(q) = "upsert" => req[q].op = "create" /\ req[q].kind = "override"
      /\ Stage(q) = "write" => req[q].op = "update"
      /\ Stage(q) = "remove" => req[q].op = "delete"
  BY <1>3 DEF Rests
<1>5. /\ req[q].kind = "override" => req[q].change = "keep"
      /\ req[q].kind = "override" /\ req[q].op = "create" => req[q].at = Place(req[q].on)
  BY DEF IInv, Asked
<1>6. req[q].op # "create" => loaded[q].state = "live" \/ Blunt(req[q].kind, req[q].op)
  BY DEF IInv, Known, Writes
<1>7. req[q].op = "update" => ~Blunt(req[q].kind, req[q].op)
  BY DEF Blunt
<1>8. req[q].kind = "override" /\ rows[req[q].on] # NoRow =>
         /\ rows[req[q].on].state = "live" /\ rows[req[q].on].active
         /\ rows[req[q].on].at = Place(req[q].on)
  BY <1>2 DEF IInv, Placed
<1>9. loaded[q].state # "none" =>
         IF req[q].kind = "override"
         THEN loaded[q].at = Place(req[q].on) /\ loaded[q].active
         ELSE rows[req[q].on].state # "none" /\ loaded[q].at = rows[req[q].on].at
  BY DEF IInv, Known
<1>10. rows[req[q].on].state = "live" => rows[req[q].on] # NoRow
  BY DEF NoRow
<1>11. loaded[q].state = "live" /\ rows[req[q].on].state = "live"
          => loaded[q].at = rows[req[q].on].at
  BY <1>8, <1>9, <1>10
<1>12. loaded[q].state = "live" /\ req[q].kind = "override" => loaded[q].active
  BY <1>9
<1> QED BY <1>12,  <1>1, <1>2, <1>4, <1>5, <1>6, <1>7, <1>8, <1>11

\* Nothing is written.
LEMMA NothingWritten ==
    ASSUME IInv, NEW q \in Requests, Stage(q) \in Writes, rows' = rows
    PROVE  Wrote(q)
<1>1. \A s \in Restaurants : Menu(s)' = Menu(s)
  BY DEF Menu
<1> QED BY <1>1, RowFacts DEF Wrote

\* A row is written, on the menus of q's place only.
LEMMA RowWritten ==
    ASSUME IInv, NEW q \in Requests, Stage(q) \in Writes, NEW row \in Row,
           rows' = [rows EXCEPT ![req[q].on] = row],
           \A s \in Restaurants : Shown(rows[req[q].on], s) \/ Shown(row, s)
              => Reaches(Where(q), s) \/ Blunt(req[q].kind, req[q].op),
           rows[req[q].on].state # "deleted",
           rows[req[q].on].state = "live" /\ ~rows[req[q].on].active
              /\ row.state = "live" /\ row.active
                => req[q].change = "on" \/ loaded[q].active,
           req[q].kind = "override" /\ row # NoRow =>
              row.state = "live" /\ row.active /\ row.at = Place(req[q].on),
           req[q].kind # "override" /\ rows[req[q].on].state # "none" =>
              row.state # "none" /\ row.at = rows[req[q].on].at
    PROVE  Wrote(q)
<1>1. rows' \in [Entities -> Row] /\ rows'[req[q].on] = row
      /\ \A e \in Entities \ {req[q].on} : rows'[e] = rows[e]
  BY RowFacts
<1>2. ASSUME NEW s \in Restaurants, Menu(s)' # Menu(s)
      PROVE  Reaches(Where(q), s) \/ Blunt(req[q].kind, req[q].op)
  <2>1. Shown(rows[req[q].on], s) \/ Shown(row, s)
    BY <1>1, <1>2, RowFacts, MenuStays
  <2> QED BY <2>1
<1> QED BY <1>1, <1>2 DEF Wrote

LEMMA NewRowFacts ==
    ASSUME NEW q \in Requests, req[q] \in Request, NEW born \in Requests \cup {None}
    PROVE  /\ NewRow(q, born) \in Row
           /\ NewRow(q, born).state = "live"
           /\ NewRow(q, born).active = (req[q].change # "off")
           /\ NewRow(q, born).at = req[q].at
           /\ NewRow(q, born) # NoRow
BY DEF NewRow, Row, Request, NoRow

LEMMA InsertWrites ==
    ASSUME IInv, NEW q \in Requests, Insert(q), Stage(q) = "insert"
    PROVE  Wrote(q)
<1>1. Stage(q) \in Writes
  BY DEF Writes
<1>2. CASE rows[req[q].on].state = "none"
  <2>1. rows' = [rows EXCEPT ![req[q].on] = NewRow(q, q)]
    BY <1>2 DEF Insert
  <2>2. /\ NewRow(q, q) \in Row /\ NewRow(q, q).at = req[q].at
    BY <1>1, RowFacts, NewRowFacts
  <2>3. Where(q) = req[q].at
    BY <1>1, RowFacts DEF Where
  <2>4. \A s \in Restaurants : Shown(rows[req[q].on], s) \/ Shown(NewRow(q, q), s)
           => Reaches(Where(q), s)
    BY <1>2, <2>2, <2>3 DEF Shown
  <2>5. req[q].kind # "override"
    BY <1>1, RowFacts
  <2> QED BY <1>1, <1>2, <2>1, <2>2, <2>4, <2>5, RowWritten
<1>3. CASE rows[req[q].on].state # "none"
  BY <1>1, <1>3, NothingWritten DEF Insert
<1> QED BY <1>2, <1>3

LEMMA UpsertWrites ==
    ASSUME IInv, NEW q \in Requests, Upsert(q), Stage(q) = "upsert"
    PROVE  Wrote(q)
<1>1. Stage(q) \in Writes
  BY DEF Writes
<1> DEFINE e == req[q].on
           born == IF Exists(e) THEN rows[e].born ELSE q
<1>2. e \in Entities /\ rows[e] \in Row /\ rows \in [Entities -> Row] /\ req[q] \in Request
      /\ req[q].kind = "override" /\ req[q].op = "create" /\ req[q].at = Place(e)
      /\ req[q].change = "keep"
      /\ (rows[e] # NoRow => rows[e].state = "live" /\ rows[e].active /\ rows[e].at = Place(e))
  BY <1>1, RowFacts
<1>3. rows' = [rows EXCEPT ![e] = NewRow(q, born)]
  BY <1>2 DEF Upsert
<1>4. born \in Requests \cup {None}
  BY <1>2 DEF Row
<1> HIDE DEF e, born
<1>5. NewRow(q, born) \in Row /\ NewRow(q, born).state = "live" /\ NewRow(q, born).active
      /\ NewRow(q, born).at = Place(e)
  BY <1>2, <1>4, NewRowFacts
<1>6. Where(q) = Place(e)
  BY <1>2 DEF Where
<1>7. \A s \in Restaurants : Shown(rows[e], s) \/ Shown(NewRow(q, born), s)
         => Reaches(Where(q), s)
  BY <1>2, <1>5, <1>6 DEF Shown, NoRow
<1>8. rows[e].state # "deleted" /\ (rows[e].state = "live" => rows[e].active)
  BY <1>2 DEF NoRow
<1> QED BY <1>1, <1>2, <1>3, <1>5, <1>7, <1>8, RowWritten DEF e

LEMMA WriteWrites ==
    ASSUME IInv, NEW q \in Requests, Write(q), Stage(q) = "write"
    PROVE  Wrote(q)
<1>1. Stage(q) \in Writes
  BY DEF Writes
<1> DEFINE e == req[q].on
           row == [rows[e] EXCEPT !.active = NewActive(q), !.of = NewParent(q), !.by = q]
<1>2. e \in Entities /\ rows[e] \in Row /\ rows \in [Entities -> Row] /\ req[q] \in Request
      /\ loaded[q] \in Row /\ loaded[q].state = "live" /\ req[q].op = "update"
      /\ (req[q].kind = "override" => req[q].change = "keep")
  BY <1>1, RowFacts
<1>3. CASE ~Writable(q)
  BY <1>1, <1>3, NothingWritten DEF Write
<1>4. CASE Writable(q)
  <2>1. rows[e].state = "live"
    BY <1>4 DEF Writable, Found, Exists
  <2>2. loaded[q].at = rows[e].at
    BY <1>1, <1>2, <2>1, RowFacts
  <2>3. rows' = [rows EXCEPT ![e] = row]
    BY <1>2, <1>4 DEF Write
  <2>4. NewActive(q) \in BOOLEAN /\ (NewActive(q) => req[q].change = "on" \/ loaded[q].active)
    BY <1>2 DEF NewActive, Row
  <2>5. NewParent(q) \in Entities \cup {None}
    BY <1>2 DEF NewParent, Row, Request
  <2>6. row \in Row
    BY <1>2, <2>4, <2>5 DEF Row
  <2>7. row.state = rows[e].state /\ row.at = rows[e].at /\ row.active = NewActive(q)
    BY <1>2 DEF Row
  <2>8. Where(q) = rows[e].at
    BY <1>2, <2>2 DEF Where
  <2>9. req[q].kind = "override" =>
           rows[e].at = Place(e) /\ rows[e].active /\ NewActive(q)
    <3>1. rows[e] # NoRow
      BY <2>1 DEF NoRow
    <3>2. req[q].kind = "override" => rows[e].at = Place(e) /\ rows[e].active /\ loaded[q].active
      BY <1>1, <1>2, <3>1, RowFacts
    <3>3. req[q].change = "keep" => NewActive(q) = loaded[q].active
      BY DEF NewActive
    <3> QED BY <1>2, <3>2, <3>3
  <2> HIDE DEF row, e
  <2>10. \A s \in Restaurants : Shown(rows[e], s) \/ Shown(row, s) => Reaches(Where(q), s)
    BY <2>7, <2>8 DEF Shown
  <2> QED BY <1>1, <1>2, <2>1, <2>3, <2>4, <2>6, <2>7, <2>9, <2>10, RowWritten DEF e
<1> QED BY <1>3, <1>4

LEMMA RemoveWrites ==
    ASSUME IInv, NEW q \in Requests, Remove(q), Stage(q) = "remove"
    PROVE  Wrote(q)
<1>1. Stage(q) \in Writes
  BY DEF Writes
<1> DEFINE e == req[q].on
           row == Removed(rows[e], req[q].kind)
           ok == Found(q) /\ (req[q].kind = "variation" => rows[e].active)
<1>2. e \in Entities /\ rows[e] \in Row /\ rows \in [Entities -> Row] /\ req[q] \in Request
      /\ loaded[q] \in Row /\ req[q].op = "delete"
      /\ (loaded[q].state = "live" \/ Blunt(req[q].kind, req[q].op))
  BY <1>1, RowFacts
<1>3. CASE ~ok
  <2>1. rows' = rows
    BY <1>3 DEF Remove
  <2> QED BY <1>1, <2>1, NothingWritten
<1>4. CASE ok
  <2>1. rows[e].state = "live"
    BY <1>4 DEF Found, Exists
  <2>2. loaded[q].state = "live" => loaded[q].at = rows[e].at
    BY <1>1, <1>2, <2>1, RowFacts
  <2>3. rows' = [rows EXCEPT ![e] = row]
    BY <1>2, <1>4 DEF Remove
  <2>4. NoRow \in Row /\ NoRow.state = "none" /\ ~NoRow.active
    BY DEF NoRow, Row
  <2>5. /\ row \in Row
        /\ row.state = "live" => ~row.active
        /\ req[q].kind = "override" => row = NoRow
        /\ req[q].kind # "override" => row.state # "none" /\ row.at = rows[e].at
    <3>1. CASE req[q].kind = "override"
      BY <2>4, <3>1 DEF Removed
    <3>2. CASE req[q].kind = "variation"
      <4>1. row = [rows[e] EXCEPT !.active = FALSE]
        BY <3>2 DEF Removed
      <4> HIDE DEF row
      <4> QED BY <1>2, <2>1, <3>2, <4>1 DEF Row
    <3>3. CASE req[q].kind \notin {"override", "variation"}
      <4>1. row = [rows[e] EXCEPT !.state = "deleted", !.active = FALSE]
        BY <3>3 DEF Removed
      <4> HIDE DEF row
      <4> QED BY <1>2, <2>1, <3>3, <4>1 DEF Row
    <3> QED BY <3>1, <3>2, <3>3
  <2>6. Blunt(req[q].kind, req[q].op) \/ Where(q) = rows[e].at
    BY <1>2, <2>2 DEF Where
  <2> HIDE DEF row, e
  <2>7. \A s \in Restaurants : Shown(rows[e], s) \/ Shown(row, s)
           => Reaches(Where(q), s) \/ Blunt(req[q].kind, req[q].op)
    BY <2>5, <2>6 DEF Shown
  <2> QED BY <1>1, <1>2, <2>1, <2>3, <2>5, <2>7, RowWritten DEF e
<1> QED BY <1>3, <1>4

\* A handler that writes has its change to announce.
LEMMA WriteStep ==
    ASSUME IInv, NEW q \in Requests, NEW step \in Writes, At(q, step), NEW ok \in BOOLEAN,
           Decide(q, ok), Wrote(q), ok \/ rows' = rows,
           UNCHANGED <<req, loaded, outboxVars, userapiVars, faults>>
    PROVE  IInv'
<1>1. Scripted /\ req \in [Requests -> Request] /\ step \notin {"none", "load", "publish", "scope"}
  BY DEF IInv, TypeOK, Writes
<1>2. Scripted' /\ Goes(q, step, ok)
  BY <1>1, Decides
<1>3. Moved(q, step, Stage(q)') /\ Stage(q) = step
  BY <1>2 DEF Goes, Moved
<1>4. Typed'
  <2>1. Typed
    BY <1>1, TypesSplit DEF IInv
  <2> QED BY <2>1 DEF Typed, userapiVars, outboxVars, Wrote
<1>5. TypeOK'
  <2>1. (Scripted /\ req \in [Requests -> Request])'
    BY <1>2, <1>4 DEF Typed
  <2>2. (Typed <=> TypeOK)'
    BY <2>1, TypesSplit, PTL
  <2> QED BY <1>4, <2>2
<1>6. Asked' /\ Queued'
  BY <1>2, AskedStays, QueuedStays DEF IInv, Goes, outboxVars
<1>7. req[q].on \in Entities /\ req[q].kind = KindOf[req[q].on]
  BY <1>3, RowFacts
<1>8. Placed'
  <2> SUFFICES ASSUME NEW e \in Entities, KindOf[e] = "override", rows'[e] # NoRow
               PROVE  rows'[e].state = "live" /\ rows'[e].active /\ rows'[e].at = Place(e)
    BY DEF Placed
  <2>1. CASE e = req[q].on
    BY <1>7, <2>1 DEF Wrote
  <2>2. CASE e # req[q].on
    BY <2>2 DEF Wrote, IInv, Placed
  <2> QED BY <2>1, <2>2
<1>9. Known'
  <2> SUFFICES ASSUME NEW p \in Requests
               PROVE  /\ Blunt(req[p].kind, req[p].op) => loaded[p] = NoRow
                      /\ Stage(p)' \notin {"none", "load"} /\ req[p].op # "create"
                            => loaded[p].state = "live" \/ Blunt(req[p].kind, req[p].op)
                      /\ loaded[p].state # "none" =>
                            IF req[p].kind = "override"
                            THEN loaded[p].at = Place(req[p].on) /\ loaded[p].active
                            ELSE rows'[req[p].on].state # "none"
                                 /\ loaded[p].at = rows'[req[p].on].at
    BY DEF Known
  <2>1. Stage(p)' \notin {"none", "load"} => Stage(p) \notin {"none", "load"}
    BY <1>1, <1>3 DEF Moved
  <2>2. /\ Blunt(req[p].kind, req[p].op) => loaded[p] = NoRow
        /\ Stage(p) \notin {"none", "load"} /\ req[p].op # "create"
              => loaded[p].state = "live" \/ Blunt(req[p].kind, req[p].op)
        /\ loaded[p].state # "none" =>
              IF req[p].kind = "override"
              THEN loaded[p].at = Place(req[p].on) /\ loaded[p].active
              ELSE rows[req[p].on].state # "none" /\ loaded[p].at = rows[req[p].on].at
    BY DEF IInv, Known
  <2>3. req[p].on \in Entities /\ req[p].kind = KindOf[req[p].on]
    BY <1>1, StageFacts DEF IInv, Asked
  <2>4. req[p].kind # "override" /\ rows[req[p].on].state # "none" =>
           rows'[req[p].on].state # "none" /\ rows'[req[p].on].at = rows[req[p].on].at
    <3>1. CASE req[p].on = req[q].on
      <4>1. req[p].kind = req[q].kind
        BY <1>7, <2>3, <3>1
      <4> QED BY <3>1, <4>1 DEF Wrote
    <3>2. CASE req[p].on # req[q].on
      BY <2>3, <3>2 DEF Wrote
    <3> QED BY <3>1, <3>2
  <2> QED BY <2>1, <2>2, <2>4
<1>10. ScopeKept'
  BY <1>1, <1>3, ScopeStays DEF IInv
<1>11. Publishers
  <2> SUFFICES ASSUME NEW p \in Requests, Stage(p) = "publish"
               PROVE  Stage(p)' = "publish" /\ KeyOf(p)' = KeyOf(p)
    BY DEF Publishers
  <2>1. p # q
    BY <1>1, <1>3
  <2> QED BY <1>3, <2>1, SameRule DEF Moved
<1>12. ASSUME NEW s \in Restaurants, Menu(s)' # Menu(s) PROVE Announced(s)'
  <2>1. ok
    <3>1. rows' = rows => Menu(s)' = Menu(s)
      BY DEF Menu
    <3> QED BY <1>12, <3>1
  <2>2. Stage(q)' = "publish"
    BY <1>2, <2>1 DEF Goes
  <2>3. At(q, "publish")'
    BY <2>2 DEF Stage, At
  <2>4. s \in Covers(KeyOf(q))
    <3>1. CASE Reaches(Where(q), s)
      BY <3>1, ReachIsCovered
    <3>2. CASE Blunt(req[q].kind, req[q].op)
      <4>1. loaded[q] = NoRow /\ req[q].op # "create"
        BY <3>2 DEF IInv, Known, Blunt
      <4>2. Where(q) = None
        BY <4>1 DEF Where, NoRow
      <4>3. KeyOf(q) = None
        BY <4>2 DEF KeyOf
      <4> QED BY <4>3 DEF Covers
    <3> QED BY <1>12, <3>1, <3>2 DEF Wrote
  <2>5. KeyOf(q)' = KeyOf(q)
    BY SameRule
  <2>6. (s \in Covers(KeyOf(q)))'
    BY <2>4, <2>5 DEF Covers
  <2> QED BY <2>3, <2>6 DEF Announced
<1>13. Fresh'
  <2>1. UNCHANGED <<outboxVars, seen, cache, filling>> /\ blind \subseteq blind'
    BY DEF userapiVars
  <2>2. Fresh /\ (req \in [Requests -> Request])'
    BY <1>1 DEF IInv
  <2> QED BY <1>1, <1>2, <1>11, <1>12, <2>1, <2>2, FreshStays
<1> QED BY <1>2, <1>5, <1>6, <1>8, <1>9, <1>10, <1>13 DEF IInv

\* The four of them.
LEMMA RowSteps ==
    ASSUME IInv, NEW q \in Requests, Insert(q) \/ Upsert(q) \/ Write(q) \/ Remove(q)
    PROVE  IInv' /\ Wrote(q)
<1>1. Scripted /\ req \in [Requests -> Request]
  BY DEF IInv, TypeOK
<1>2. CASE Insert(q)
  <2> DEFINE ok == rows[req[q].on].state = "none"
  <2>1. /\ At(q, "insert") /\ Decide(q, ok) /\ (ok \/ rows' = rows)
        /\ UNCHANGED <<req, loaded, outboxVars, userapiVars, faults>>
    BY <1>2 DEF Insert
  <2>2. Stage(q) = "insert"
    BY <1>1, <2>1, StageFacts
  <2>3. Wrote(q)
    BY <1>2, <2>2, InsertWrites
  <2>4. "insert" \in Writes /\ ok \in BOOLEAN
    BY DEF Writes
  <2> HIDE DEF ok
  <2> QED BY <2>1, <2>3, <2>4, WriteStep
<1>3. CASE Upsert(q)
  <2>1. /\ At(q, "upsert") /\ Decide(q, TRUE)
        /\ UNCHANGED <<req, loaded, outboxVars, userapiVars, faults>>
    BY <1>3 DEF Upsert
  <2>2. Stage(q) = "upsert"
    BY <1>1, <2>1, StageFacts
  <2>3. Wrote(q)
    BY <1>3, <2>2, UpsertWrites
  <2>4. "upsert" \in Writes
    BY DEF Writes
  <2> QED BY <2>1, <2>3, <2>4, WriteStep
<1>4. CASE Write(q)
  <2> DEFINE ok == Writable(q)
  <2>1. /\ At(q, "write") /\ Decide(q, ok) /\ (ok \/ rows' = rows)
        /\ UNCHANGED <<req, loaded, outboxVars, userapiVars, faults>>
    BY <1>4 DEF Write
  <2>2. Stage(q) = "write"
    BY <1>1, <2>1, StageFacts
  <2>3. Wrote(q)
    BY <1>4, <2>2, WriteWrites
  <2>4. "write" \in Writes /\ ok \in BOOLEAN
    BY DEF Writes, Writable, Found, Exists
  <2> HIDE DEF ok
  <2> QED BY <2>1, <2>3, <2>4, WriteStep
<1>5. CASE Remove(q)
  <2> DEFINE ok == Found(q) /\ (req[q].kind = "variation" => rows[req[q].on].active)
  <2>1. /\ At(q, "remove") /\ Decide(q, ok) /\ (ok \/ rows' = rows)
        /\ UNCHANGED <<req, loaded, outboxVars, userapiVars, faults>>
    BY <1>5 DEF Remove
  <2>2. Stage(q) = "remove"
    BY <1>1, <2>1, StageFacts
  <2>3. Wrote(q)
    BY <1>5, <2>2, RemoveWrites
  <2>4. "remove" \in Writes /\ ok \in BOOLEAN
    BY DEF Writes, Found, Exists
  <2> HIDE DEF ok
  <2> QED BY <2>1, <2>3, <2>4, WriteStep
<1> QED BY <1>2, <1>3, <1>4, <1>5

-----------------------------------------------------------------------------
(* The announcement.                                                       *)

LEMMA FaultFacts ==
    ASSUME faults \in 0..MaxFaults, Fault
    PROVE  faults' \in 0..MaxFaults
BY CatalogueAssumption DEF Fault

\* A handler whose last step is over, with its error or without.
LEMMA Ended ==
    ASSUME IInv, NEW q \in Requests, NEW from, Scripted', Moved(q, from, "none"),
           \A p \in Requests : outcome'[p] = "running" => outcome[p] = "running",
           UNCHANGED <<rows, req, loaded>>
    PROVE  Asked' /\ Placed' /\ Known' /\ ScopeKept'
<1>1. Asked' /\ Placed'
  BY AskedStays, PlacedStays DEF IInv
<1>2. Known' /\ ScopeKept'
  BY KnownStays, ScopeStays DEF IInv
<1> QED BY <1>1, <1>2

LEMMA GivesUpStep ==
    ASSUME IInv, NEW q \in Requests, GivesUp(q)
    PROVE  IInv' /\ UNCHANGED rows
<1>1. Scripted /\ req \in [Requests -> Request] /\ faults \in 0..MaxFaults
  BY DEF IInv, TypeOK
<1>2. /\ outcome[q] = "running" /\ faults' \in 0..MaxFaults
      /\ outcome' = [outcome EXCEPT ![q] = "failed"]
      /\ todo' = [todo EXCEPT ![q] = <<>>]
      /\ blind' = IF At(q, "publish") THEN Restaurants ELSE blind
      /\ UNCHANGED <<rows, req, loaded, outboxVars, seen, cache, filling>>
  BY <1>1, FaultFacts DEF GivesUp
<1>3. todo[q] # <<>> /\ Stage(q) # "none"
  BY <1>1, <1>2, StageFacts
<1>4. Scripted' /\ Moved(q, Stage(q), "none") /\ outcome'[q] = "failed"
  BY <1>1, <1>2, <1>3, Rewritten
<1>5. \A p \in Requests : outcome'[p] = "running" => outcome[p] = "running"
  BY <1>2, <1>4 DEF Moved
<1>6. Asked' /\ Placed' /\ Known' /\ ScopeKept'
  BY <1>2, <1>4, <1>5, Ended
<1>7. Queued'
  BY <1>2, QueuedStays DEF IInv, outboxVars
<1>8. blind \subseteq blind' /\ blind' \subseteq Restaurants
  BY <1>2 DEF IInv, TypeOK
<1>9. Typed'
  <2>1. Typed
    BY <1>1, TypesSplit DEF IInv
  <2> QED BY <1>2, <1>8, <2>1 DEF Typed, outboxVars
<1>10. TypeOK'
  <2>1. (Scripted /\ req \in [Requests -> Request])'
    BY <1>4, <1>9 DEF Typed
  <2>2. (Typed <=> TypeOK)'
    BY <2>1, TypesSplit, PTL
  <2> QED BY <1>9, <2>2
<1>11. Fresh'
  <2>1. CASE Stage(q) = "publish"
    <3>1. blind' = Restaurants
      BY <1>1, <1>2, <2>1, StageFacts
    <3>2. \A s \in Restaurants : Announced(s)'
      BY <3>1 DEF Announced
    <3> QED BY <3>2 DEF Fresh
  <2>2. CASE Stage(q) # "publish"
    <3>1. Publishers
      <4> SUFFICES ASSUME NEW p \in Requests, Stage(p) = "publish"
                   PROVE  Stage(p)' = "publish" /\ KeyOf(p)' = KeyOf(p)
        BY DEF Publishers
      <4>1. Stage(p)' = "publish"
        BY <1>4, <2>2 DEF Moved
      <4>2. KeyOf(p)' = KeyOf(p)
        BY <1>2, SameRule
      <4> QED BY <4>1, <4>2
    <3>2. \A s \in Restaurants : Menu(s)' = Menu(s)
      BY <1>2 DEF Menu
    <3>3. Fresh /\ (req \in [Requests -> Request])' /\ UNCHANGED <<outboxVars, seen, cache, filling>>
      BY <1>1, <1>2 DEF IInv
    <3> QED BY <1>1, <1>4, <1>8, <3>1, <3>2, <3>3, FreshStays
  <2> QED BY <2>1, <2>2
<1> QED BY <1>2, <1>4, <1>6, <1>7, <1>10, <1>11 DEF IInv

LEMMA KeyFacts ==
    ASSUME NEW q \in Requests
    PROVE  KeyOf(q) \in Keys /\ <<q, KeyOf(q)>> \in Announcements
BY DEF KeyOf, Keys, Announcements

\* What kfc-userapi has consumed of a topic.
LEMMA Consumed ==
    ASSUME NEW S, NEW t \in Seq(S), NEW n \in 0..Len(t), NEW c
    PROVE  c \in Range(SubSeq(t, 1, n)) <=> \E i \in 1..n : t[i] = c
<1> DEFINE u == SubSeq(t, 1, n)
<1>1. /\ DOMAIN u = 1..n /\ \A i \in 1..n : u[i] = t[i]
  <2>1. n \in Nat /\ 1 \in 1..Len(t) + 1 /\ n \in 1 - 1 .. Len(t)
    BY LenProperties
  <2>2. /\ Len(u) = IF 1 <= n THEN n - 1 + 1 ELSE 0
        /\ u \in Seq(S)
        /\ \A i \in 1..(n - 1 + 1) : u[i] = t[1 + i - 1]
    BY <2>1, SubSeqProperties
  <2>3. Len(u) = n
    BY <2>1, <2>2
  <2>4. DOMAIN u = 1..n
    BY <2>2, <2>3, LenProperties
  <2>5. \A i \in 1..n : u[i] = t[i]
    BY <2>1, <2>2
  <2> QED BY <2>4, <2>5
<1> HIDE DEF u
<1>2. c \in Range(u) <=> \E i \in 1..n : u[i] = c
  BY <1>1 DEF Range
<1> QED BY <1>1, <1>2 DEF u

\* The change is announced, or the announcement is lost and the loss logged.
LEMMA PublishStep ==
    ASSUME IInv, NEW q \in Requests, Publish(q)
    PROVE  IInv' /\ UNCHANGED rows
<1>1. Scripted /\ req \in [Requests -> Request] /\ faults \in 0..MaxFaults /\ Typed
  BY TypesSplit DEF IInv, TypeOK
<1>2. /\ At(q, "publish") /\ Decide(q, TRUE)
      /\ UNCHANGED <<rows, req, loaded, seen, cache, filling>>
  BY DEF Publish
<1>3. Scripted' /\ Goes(q, "publish", TRUE)
  BY <1>1, <1>2, Decides
<1>4. Moved(q, "publish", "none")
  BY <1>3 DEF Goes
<1>5. Asked' /\ Placed' /\ Known' /\ ScopeKept'
  BY <1>2, <1>3, <1>4, Ended DEF Goes
<1>6. PICK c \in Announcements : c = <<q, KeyOf(q)>> /\ c[2] = KeyOf(q)
  BY KeyFacts
<1>7. \/ /\ status[c] = "absent" /\ status' = [status EXCEPT ![c] = "accepted"]
         /\ UNCHANGED <<topic, dropped, blind, faults>>
      \/ /\ faults' \in 0..MaxFaults
         /\ blind' = blind \cup Covers(KeyOf(q)) /\ UNCHANGED <<status, topic, dropped>>
  <2>1. CASE Outbox!Accept(<<q, KeyOf(q)>>) /\ UNCHANGED <<blind, faults>>
    BY <1>6, <2>1 DEF Outbox!Accept
  <2>2. CASE Fault /\ blind' = blind \cup Covers(KeyOf(q)) /\ UNCHANGED outboxVars
    BY <1>1, <2>2, FaultFacts DEF outboxVars
  <2> QED BY <2>1, <2>2 DEF Publish
<1>8. /\ topic' = topic /\ dropped' = dropped /\ blind \subseteq blind'
      /\ status' \in [Announcements -> {"absent", "accepted", "retired"}]
      /\ \A d \in Announcements : status[d] # "absent" => status'[d] # "absent"
  <2>1. status \in [Announcements -> {"absent", "accepted", "retired"}]
    BY DEF IInv, Queued
  <2> QED BY <1>6, <1>7, <2>1
<1>9. Queued'
  <2>1. topic \in [Keys -> Seq(Announcements)]
        /\ \A k \in Keys : \A i \in 1..Len(topic[k]) :
              topic[k][i] \in Announcements /\ status[topic[k][i]] # "absent"
    BY DEF IInv, Queued
  <2>2. \A k \in Keys : \A i \in 1..Len(topic[k]) : topic[k][i][2] = k
    BY DEF IInv, Queued
  <2>3. dropped \subseteq {d \in Announcements : status[d] # "absent"}
    BY DEF IInv, Queued
  <2> QED BY <1>8, <2>1, <2>2, <2>3 DEF Queued
<1>10. Typed'
  <2>1. faults' \in 0..MaxFaults
    BY <1>1, <1>7
  <2>2. blind' \subseteq Restaurants
    <3>1. Covers(KeyOf(q)) \subseteq Restaurants
      BY DEF Covers, KeyOf
    <3> QED BY <1>1, <1>7, <3>1 DEF Typed
  <2> QED BY <1>1, <1>2, <1>8, <2>1, <2>2 DEF Typed
<1>11. TypeOK'
  <2>1. (Scripted /\ req \in [Requests -> Request])'
    BY <1>3, <1>10 DEF Typed
  <2>2. (Typed <=> TypeOK)'
    BY <2>1, TypesSplit, PTL
  <2> QED BY <1>10, <2>2
<1>12. ASSUME NEW d \in Announcements, Pending(d) PROVE Pending(d)'
  BY <1>2, <1>8, <1>12 DEF Pending, Outbox!Delivered
<1>13. ASSUME NEW s \in Restaurants, s \in Covers(KeyOf(q)) PROVE Announced(s)'
  <2>1. CASE s \in blind'
    BY <2>1 DEF Announced
  <2>2. CASE status[c] = "absent" /\ status' = [status EXCEPT ![c] = "accepted"]
    <3>1. status'[c] # "absent"
      BY <1>6, <2>2 DEF IInv, Queued
    <3>2. KeyOf(q) \in Keys
      BY KeyFacts
    <3>3. \A i \in 1..seen[KeyOf(q)] : topic[KeyOf(q)][i] # c
      <4>1. seen[KeyOf(q)] \in 0..Len(topic[KeyOf(q)]) /\ topic[KeyOf(q)] \in Seq(Announcements)
        BY <1>1, <3>2 DEF Typed, IInv, Queued
      <4>2. \A i \in 1..Len(topic[KeyOf(q)]) : topic[KeyOf(q)][i] # c
        BY <2>2, <3>2 DEF IInv, Queued
      <4>3. Len(topic[KeyOf(q)]) \in Nat
        BY <4>1, LenProperties
      <4> QED BY <4>1, <4>2, <4>3
    <3>4. \A i \in 1..seen'[c[2]] : topic'[c[2]][i] # c
      BY <1>2, <1>6, <1>8, <3>3
    <3>5. topic'[c[2]] \in Seq(Announcements) /\ seen'[c[2]] \in 0..Len(topic'[c[2]])
      BY <1>6, <1>9, <1>10, <3>2 DEF Typed, Queued
    <3>6. Pending(c)'
      <4>1. c \notin Range(SubSeq(topic'[c[2]], 1, seen'[c[2]]))
        BY <3>4, <3>5, Consumed
      <4>2. c \notin dropped'
        BY <1>8, <2>2 DEF IInv, Queued
      <4> QED BY <3>1, <4>1, <4>2 DEF Pending
    <3>7. (s \in Covers(c[2]))'
      BY <1>6, <1>13 DEF Covers
    <3> QED BY <1>6, <3>6, <3>7 DEF Announced
  <2> QED BY <1>7, <1>13, <2>1, <2>2
<1>14. ASSUME NEW s \in Restaurants, Announced(s) PROVE Announced(s)'
  <2>1. CASE s \in blind
    BY <1>8, <2>1 DEF Announced
  <2>2. ASSUME NEW p \in Requests, At(p, "publish"), s \in Covers(KeyOf(p))
        PROVE  Announced(s)'
    <3>1. CASE p = q
      BY <1>13, <2>2, <3>1
    <3>2. CASE p # q
      <4>1. Stage(p)' = "publish"
        BY <1>1, <1>4, <2>2, <3>2, StageFacts DEF Moved
      <4>2. At(p, "publish")'
        BY <4>1 DEF Stage, At
      <4>3. KeyOf(p)' = KeyOf(p)
        BY <1>2, SameRule
      <4>4. (s \in Covers(KeyOf(p)))'
        BY <2>2, <4>3 DEF Covers
      <4> QED BY <4>2, <4>4 DEF Announced
    <3> QED BY <3>1, <3>2
  <2>3. ASSUME NEW d \in Announcements, Pending(d), s \in Covers(d[2])
        PROVE  Announced(s)'
    <3>1. Pending(d)'
      BY <1>12, <2>3
    <3>2. (s \in Covers(d[2]))'
      BY <2>3 DEF Covers
    <3> QED BY <3>1, <3>2 DEF Announced
  <2> QED BY <1>14, <2>1, <2>2, <2>3 DEF Announced
<1>15. Fresh'
  <2>1. \A s \in Restaurants : Menu(s)' = Menu(s)
    BY <1>2 DEF Menu
  <2> QED BY <1>2, <1>14, <2>1 DEF IInv, Fresh
<1> QED BY <1>2, <1>3, <1>5, <1>9, <1>11, <1>15 DEF IInv

-----------------------------------------------------------------------------
(* The outbox, Kafka and kfc-userapi.                                      *)

\* The handlers rest.
LEMMA HandlersRest ==
    ASSUME IInv, UNCHANGED <<rows, req, outcome, todo, loaded>>
    PROVE  /\ Scripted' /\ Asked' /\ Placed' /\ Known' /\ ScopeKept'
           /\ req' \in [Requests -> Request]
           /\ \A s \in Restaurants : Menu(s)' = Menu(s)
           /\ Publishers
           /\ Typed' => TypeOK'
<1>1. \A q \in Requests : Stage(q)' = Stage(q)
  BY DEF Stage
<1>2. Scripted' /\ Asked' /\ Placed'
  BY DEF IInv, Scripted, Asked, Actor, Placed
<1>3. Known'
  BY <1>1 DEF IInv, Known
<1>4. \A q \in Requests : KeyOf(q)' = KeyOf(q) /\ (ScopeRule(q)' <=> ScopeRule(q))
  BY SameRule
<1>5. ScopeKept'
  BY <1>1, <1>4 DEF IInv, ScopeKept
<1>6. Publishers
  BY <1>1, <1>4 DEF Publishers
<1>7. \A s \in Restaurants : Menu(s)' = Menu(s)
  BY DEF Menu
<1>8. req' \in [Requests -> Request]
  BY DEF IInv, TypeOK
<1>9. Typed' => TypeOK'
  <2>1. (Scripted /\ req \in [Requests -> Request])'
    BY <1>2, <1>8
  <2>2. (Typed <=> TypeOK)'
    BY <2>1, TypesSplit, PTL
  <2> QED BY <2>2
<1> QED BY <1>2, <1>3, <1>5, <1>6, <1>7, <1>8, <1>9

\* An event is in its topic at some place.
LEMMA InTopic ==
    ASSUME NEW c \in Announcements, topic[c[2]] \in Seq(Announcements)
    PROVE  Outbox!Delivered(c) <=> \E i \in 1..Len(topic[c[2]]) : topic[c[2]][i] = c
<1>1. DOMAIN topic[c[2]] = 1..Len(topic[c[2]])
  BY LenProperties
<1> QED BY <1>1 DEF Outbox!Delivered, Outbox!Range

LEMMA InTopicAfter ==
    ASSUME NEW c \in Announcements, topic'[c[2]] \in Seq(Announcements)
    PROVE  Outbox!Delivered(c)' <=> \E i \in 1..Len(topic'[c[2]]) : topic'[c[2]][i] = c
<1>1. DOMAIN topic'[c[2]] = 1..Len(topic'[c[2]])
  BY LenProperties
<1> QED BY <1>1 DEF Outbox!Delivered, Outbox!Range

\* A message more does not change what was consumed.
LEMMA DeliverStep ==
    ASSUME IInv, NEW c \in Announcements, Deliver(c)
    PROVE  IInv' /\ UNCHANGED <<rows, req, outcome, todo, loaded>>
<1>1. /\ Scripted /\ req \in [Requests -> Request] /\ Typed /\ Queued
      /\ c[2] \in Keys
  BY TypesSplit DEF IInv, TypeOK, Announcements
<1>2. /\ status[c] # "absent" /\ status' = status
      /\ topic' = [topic EXCEPT ![c[2]] = Append(@, c)] /\ dropped' = dropped
      /\ UNCHANGED <<rows, req, outcome, todo, loaded, userapiVars>>
      /\ faults' \in 0..MaxFaults
  <2>1. faults' \in 0..MaxFaults
    BY <1>1, FaultFacts DEF Deliver, Typed
  <2> QED BY <1>1, <2>1 DEF Deliver, Outbox!Deliver
<1>3. /\ Scripted' /\ Asked' /\ Placed' /\ Known' /\ ScopeKept' /\ Publishers
      /\ req' \in [Requests -> Request] /\ (Typed' => TypeOK')
      /\ \A s \in Restaurants : Menu(s)' = Menu(s)
  BY <1>2, HandlersRest
<1>4. ASSUME NEW k \in Keys
      PROVE  /\ topic'[k] \in Seq(Announcements)
             /\ Len(topic'[k]) >= Len(topic[k])
             /\ \A i \in 1..Len(topic[k]) : topic'[k][i] = topic[k][i]
             /\ \A i \in 1..Len(topic'[k]) :
                   topic'[k][i][2] = k /\ status[topic'[k][i]] # "absent"
  <2>1. topic[k] \in Seq(Announcements) /\ Len(topic[k]) \in Nat
        /\ \A i \in 1..Len(topic[k]) :
              topic[k][i][2] = k /\ status[topic[k][i]] # "absent"
    BY <1>1, LenProperties DEF Queued
  <2>2. CASE k = c[2]
    <3>1. topic'[k] = Append(topic[k], c)
      BY <1>1, <1>2, <2>2 DEF Queued
    <3>2. /\ topic'[k] \in Seq(Announcements) /\ Len(topic'[k]) = Len(topic[k]) + 1
          /\ \A i \in 1..Len(topic[k]) : topic'[k][i] = topic[k][i]
          /\ topic'[k][Len(topic[k]) + 1] = c
      BY <2>1, <3>1, AppendProperties
    <3>3. \A i \in 1..Len(topic'[k]) : i \in 1..Len(topic[k]) \/ i = Len(topic[k]) + 1
      BY <2>1, <3>2
    <3>4. Len(topic'[k]) >= Len(topic[k])
      BY <2>1, <3>2
    <3> QED BY <1>2, <2>1, <2>2, <3>2, <3>3, <3>4
  <2>3. CASE k # c[2]
    <3>1. topic'[k] = topic[k]
      BY <1>1, <1>2, <2>3 DEF Queued
    <3> QED BY <2>1, <3>1
  <2> QED BY <2>2, <2>3
<1>5. Queued'
  <2>1. topic' \in [Keys -> Seq(Announcements)]
    <3>1. topic' = [k \in Keys |-> topic'[k]]
      BY <1>1, <1>2 DEF Queued
    <3> QED BY <1>4, <3>1
  <2> QED BY <1>1, <1>2, <1>4, <2>1 DEF Queued
<1>6. ASSUME NEW k \in Keys
      PROVE  seen[k] \in 0..Len(topic[k]) /\ seen[k] \in 0..Len(topic'[k])
  <2>1. seen[k] \in 0..Len(topic[k])
    BY <1>1 DEF Typed
  <2>2. Len(topic'[k]) >= Len(topic[k]) /\ Len(topic'[k]) \in Nat /\ Len(topic[k]) \in Nat
    BY <1>1, <1>4, LenProperties DEF Queued
  <2> QED BY <2>1, <2>2
<1>7. Typed'
  BY <1>1, <1>2, <1>6 DEF Typed, userapiVars
<1>8. ASSUME NEW d \in Announcements, Pending(d) PROVE Pending(d)'
  <2>1. d[2] \in Keys
    BY DEF Announcements
  <2>2. topic[d[2]] \in Seq(Announcements) /\ seen[d[2]] \in 0..Len(topic[d[2]])
    BY <1>1, <2>1 DEF Typed, Queued
  <2>3. \A i \in 1..seen[d[2]] : topic[d[2]][i] # d
    BY <1>8, <2>2, Consumed DEF Pending
  <2>4. \A i \in 1..seen[d[2]] : i \in 1..Len(topic[d[2]])
    BY <2>2
  <2>5. \A i \in 1..seen[d[2]] : topic'[d[2]][i] # d
    BY <1>4, <2>1, <2>3, <2>4
  <2>6. topic'[d[2]] \in Seq(Announcements) /\ seen[d[2]] \in 0..Len(topic'[d[2]])
    BY <1>4, <1>6, <2>1
  <2>7. d \notin Range(SubSeq(topic'[d[2]], 1, seen[d[2]]))
    BY <2>5, <2>6, Consumed
  <2>8. seen' = seen
    BY <1>2 DEF userapiVars
  <2>9. Outbox!Delivered(d) => Outbox!Delivered(d)'
    <3>1. Outbox!Delivered(d) => \E i \in 1..Len(topic[d[2]]) : topic[d[2]][i] = d
      BY <2>2, InTopic
    <3>2. (\E i \in 1..Len(topic'[d[2]]) : topic'[d[2]][i] = d) => Outbox!Delivered(d)'
      BY <2>6, InTopicAfter
    <3>3. \A i \in 1..Len(topic[d[2]]) :
             i \in 1..Len(topic'[d[2]]) /\ topic'[d[2]][i] = topic[d[2]][i]
      <4>1. Len(topic'[d[2]]) >= Len(topic[d[2]])
        BY <1>4, <2>1
      <4>2. Len(topic[d[2]]) \in Nat /\ Len(topic'[d[2]]) \in Nat
        BY <2>2, <2>6, LenProperties
      <4> QED BY <1>4, <2>1, <4>1, <4>2
    <3> QED BY <3>1, <3>2, <3>3
  <2> QED BY <1>2, <1>8, <2>7, <2>8, <2>9 DEF Pending
<1>9. ASSUME NEW s \in Restaurants, Announced(s) PROVE Announced(s)'
  <2>1. CASE s \in blind
    BY <1>2, <2>1 DEF Announced, userapiVars
  <2>2. ASSUME NEW q \in Requests, At(q, "publish"), s \in Covers(KeyOf(q))
        PROVE  Announced(s)'
    <3>1. At(q, "publish")' /\ KeyOf(q)' = KeyOf(q)
      BY <1>2, <2>2, SameRule DEF At
    <3>2. (s \in Covers(KeyOf(q)))'
      BY <2>2, <3>1 DEF Covers
    <3> QED BY <3>1, <3>2 DEF Announced
  <2>3. ASSUME NEW d \in Announcements, Pending(d), s \in Covers(d[2])
        PROVE  Announced(s)'
    <3>1. (s \in Covers(d[2]))'
      BY <2>3 DEF Covers
    <3> QED BY <1>8, <2>3, <3>1 DEF Announced
  <2> QED BY <1>9, <2>1, <2>2, <2>3 DEF Announced
<1>10. Fresh'
  <2>1. cache' = cache /\ filling' = filling
    BY <1>2 DEF userapiVars
  <2> QED BY <1>3, <1>9, <2>1 DEF IInv, Fresh
<1> QED BY <1>2, <1>3, <1>5, <1>7, <1>10 DEF IInv

\* What is left of a topic that loses its newest messages, and what is lost.
LEMMA CutTopic ==
    ASSUME NEW S, NEW t \in Seq(S), NEW n \in Nat, n < Len(t)
    PROVE  /\ SubSeq(t, 1, n) \in Seq(S) /\ Len(SubSeq(t, 1, n)) = n
           /\ \A i \in 1..n : i \in 1..Len(t) /\ SubSeq(t, 1, n)[i] = t[i]
           /\ \A c \in Outbox!Range(SubSeq(t, n + 1, Len(t))) : \E i \in 1..Len(t) : t[i] = c
<1> DEFINE l == Len(t)
           a == SubSeq(t, 1, n)
           b == SubSeq(t, n + 1, l)
<1>1. l \in Nat /\ n < l
  OBVIOUS
<1>2. a \in Seq(S) /\ Len(a) = n /\ \A i \in 1..n : a[i] = t[i]
  BY <1>1
<1>3. DOMAIN b = 1..(l - n) /\ \A i \in 1..(l - n) : b[i] = t[i + n]
  BY <1>1
<1>4. \A i \in 1..n : i \in 1..l
  BY <1>1
<1>5. \A i \in 1..(l - n) : i + n \in 1..l
  BY <1>1
<1> HIDE DEF a, b, l
<1>6. \A c \in Outbox!Range(b) : \E i \in 1..l : t[i] = c
  BY <1>3, <1>5 DEF Outbox!Range
<1> QED BY <1>2, <1>4, <1>6 DEF a, b, l

\* The announcements that partition k loses.
Lost == {c \in Announcements : Outbox!Delivered(c) /\ ~Outbox!Delivered(c)'}

\* Events are lost that kfc-userapi has not read, and whose restaurants are
\* known to be blind to them.
LEMMA LeaderFailsStep ==
    ASSUME IInv, NEW k \in Keys, LeaderFails(k)
    PROVE  IInv' /\ UNCHANGED <<rows, req, outcome, todo, loaded>>
<1>1. /\ Scripted /\ req \in [Requests -> Request] /\ Typed /\ Queued
  BY TypesSplit DEF IInv, TypeOK
<1>2. /\ blind' = blind \cup UNION {Covers(c[2]) : c \in Lost}
      /\ UNCHANGED <<rows, req, outcome, todo, loaded, seen, cache, filling>>
      /\ faults' \in 0..MaxFaults
  <2>1. faults' \in 0..MaxFaults
    BY <1>1, FaultFacts DEF LeaderFails, Typed
  <2> QED BY <2>1 DEF LeaderFails, Lost
<1>3. PICK n \in seen[k]..(Len(topic[k]) - 1) : Outbox!Drop(k, n)
  BY DEF LeaderFails
<1>4. /\ topic' = [topic EXCEPT ![k] = SubSeq(topic[k], 1, n)]
      /\ dropped' = dropped \cup Outbox!Range(SubSeq(topic[k], n + 1, Len(topic[k])))
      /\ status' = status
  BY <1>3 DEF Outbox!Drop
<1>5. topic[k] \in Seq(Announcements) /\ seen[k] \in 0..Len(topic[k])
      /\ Len(topic[k]) \in Nat
  BY <1>1, LenProperties DEF Queued, Typed
<1>6. n \in Nat /\ seen[k] <= n /\ n < Len(topic[k])
  BY <1>5
<1>7. /\ SubSeq(topic[k], 1, n) \in Seq(Announcements) /\ Len(SubSeq(topic[k], 1, n)) = n
      /\ \A i \in 1..n : i \in 1..Len(topic[k]) /\ SubSeq(topic[k], 1, n)[i] = topic[k][i]
      /\ \A c \in Outbox!Range(SubSeq(topic[k], n + 1, Len(topic[k]))) :
            \E i \in 1..Len(topic[k]) : topic[k][i] = c
  BY <1>5, <1>6, CutTopic
<1>8. /\ topic'[k] = SubSeq(topic[k], 1, n)
      /\ \A j \in Keys \ {k} : topic'[j] = topic[j]
  BY <1>1, <1>4 DEF Queued
<1>9. /\ Scripted' /\ Asked' /\ Placed' /\ Known' /\ ScopeKept' /\ Publishers
      /\ req' \in [Requests -> Request] /\ (Typed' => TypeOK')
      /\ \A s \in Restaurants : Menu(s)' = Menu(s)
  BY <1>2, HandlersRest
\* Nothing that was read is lost, and what is lost was accepted under k.
<1>10. ASSUME NEW j \in Keys
       PROVE  /\ topic'[j] \in Seq(Announcements) /\ seen[j] \in 0..Len(topic'[j])
              /\ \A i \in 1..Len(topic'[j]) :
                    i \in 1..Len(topic[j]) /\ topic'[j][i] = topic[j][i]
  <2>1. CASE j = k
    BY <1>5, <1>6, <1>7, <1>8, <2>1
  <2>2. CASE j # k
    BY <1>1, <1>8, <2>2 DEF Queued, Typed
  <2> QED BY <2>1, <2>2
<1>11. \A c \in dropped' : c \in dropped \/ (c \in Announcements /\ c[2] = k /\ status[c] # "absent")
  <2>1. \A i \in 1..Len(topic[k]) :
           topic[k][i] \in Announcements /\ topic[k][i][2] = k /\ status[topic[k][i]] # "absent"
    BY <1>1, <1>5 DEF Queued
  <2> QED BY <1>4, <1>7, <2>1
<1>12. Queued'
  <2>1. topic' \in [Keys -> Seq(Announcements)]
    <3>1. topic' = [j \in Keys |-> topic'[j]]
      BY <1>1, <1>4 DEF Queued
    <3> QED BY <1>10, <3>1
  <2>2. \A j \in Keys : \A i \in 1..Len(topic'[j]) :
           topic'[j][i][2] = j /\ status[topic'[j][i]] # "absent"
    BY <1>1, <1>10 DEF Queued
  <2>3. dropped' \subseteq {c \in Announcements : status[c] # "absent"}
    BY <1>1, <1>11 DEF Queued
  <2> QED BY <1>1, <1>4, <2>1, <2>2, <2>3 DEF Queued
<1>13. Typed'
  <2>1. blind' \subseteq Restaurants
    <3>1. \A c \in Lost : Covers(c[2]) \subseteq Restaurants
      BY DEF Lost, Announcements, Covers, Keys
    <3> QED BY <1>1, <1>2, <3>1 DEF Typed
  <2> QED BY <1>1, <1>2, <1>10, <2>1 DEF Typed
<1>14. ASSUME NEW d \in Announcements, Pending(d), NEW s, s \in Covers(d[2])
       PROVE  s \in blind' \/ Pending(d)'
  <2>1. d[2] \in Keys
    BY DEF Announcements
  <2>2. CASE d \in Lost
    BY <1>2, <1>14, <2>2
  <2>3. CASE d \notin Lost
    <3>1. topic[d[2]] \in Seq(Announcements) /\ seen[d[2]] \in 0..Len(topic[d[2]])
      BY <1>1, <2>1 DEF Queued, Typed
    <3>2. \A i \in 1..seen[d[2]] : topic[d[2]][i] # d
      BY <1>14, <3>1, Consumed DEF Pending
    <3>3. topic'[d[2]] \in Seq(Announcements) /\ seen[d[2]] \in 0..Len(topic'[d[2]])
      BY <1>10, <2>1
    <3>4. \A i \in 1..seen[d[2]] : i \in 1..Len(topic'[d[2]])
      BY <3>3, LenProperties
    <3>5. \A i \in 1..seen[d[2]] : topic'[d[2]][i] # d
      BY <1>10, <2>1, <3>2, <3>4
    <3>6. d \notin Range(SubSeq(topic'[d[2]], 1, seen[d[2]]))
      BY <3>3, <3>5, Consumed
    <3>7. Outbox!Delivered(d)' \/ d \notin dropped'
      <4>1. CASE Outbox!Delivered(d)
        BY <2>3, <4>1 DEF Lost
      <4>2. CASE ~Outbox!Delivered(d) /\ d[2] = k
        <5>1. d \notin dropped
          BY <1>14, <4>2 DEF Pending
        <5>2. \A i \in 1..Len(topic[k]) : topic[k][i] # d
          BY <3>1, <4>2, InTopic
        <5> QED BY <1>4, <1>7, <5>1, <5>2
      <4>3. CASE ~Outbox!Delivered(d) /\ d[2] # k
        BY <1>11, <1>14, <4>3 DEF Pending
      <4> QED BY <4>1, <4>2, <4>3
    <3>8. seen' = seen /\ status' = status /\ status[d] # "absent"
      BY <1>2, <1>4, <1>14 DEF Pending
    <3> QED BY <3>6, <3>7, <3>8 DEF Pending
  <2> QED BY <2>2, <2>3
<1>15. ASSUME NEW s \in Restaurants, Announced(s) PROVE Announced(s)'
  <2>1. CASE s \in blind
    BY <1>2, <2>1 DEF Announced
  <2>2. ASSUME NEW q \in Requests, At(q, "publish"), s \in Covers(KeyOf(q))
        PROVE  Announced(s)'
    <3>1. At(q, "publish")' /\ KeyOf(q)' = KeyOf(q)
      BY <1>2, <2>2, SameRule DEF At
    <3>2. (s \in Covers(KeyOf(q)))'
      BY <2>2, <3>1 DEF Covers
    <3> QED BY <3>1, <3>2 DEF Announced
  <2>3. ASSUME NEW d \in Announcements, Pending(d), s \in Covers(d[2])
        PROVE  Announced(s)'
    <3>1. (s \in Covers(d[2]))'
      BY <2>3 DEF Covers
    <3> QED BY <1>14, <2>3, <3>1 DEF Announced
  <2> QED BY <1>15, <2>1, <2>2, <2>3 DEF Announced
<1>16. Fresh'
  BY <1>2, <1>9, <1>15 DEF IInv, Fresh
<1> QED BY <1>2, <1>9, <1>12, <1>13, <1>16 DEF IInv

\* A cache is emptied, and a menu on its way to it is known to be suspect.
LEMMA ConsumeStep ==
    ASSUME IInv, NEW k \in Keys, Consume(k)
    PROVE  IInv' /\ UNCHANGED <<rows, req, outcome, todo, loaded>>
<1>1. /\ Scripted /\ req \in [Requests -> Request] /\ Typed /\ Queued
  BY TypesSplit DEF IInv, TypeOK
<1> DEFINE filled == {s \in Covers(k) : filling[s] # <<>>}
<1>2. /\ seen[k] < Len(topic[k]) /\ seen' = [seen EXCEPT ![k] = @ + 1]
      /\ cache' = [s \in Restaurants |-> IF s \in Covers(k) THEN <<>> ELSE cache[s]]
      /\ blind' = (blind \ Covers(k)) \cup filled
      /\ UNCHANGED <<rows, req, outcome, todo, loaded, outboxVars, filling, faults>>
  BY DEF Consume
<1>3. /\ Scripted' /\ Asked' /\ Placed' /\ Known' /\ ScopeKept' /\ Publishers
      /\ req' \in [Requests -> Request] /\ (Typed' => TypeOK')
      /\ \A s \in Restaurants : Menu(s)' = Menu(s)
  BY <1>2, HandlersRest
<1>4. Queued'
  BY <1>2, QueuedStays DEF IInv, outboxVars
<1>5. Covers(k) \subseteq Restaurants
  BY DEF Covers, Keys
<1>6. \A j \in Keys : seen'[j] \in 0..Len(topic'[j]) /\ (j # k => seen'[j] = seen[j])
  <2> SUFFICES ASSUME NEW j \in Keys
               PROVE  seen'[j] \in 0..Len(topic'[j]) /\ (j # k => seen'[j] = seen[j])
    OBVIOUS
  <2>1. topic' = topic /\ topic[j] \in Seq(Announcements) /\ Len(topic[j]) \in Nat
        /\ seen[j] \in 0..Len(topic[j])
    BY <1>1, <1>2, LenProperties DEF Queued, Typed, outboxVars
  <2>2. seen[k] \in 0..Len(topic[k])
    BY <1>1 DEF Typed
  <2>3. seen'[j] = IF j = k /\ k \in DOMAIN seen THEN seen[j] + 1 ELSE seen[j]
    BY <1>2
  <2> QED BY <1>2, <2>1, <2>2, <2>3
<1>7. IsKept(<<>>)
  <2>1. Len(<<>>) = 0 /\ DOMAIN <<>> = {}
    OBVIOUS
  <2>2. Range(<<>>) = {}
    BY <2>1 DEF Range
  <2> QED BY <2>1, <2>2 DEF IsKept
<1>8. Typed'
  <2>1. \A s \in Restaurants : IsKept(cache'[s])
    BY <1>1, <1>2, <1>7 DEF Typed
  <2>2. blind' \subseteq Restaurants
    BY <1>1, <1>2, <1>5 DEF Typed
  <2> QED BY <1>1, <1>2, <1>6, <2>1, <2>2 DEF Typed
<1>9. ASSUME NEW s \in Restaurants, s \notin Covers(k), Announced(s) PROVE Announced(s)'
  <2>1. CASE s \in blind
    BY <1>2, <1>9, <2>1 DEF Announced
  <2>2. ASSUME NEW q \in Requests, At(q, "publish"), s \in Covers(KeyOf(q))
        PROVE  Announced(s)'
    <3>1. At(q, "publish")' /\ KeyOf(q)' = KeyOf(q)
      BY <1>2, <2>2, SameRule DEF At
    <3>2. (s \in Covers(KeyOf(q)))'
      BY <2>2, <3>1 DEF Covers
    <3> QED BY <3>1, <3>2 DEF Announced
  <2>3. ASSUME NEW d \in Announcements, Pending(d), s \in Covers(d[2])
        PROVE  Announced(s)'
    <3>1. d[2] # k /\ d[2] \in Keys
      BY <1>9, <2>3 DEF Announcements
    <3>2. seen'[d[2]] = seen[d[2]]
      BY <1>6, <3>1
    <3>3. Pending(d)'
      BY <1>2, <2>3, <3>2 DEF Pending, Outbox!Delivered, outboxVars
    <3>4. (s \in Covers(d[2]))'
      BY <2>3 DEF Covers
    <3> QED BY <3>3, <3>4 DEF Announced
  <2> QED BY <1>9, <2>1, <2>2, <2>3 DEF Announced
<1>10. Fresh'
  <2> SUFFICES ASSUME NEW s \in Restaurants
               PROVE  /\ cache'[s] \notin {<<>>, <<Menu(s)'>>} => Announced(s)'
                      /\ filling'[s] \notin {<<>>, <<Menu(s)'>>} => Announced(s)'
    BY DEF Fresh
  <2>1. Menu(s)' = Menu(s) /\ filling' = filling
    BY <1>2, <1>3
  <2>2. CASE s \in Covers(k)
    <3>1. cache'[s] = <<>>
      BY <1>2, <2>2
    <3>2. filling[s] # <<>> => s \in blind'
      BY <1>2, <2>2
    <3>3. s \in blind' => Announced(s)'
      BY DEF Announced
    <3> QED BY <2>1, <3>1, <3>2, <3>3
  <2>3. CASE s \notin Covers(k)
    <3>1. cache'[s] = cache[s]
      BY <1>2, <2>3
    <3> QED BY <1>9, <2>1, <2>3, <3>1 DEF IInv, Fresh
  <2> QED BY <2>2, <2>3
<1> QED BY <1>2, <1>3, <1>4, <1>8, <1>10 DEF IInv

\* A menu is computed, stored or dropped.
LEMMA CachesStep ==
    ASSUME IInv, NEW s \in Restaurants, Caches(s)
    PROVE  IInv' /\ UNCHANGED <<rows, req, outcome, todo, loaded>>
<1>1. /\ Scripted /\ req \in [Requests -> Request] /\ Typed
  BY TypesSplit DEF IInv, TypeOK
<1>2. UNCHANGED <<rows, req, outcome, todo, loaded, outboxVars, seen, faults>>
  BY DEF Caches, Compute, Store, Expire
<1>3. /\ Scripted' /\ Asked' /\ Placed' /\ Known' /\ ScopeKept' /\ Publishers
      /\ req' \in [Requests -> Request] /\ (Typed' => TypeOK')
      /\ \A r \in Restaurants : Menu(r)' = Menu(r)
  BY <1>2, HandlersRest
<1>4. Queued'
  BY <1>2, QueuedStays DEF IInv, outboxVars
<1>5. (req \in [Requests -> Request])'
  BY <1>3
<1>6. IsKept(<<>>) /\ IsKept(<<Menu(s)>>)
  <2>1. Len(<<>>) = 0 /\ DOMAIN <<>> = {}
    OBVIOUS
  <2>2. Range(<<>>) = {}
    BY <2>1 DEF Range
  <2>3. \A m : Len(<<m>>) = 1 /\ DOMAIN <<m>> = {1} /\ <<m>>[1] = m
    OBVIOUS
  <2>4. \A m : Range(<<m>>) = {m}
    BY <2>3 DEF Range
  <2>5. Menu(s) \subseteq Entities \X (Requests \cup {None})
    <3>1. \A e \in Entities : rows[e].by \in Requests \cup {None}
      BY <1>1 DEF Typed, Row
    <3> QED BY <3>1 DEF Menu
  <2> QED BY <2>1, <2>2, <2>3, <2>4, <2>5 DEF IsKept
<1>7. ASSUME NEW r \in Restaurants, Announced(r), r \in blind => r \in blind' PROVE Announced(r)'
  <2>1. CASE r \in blind
    BY <1>7, <2>1 DEF Announced
  <2>2. ASSUME NEW q \in Requests, At(q, "publish"), r \in Covers(KeyOf(q))
        PROVE  Announced(r)'
    <3>1. At(q, "publish")' /\ KeyOf(q)' = KeyOf(q)
      BY <1>2, <2>2, SameRule DEF At
    <3>2. (r \in Covers(KeyOf(q)))'
      BY <2>2, <3>1 DEF Covers
    <3> QED BY <3>1, <3>2 DEF Announced
  <2>3. ASSUME NEW d \in Announcements, Pending(d), r \in Covers(d[2])
        PROVE  Announced(r)'
    <3>1. Pending(d)'
      BY <1>2, <2>3 DEF Pending, Outbox!Delivered, outboxVars
    <3>2. (r \in Covers(d[2]))'
      BY <2>3 DEF Covers
    <3> QED BY <3>1, <3>2 DEF Announced
  <2> QED BY <1>7, <2>1, <2>2, <2>3 DEF Announced
<1>8. CASE Compute(s)
  <2>1. /\ filling' = [filling EXCEPT ![s] = <<Menu(s)>>] /\ cache' = cache /\ blind' = blind
    BY <1>8 DEF Compute
  <2>2. Typed'
    <3>1. \A r \in Restaurants : IsKept(filling'[r])
      BY <1>1, <1>6, <2>1 DEF Typed
    <3> QED BY <1>1, <1>2, <2>1, <3>1 DEF Typed, outboxVars
  <2>3. Fresh'
    <3> SUFFICES ASSUME NEW r \in Restaurants
                 PROVE  /\ cache[r] \notin {<<>>, <<Menu(r)'>>} => Announced(r)'
                        /\ filling'[r] \notin {<<>>, <<Menu(r)'>>} => Announced(r)'
      BY <2>1 DEF Fresh
    <3>1. filling'[r] \in {filling[r], <<Menu(r)>>}
      BY <2>1
    <3> QED BY <1>3, <1>7, <2>1, <3>1 DEF IInv, Fresh
  <2> QED BY <1>2, <1>3, <1>4, <2>2, <2>3 DEF IInv
<1>9. CASE Store(s)
  <2>1. /\ filling' = [filling EXCEPT ![s] = <<>>] /\ cache' = [cache EXCEPT ![s] = filling[s]]
        /\ blind' = blind
    BY <1>9 DEF Store
  <2>2. Typed'
    <3>1. \A r \in Restaurants : IsKept(filling'[r]) /\ IsKept(cache'[r])
      BY <1>1, <1>6, <2>1 DEF Typed
    <3> QED BY <1>1, <1>2, <2>1, <3>1 DEF Typed, outboxVars
  <2>3. Fresh'
    <3> SUFFICES ASSUME NEW r \in Restaurants
                 PROVE  /\ cache'[r] \notin {<<>>, <<Menu(r)'>>} => Announced(r)'
                        /\ filling'[r] \notin {<<>>, <<Menu(r)'>>} => Announced(r)'
      BY DEF Fresh
    <3>1. filling'[r] \in {filling[r], <<>>} /\ cache'[r] \in {cache[r], filling[r]}
      BY <2>1
    <3> QED BY <1>3, <1>7, <2>1, <3>1 DEF IInv, Fresh
  <2> QED BY <1>2, <1>3, <1>4, <2>2, <2>3 DEF IInv
<1>10. CASE Expire(s)
  <2>1. /\ cache' = [cache EXCEPT ![s] = <<>>] /\ filling' = filling
        /\ blind' = IF filling[s] = <<>> THEN blind \ {s} ELSE blind
    BY <1>10 DEF Expire
  <2>2. Typed'
    <3>1. \A r \in Restaurants : IsKept(cache'[r])
      BY <1>1, <1>6, <2>1 DEF Typed
    <3>2. blind' \subseteq Restaurants
      BY <1>1, <2>1 DEF Typed
    <3> QED BY <1>1, <1>2, <2>1, <3>1, <3>2 DEF Typed, outboxVars
  <2>3. Fresh'
    <3> SUFFICES ASSUME NEW r \in Restaurants
                 PROVE  /\ cache'[r] \notin {<<>>, <<Menu(r)'>>} => Announced(r)'
                        /\ filling[r] \notin {<<>>, <<Menu(r)'>>} => Announced(r)'
      BY <2>1 DEF Fresh
    <3>1. CASE r = s
      <4>1. cache'[r] = <<>>
        BY <1>1, <2>1, <3>1 DEF Typed
      <4>2. filling[r] # <<>> => blind' = blind
        BY <2>1, <3>1
      <4> QED BY <1>3, <1>7, <4>1, <4>2 DEF IInv, Fresh
    <3>2. CASE r # s
      <4>1. cache'[r] = cache[r] /\ (r \in blind => r \in blind')
        BY <2>1, <3>2
      <4> QED BY <1>3, <1>7, <4>1 DEF IInv, Fresh
    <3> QED BY <3>1, <3>2
  <2> QED BY <1>2, <1>3, <1>4, <2>2, <2>3 DEF IInv
<1> QED BY <1>2, <1>8, <1>9, <1>10 DEF Caches

-----------------------------------------------------------------------------
(* The invariant is inductive.                                             *)

\* An override belongs to one restaurant.
LEMMA PlaceFacts ==
    ASSUME NEW e \in Entities, KindOf[e] = "override"
    PROVE  Place(e) \in Restaurants /\ Overrides(e, Place(e))
<1>1. \E s \in Restaurants : Overrides(e, s)
  BY CatalogueAssumption
<1> QED BY <1>1 DEF Place

LEMMA InitInv == Init => IInv
<1> SUFFICES ASSUME Init PROVE IInv
  OBVIOUS
<1>1. /\ rows = Listed /\ req \in [Requests -> Request]
      /\ outcome = [q \in Requests |-> "idle"] /\ todo = [q \in Requests |-> <<>>]
      /\ loaded = [q \in Requests |-> NoRow]
      /\ status = [c \in Announcements |-> "absent"] /\ topic = [k \in Keys |-> <<>>]
      /\ dropped = {} /\ seen = [k \in Keys |-> 0]
      /\ cache = [s \in Restaurants |-> <<>>] /\ filling = [s \in Restaurants |-> <<>>]
      /\ blind = {} /\ faults = 0
  BY CatalogueAssumption DEF Init, Outbox!Init
<1>2. Scripted
  BY <1>1, ScriptsFacts DEF Scripted
<1>3. NoRow \in Row /\ NoRow.state = "none"
  BY DEF NoRow, Row
<1>4. TypeOK
  <2>1. IsKept(<<>>)
    <3>1. Len(<<>>) = 0 /\ DOMAIN <<>> = {}
      OBVIOUS
    <3>2. Range(<<>>) = {}
      BY <3>1 DEF Range
    <3> QED BY <3>1, <3>2 DEF IsKept
  <2>2. \A k \in Keys : seen[k] \in 0..Len(topic[k])
    <3>1. Len(<<>>) = 0
      OBVIOUS
    <3> QED BY <1>1, <3>1
  <2>3. Listed \in [Entities -> Row] /\ 0 \in 0..MaxFaults
    BY CatalogueAssumption
  <2>4. Typed
    BY <1>1, <1>3, <2>1, <2>2, <2>3 DEF Typed
  <2> QED BY <1>1, <1>2, <2>4, TypesSplit
<1>5. ASSUME NEW q \in Requests
      PROVE  /\ req[q].kind = KindOf[req[q].on]
             /\ req[q].kind # "promotion" /\ req[q].op = "create" => req[q].change = "keep"
             /\ req[q].kind = "override" => req[q].change = "keep"
             /\ req[q].kind = "override" /\ req[q].op = "create" => req[q].at = Place(req[q].on)
  <2>1. req \in Scenarios
    BY DEF Init
  <2>2. /\ req[q].kind = KindOf[req[q].on]
        /\ req[q].kind # "promotion" /\ req[q].op = "create" => req[q].change = "keep"
        /\ req[q].kind = "override" => req[q].change = "keep"
    BY <2>1, CatalogueAssumption
  <2>3. req[q].on \in Entities
    BY <1>1 DEF Request
  <2>4. ASSUME req[q].kind = "override", req[q].op = "create"
        PROVE  req[q].at = Place(req[q].on)
    <3>1. Overrides(req[q].on, Place(req[q].on))
      BY <2>2, <2>3, <2>4, PlaceFacts
    <3> QED BY <2>1, <2>4, <3>1 DEF Overrides
  <2> QED BY <2>2, <2>4
<1>6. Asked
  BY <1>1, <1>5 DEF Asked
<1>7. Queued
  <2>1. <<>> \in Seq(Announcements) /\ Len(<<>>) = 0
    OBVIOUS
  <2> QED BY <1>1, <2>1 DEF Queued
<1>8. Placed
  BY <1>1, PlaceFacts DEF Placed, Overrides
<1>9. \A q \in Requests : Stage(q) = "none"
  BY <1>1 DEF Stage
<1>10. Known /\ ScopeKept
  BY <1>1, <1>3, <1>9 DEF Known, ScopeKept
<1>11. Fresh
  BY <1>1 DEF Fresh
<1> QED BY <1>2, <1>4, <1>6, <1>7, <1>8, <1>10, <1>11 DEF IInv

\* What a step does to the tables: nothing, or the one write of one handler.
OneWrite ==
    \/ UNCHANGED rows
    \/ \E q \in Requests :
          /\ Stage(q) \in Writes /\ Wrote(q)
          /\ todo'[q] # todo[q] /\ \A p \in Requests \ {q} : todo'[p] = todo[p]

LEMMA NextStep ==
    ASSUME IInv, Next
    PROVE  IInv' /\ OneWrite
<1>1. ASSUME NEW q \in Requests, Arrives(q) PROVE IInv' /\ UNCHANGED rows
  <2>1. \E kind \in Kinds, op \in Ops : Arrive(q, kind, op)
    <3>1. {"category", "item", "variation", "override", "promotion"} \subseteq Kinds
          /\ {"create", "update", "delete"} \subseteq Ops
      BY DEF Kinds, Ops
    <3> QED BY <1>1, <3>1 DEF Arrives, PostCategory, PutCategory, RemoveCategory,
               PostItem, PutItem, RemoveItem, PostVariation, PutVariation, RemoveVariation,
               PostOverride, PutOverride, RemoveOverride,
               PostPromotion, PutPromotion, RemovePromotion
  <2> QED BY <2>1, ArriveStep
<1>2. ASSUME NEW q \in Requests, Handles(q) PROVE IInv' /\ OneWrite
  <2>1. CASE Load(q)
    BY <2>1, LoadStep DEF OneWrite
  <2>2. CASE FindParent(q)
    BY <2>2, FindParentStep DEF OneWrite
  <2>3. CASE CheckScope(q)
    BY <2>3, CheckScopeStep DEF OneWrite
  <2>4. CASE Publish(q)
    BY <2>4, PublishStep DEF OneWrite
  <2>5. CASE Insert(q) \/ Upsert(q) \/ Write(q) \/ Remove(q)
    <3>1. IInv' /\ Wrote(q)
      BY <2>5, RowSteps
    <3>2. PICK step \in Writes : At(q, step)
      BY <2>5 DEF Insert, Upsert, Write, Remove, Writes
    <3>3. \E ok \in BOOLEAN : Decide(q, ok) /\ req' = req
      BY <2>5 DEF Insert, Upsert, Write, Remove, Writable, Found, Exists
    <3>4. Scripted /\ req \in [Requests -> Request] /\ step # "none"
      BY DEF IInv, TypeOK, Writes
    <3>5. Moved(q, step, Stage(q)')
      BY <3>2, <3>3, <3>4, Decides DEF Goes
    <3> QED BY <3>1, <3>5 DEF OneWrite, Moved
  <2> QED BY <1>2, <2>1, <2>2, <2>3, <2>4, <2>5 DEF Handles
<1>3. ASSUME NEW q \in Requests, GivesUp(q) PROVE IInv' /\ UNCHANGED rows
  BY <1>3, GivesUpStep
<1>4. ASSUME NEW c \in Announcements, Deliver(c) PROVE IInv' /\ UNCHANGED rows
  BY <1>4, DeliverStep
<1>5. ASSUME NEW k \in Keys, Consume(k) PROVE IInv' /\ UNCHANGED rows
  BY <1>5, ConsumeStep
<1>6. ASSUME NEW k \in Keys, LeaderFails(k) PROVE IInv' /\ UNCHANGED rows
  BY <1>6, LeaderFailsStep
<1>7. ASSUME NEW s \in Restaurants, Caches(s) PROVE IInv' /\ UNCHANGED rows
  BY <1>7, CachesStep
<1> QED BY <1>1, <1>2, <1>3, <1>4, <1>5, <1>6, <1>7 DEF Next, OneWrite

LEMMA Stuttering ==
    ASSUME IInv, UNCHANGED vars
    PROVE  IInv'
<1>1. UNCHANGED <<rows, req, outcome, todo, loaded>> /\ UNCHANGED <<outboxVars, userapiVars, faults>>
  BY DEF vars
<1>2. UNCHANGED <<status, behind, topic, dropped, seen, cache, filling, blind, faults>>
  BY <1>1 DEF outboxVars, userapiVars
<1>3. /\ Scripted' /\ Asked' /\ Placed' /\ Known' /\ ScopeKept' /\ Publishers
      /\ req' \in [Requests -> Request] /\ (Typed' => TypeOK')
      /\ \A r \in Restaurants : Menu(r)' = Menu(r)
  BY <1>1, HandlersRest
<1>4. Scripted /\ req \in [Requests -> Request] /\ Typed
  BY TypesSplit DEF IInv, TypeOK
<1>5. Typed' /\ Queued'
  BY <1>1, <1>2, <1>4, QueuedStays DEF IInv, Typed
<1>6. Fresh'
  <2>1. Fresh /\ (req \in [Requests -> Request])' /\ blind \subseteq blind'
        /\ UNCHANGED <<outboxVars, seen, cache, filling>>
    BY <1>1, <1>2, <1>3 DEF IInv
  <2> QED BY <1>3, <1>4, <2>1, FreshStays
<1> QED BY <1>3, <1>5, <1>6 DEF IInv

-----------------------------------------------------------------------------
(* The theorems.                                                           *)

\* The invariant above holds in every behaviour.
THEOREM CatalogueAlways == Spec => []IInv
<1>1. IInv /\ [Next]_vars => IInv'
  BY NextStep, Stuttering
<1> QED BY InitInv, <1>1, PTL DEF Spec

\* No restaurant's kiosks are shown an old menu unless the change is still to be
\* announced, its announcement is on its way, or it is one of the three cases in
\* which a change is missed (the event never entered the outbox, Kafka lost it
\* after it was acknowledged, or the menu was computed before the change and
\* stored after the event), for any interleaving of handlers, deliveries, lost
\* messages and cache fills.
THEOREM NoStaleMenuUnexplained == Spec => []CatalogueInv
<1>1. IInv => CatalogueInv
  BY DEF IInv, Fresh, Announced, CatalogueInv, StaleIsAnnounced, Stale
<1> QED BY CatalogueAlways, <1>1, PTL

\* Who has a permission of the chain's own menu is a super admin.
LEMMA ChainMenu ==
    ASSUME NEW user, NEW permission,
           permission \in {"menu.category.write", "menu.category.delete", "menu.item.write",
                           "menu.item.delete", "menu.variation.write", "menu.variation.delete"},
           CheckPermission(user, permission)
    PROVE  user.role = "super_admin"
<1>1. permission \notin RegionalManagerPermissions
  BY DEF RegionalManagerPermissions, RestaurantManagerPermissions, ShiftManagerPermissions,
         CashierPermissions
<1>2. /\ RestaurantManagerPermissions \subseteq RegionalManagerPermissions
      /\ ShiftManagerPermissions \subseteq RestaurantManagerPermissions
      /\ CashierPermissions \subseteq ShiftManagerPermissions
  BY DEF RegionalManagerPermissions, RestaurantManagerPermissions, ShiftManagerPermissions
<1>3. permission \in RolePermissions(user.role)
  BY DEF CheckPermission
<1> QED BY <1>1, <1>2, <1>3 DEF RolePermissions

\* A write reaches only the menus its account may change.
LEMMA WritesWithinScope ==
    ASSUME IInv, NEW q \in Requests, Stage(q) \in Writes, Wrote(q),
           NEW s \in Restaurants, Menu(s)' # Menu(s)
    PROVE  \/ Actor(q).role = "super_admin"
           \/ CanAccessRestaurant(Actor(q), s, Restaurants)
           \/ /\ Actor(q).role = "regional_manager"
              /\ req[q].kind = "promotion" /\ Where(q) = None
<1>1. Scripted /\ req \in [Requests -> Request]
  BY DEF IInv, TypeOK
<1>2. /\ req[q].kind \in {"category", "item", "variation", "override", "promotion"}
      /\ req[q].op \in {"create", "update", "delete"} /\ req[q].on \in Entities
      /\ outcome[q] = "running"
  <2>1. Stage(q) # "none"
    BY DEF Writes
  <2> QED BY <1>1, <2>1, StageFacts DEF Kinds, Ops
<1>3. CheckPermission(Actor(q), Permission(req[q]))
  BY <1>2 DEF IInv, Asked
<1>4. Reaches(Where(q), s) \/ Blunt(req[q].kind, req[q].op)
  BY DEF Wrote
<1>5. req[q].kind \in Scoped => ScopeRule(q)
  BY DEF IInv, ScopeKept, Writes
<1>6. RegionOf[s] \in Regions /\ RegionOf[s] \notin Restaurants /\ None \notin Regions \cup Restaurants
      /\ s \notin Regions
  BY OrganisationAssumption, CatalogueAssumption
<1>7. CASE req[q].kind \in {"category", "item", "variation"}
  <2>1. Permission(req[q]) \in
           {"menu.category.write", "menu.category.delete", "menu.item.write",
            "menu.item.delete", "menu.variation.write", "menu.variation.delete"}
    BY <1>2, <1>7, Permissions DEF Kinds
  <2> QED BY <1>3, <2>1, ChainMenu
<1>8. CASE req[q].kind = "override"
  <2>1. CanAccessRestaurant(Actor(q), Where(q), Restaurants)
    BY <1>5, <1>8 DEF Scoped, ScopeRule
  <2>2. Where(q) = Place(req[q].on)
    <3>1. req[q].op = "create" => req[q].at = Place(req[q].on)
      BY <1>8 DEF IInv, Asked
    <3>2. req[q].op # "create" => loaded[q].state = "live"
      BY <1>8 DEF IInv, Known, Writes, Blunt
    <3>3. loaded[q].state = "live" => loaded[q].at = Place(req[q].on)
      BY <1>8 DEF IInv, Known
    <3> QED BY <3>1, <3>2, <3>3 DEF Where
  <2>3. Place(req[q].on) \in Restaurants
    BY <1>2, <1>8, PlaceFacts DEF IInv, Asked
  <2>4. Reaches(Where(q), s)
    BY <1>4, <1>8 DEF Blunt
  <2>5. Where(q) = s
    BY <1>6, <2>2, <2>3, <2>4 DEF Reaches
  <2> QED BY <2>1, <2>5
<1>9. CASE req[q].kind = "promotion"
  <2>1. checkPromotionScope(Actor(q), Where(q))
    BY <1>5, <1>9 DEF Scoped, ScopeRule
  <2>2. Where(q) \in {None, s, RegionOf[s]}
    BY <1>4, <1>9 DEF Blunt, Reaches
  <2>3. CASE Where(q) = None
    BY <1>9, <2>1, <2>3 DEF checkPromotionScope
  <2>4. CASE Where(q) = RegionOf[s]
    BY <1>6, <2>1, <2>4 DEF checkPromotionScope, CanAccessRestaurant
  <2>5. CASE Where(q) = s
    BY <1>6, <2>1, <2>5 DEF checkPromotionScope
  <2> QED BY <2>2, <2>3, <2>4, <2>5
<1> QED BY <1>2, <1>7, <1>8, <1>9

\* A write of the menu stays within the scope of its account, revives nothing
\* that was deleted and turns nothing on unasked, whichever handlers run side by
\* side and whatever they read before.
THEOREM WritesOfTheMenuAreSound == Spec => ChangesSound
<1> DEFINE Scope == \A q \in Requests, s \in Restaurants :
              todo'[q] # todo[q] /\ Menu(s)' # Menu(s) =>
                 \/ Actor(q).role = "super_admin"
                 \/ CanAccessRestaurant(Actor(q), s, Restaurants)
                 \/ /\ Actor(q).role = "regional_manager"
                    /\ req[q].kind = "promotion" /\ Where(q) = None
           Deleted == \A e \in Entities : rows[e].state = "deleted" => rows'[e] = rows[e]
           Knowingly == \A e \in Entities :
              /\ rows[e].state = "live" /\ ~rows[e].active
              /\ rows'[e].state = "live" /\ rows'[e].active
              => \E q \in Requests : /\ todo'[q] # todo[q] /\ req[q].on = e
                                     /\ req[q].change = "on" \/ loaded[q].active
<1>1. ASSUME IInv, OneWrite PROVE Scope /\ Deleted /\ Knowingly
  <2>1. CASE UNCHANGED rows
    <3>1. \A s \in Restaurants : Menu(s)' = Menu(s)
      BY <2>1 DEF Menu
    <3> QED BY <2>1, <3>1
  <2>2. ASSUME NEW q \in Requests, Stage(q) \in Writes, Wrote(q), todo'[q] # todo[q],
               \A p \in Requests \ {q} : todo'[p] = todo[p]
        PROVE  Scope /\ Deleted /\ Knowingly
    <3>1. Scope
      <4> SUFFICES ASSUME NEW p \in Requests, NEW s \in Restaurants,
                          todo'[p] # todo[p], Menu(s)' # Menu(s)
                   PROVE  \/ Actor(p).role = "super_admin"
                          \/ CanAccessRestaurant(Actor(p), s, Restaurants)
                          \/ /\ Actor(p).role = "regional_manager"
                             /\ req[p].kind = "promotion" /\ Where(p) = None
        OBVIOUS
      <4>1. p = q
        BY <2>2
      <4> QED BY <1>1, <2>2, <4>1, WritesWithinScope
    <3>2. Deleted
      BY <2>2 DEF Wrote
    <3>3. Knowingly
      <4> SUFFICES ASSUME NEW e \in Entities, rows[e].state = "live", ~rows[e].active,
                          rows'[e].state = "live", rows'[e].active
                   PROVE  \E p \in Requests : /\ todo'[p] # todo[p] /\ req[p].on = e
                                              /\ req[p].change = "on" \/ loaded[p].active
        OBVIOUS
      <4>1. req[q].on = e
        BY <2>2 DEF Wrote
      <4> QED BY <2>2, <4>1 DEF Wrote
    <3> QED BY <3>1, <3>2, <3>3
  <2> QED BY <1>1, <2>1, <2>2 DEF OneWrite
<1>2. IInv /\ [Next]_vars => [Scope /\ Deleted /\ Knowingly]_vars
  BY <1>1, NextStep
<1> QED BY CatalogueAlways, <1>2, PTL DEF Spec, ChangesSound, ChangedWithinScope,
                                    DeletedStaysDeleted, ActivatedKnowingly

=============================================================================
