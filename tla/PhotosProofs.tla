----------------------------- MODULE PhotosProofs -----------------------------
(***************************************************************************)
(* Proofs about the photos of rows: what a row points at is there, a photo *)
(* no row points at has somebody to answer for it, and an image changes    *)
(* only where a request for photos says so, for any rows, any requests and *)
(* any number of failures.                                                 *)
(***************************************************************************)
EXTENDS Photos, SequenceTheorems, TLAPS

-----------------------------------------------------------------------------
(* The inductive invariant.                                                *)

\* What is left of a script.
Left(op) ==
    CASE op = "upload" ->
            {<<"load", "ensure", "put", "set", "clean", "publish">>,
             <<"ensure", "put", "set", "clean", "publish">>,
             <<"make", "policy", "put", "set", "clean", "publish">>,
             <<"policy", "put", "set", "clean", "publish">>,
             <<"put", "set", "clean", "publish">>, <<"set", "clean", "publish">>,
             <<"clean", "publish">>, <<"publish">>, <<"rollback">>}
      [] op = "remove" ->
            {<<"load", "clear", "clean", "publish">>, <<"clear", "clean", "publish">>,
             <<"clean", "publish">>, <<"publish">>}
      [] op = "form" -> {<<"load", "write">>, <<"write">>}
      [] OTHER -> {<<"hide">>}

Scripts == {<<>>} \cup (UNION {Left(op) : op \in Ops})

Scripted ==
    /\ req \in [Requests -> Request]
    /\ outcome \in [Requests -> {"idle", "running", "ok", "failed"}]
    /\ todo \in [Requests -> Scripts]
    /\ \A q \in Requests : IF Running(q) THEN todo[q] \in Left(req[q].op) ELSE todo[q] = <<>>

\* The step that q is at.
Stage(q) == IF Running(q) THEN Head(todo[q]) ELSE "none"

Types ==
    /\ old \in [Requests -> Keys \cup {Link, None}]
    /\ live \subseteq Rows /\ untold \subseteq Rows
    /\ image \in [Rows -> Keys \cup {Link, None}]
    /\ objects \subseteq Keys
    /\ bucket \in {"none", "private", "public"}
    /\ once \in {"new", "running", "done"} /\ ensureErr \in BOOLEAN
    /\ beside \subseteq SUBSET Requests
    /\ faults \in 0..MaxFaults

Before == {"load", "ensure", "make", "policy", "put", "set", "clear"}

\* Request k has recorded its photo, if it ever does.
Past(k) == outcome[k] # "idle" /\ Stage(k) \notin Before

\* The key of a request is recorded for its own row, by itself; one that was
\* stored before stays where it was.
Homes ==
    /\ \A e \in Rows : image[e] \in Requests => req[image[e]].on = e /\ Past(image[e])
    /\ \A q \in Requests : old[q] \in Requests =>
          req[old[q]].on = req[q].on /\ Past(old[q]) /\ old[q] # q
    /\ \A d, e \in Rows : d # e /\ image[d] \in Stored => image[d] # image[e]
    /\ \A q \in Requests, d \in Rows : d # req[q].on /\ old[q] \in Stored => image[d] # old[q]

\* The object is there before the row points at it, and no row points at the
\* old one when that is deleted.
Ordered ==
    \A q \in Requests :
        /\ Stage(q) = "set" => q \in objects
        /\ Stage(q) = "clean" /\ old[q] \in Keys => \A e \in Rows : image[e] # old[q]

\* One request checks the bucket, and nothing is uploaded before.
Checked ==
    /\ \A q \in Requests :
          /\ Stage(q) = "make" => bucket = "none"
          /\ Stage(q) \in {"make", "policy"} => once = "running"
          /\ Stage(q) \in {"put", "set"} => bucket = "public"
    /\ \A p, q \in Requests :
          Stage(p) \in {"make", "policy"} /\ Stage(q) \in {"make", "policy"} => p = q
    /\ once = "done" /\ ~ensureErr => bucket = "public"

\* Without a fault, a change that was not announced has its request about to.
Announced ==
    \A e \in untold :
        \/ \E q \in Requests : Stage(q) \in {"clean", "publish"} /\ req[q].on = e
        \/ faults > 0

ForPhotos(q) == req[q].op \in {"upload", "remove"}

\* Requests for one row's photo that run together are on record, and one that
\* has loaded its row knows the image, unless it changed beside it.
Loaded ==
    /\ \A p, q \in Requests :
          p # q /\ Running(p) /\ Running(q) /\ ForPhotos(p) /\ ForPhotos(q)
             /\ req[p].on = req[q].on => {p, q} \in beside
    /\ \A q \in Requests :
          Stage(q) \in Before \ {"load"} /\ image[req[q].on] \in Keys
             => \/ old[q] = image[req[q].on]
                \/ image[req[q].on] \in Requests /\ {q, image[req[q].on]} \in beside

\* Who answers for object k.
Accounted(k) ==
    \/ \E e \in Rows : image[e] = k
    \/ k \in Requests /\ Stage(k) \in {"set", "rollback"}
    \/ \E q \in Requests : Stage(q) = "clean" /\ old[q] = k
    \/ \E q \in Requests : {q, k} \in beside
    \/ faults > 0

IInv ==
    /\ Scripted /\ Types /\ Homes /\ Ordered /\ Checked /\ Announced /\ Loaded
    /\ PointsAtObject /\ PhotoServed
    /\ \A k \in objects : Accounted(k)

-----------------------------------------------------------------------------
(* Scripts.                                                                *)

LEMMA LeftFacts ==
    /\ Left("upload") =
            {<<"load", "ensure", "put", "set", "clean", "publish">>,
             <<"ensure", "put", "set", "clean", "publish">>,
             <<"make", "policy", "put", "set", "clean", "publish">>,
             <<"policy", "put", "set", "clean", "publish">>,
             <<"put", "set", "clean", "publish">>, <<"set", "clean", "publish">>,
             <<"clean", "publish">>, <<"publish">>, <<"rollback">>}
    /\ Left("remove") =
            {<<"load", "clear", "clean", "publish">>, <<"clear", "clean", "publish">>,
             <<"clean", "publish">>, <<"publish">>}
    /\ Left("form") = {<<"load", "write">>, <<"write">>}
    /\ Left("delete") = {<<"hide">>}
BY DEF Left

\* The step after `step`; "none" after the last one.
After(op, step) ==
    IF step = "load"
    THEN (IF op = "upload" THEN "ensure" ELSE IF op = "remove" THEN "clear" ELSE "write")
    ELSE IF step \in {"ensure", "policy"} THEN "put"
    ELSE IF step = "make" THEN "policy"
    ELSE IF step = "put" THEN "set"
    ELSE IF step \in {"set", "clear"} THEN "clean"
    ELSE IF step = "clean" THEN "publish"
    ELSE "none"

\* A script of several steps: its first step, and the rest.
LEMMA Rest ==
    ASSUME NEW a, NEW b, NEW c, NEW d, NEW e, NEW f
    PROVE  /\ Head(<<a>>) = a /\ Tail(<<a>>) = <<>> /\ Len(<<a>>) = 1
           /\ Head(<<a, b>>) = a /\ Tail(<<a, b>>) = <<b>> /\ Len(<<a, b>>) = 2
           /\ Head(<<a, b, c>>) = a /\ Tail(<<a, b, c>>) = <<b, c>> /\ Len(<<a, b, c>>) = 3
           /\ Head(<<a, b, c, d>>) = a /\ Tail(<<a, b, c, d>>) = <<b, c, d>> /\ Len(<<a, b, c, d>>) = 4
           /\ Head(<<a, b, c, d, e>>) = a /\ Tail(<<a, b, c, d, e>>) = <<b, c, d, e>> /\ Len(<<a, b, c, d, e>>) = 5
           /\ Head(<<a, b, c, d, e, f>>) = a /\ Tail(<<a, b, c, d, e, f>>) = <<b, c, d, e, f>> /\ Len(<<a, b, c, d, e, f>>) = 6
<1>1. Head(<<a>>) = a /\ Len(<<a>>) = 1
  OBVIOUS
<1>2. Tail(<<a>>) = <<>>
  OBVIOUS
<1>3. Head(<<a, b>>) = a /\ Len(<<a, b>>) = 2
  OBVIOUS
<1>4. Tail(<<a, b>>) = <<b>>
  OBVIOUS
<1>5. Head(<<a, b, c>>) = a /\ Len(<<a, b, c>>) = 3
  OBVIOUS
<1>6. Tail(<<a, b, c>>) = <<b, c>>
  OBVIOUS
<1>7. Head(<<a, b, c, d>>) = a /\ Len(<<a, b, c, d>>) = 4
  OBVIOUS
<1>8. Tail(<<a, b, c, d>>) = <<b, c, d>>
  OBVIOUS
<1>9. Head(<<a, b, c, d, e>>) = a /\ Len(<<a, b, c, d, e>>) = 5
  OBVIOUS
<1>10. Tail(<<a, b, c, d, e>>) = <<b, c, d, e>>
  OBVIOUS
<1>11. Head(<<a, b, c, d, e, f>>) = a /\ Len(<<a, b, c, d, e, f>>) = 6
  OBVIOUS
<1>12. Tail(<<a, b, c, d, e, f>>) = <<b, c, d, e, f>>
  OBVIOUS
<1> QED BY <1>1, <1>2, <1>3, <1>4, <1>5, <1>6, <1>7, <1>8, <1>9, <1>10, <1>11, <1>12

\* What is left of an upload: the step it is at, and what is left after it.
LEMMA LeftOfUpload ==
    ASSUME NEW s \in Left("upload")
    PROVE  /\ s # <<>>
           /\ Head(s) \in {"load", "ensure", "make", "policy", "put", "set", "clean",
                           "publish", "rollback"}
           /\ Len(s) = 1 <=> Head(s) \in {"publish", "rollback"}
           /\ Len(s) = 1 => Tail(s) = <<>>
           /\ Len(s) # 1 => Tail(s) \in Left("upload") /\ Head(Tail(s)) = After("upload", Head(s))
<1>1. CASE s = <<"load", "ensure", "put", "set", "clean", "publish">>
  <2>1. Head(s) = "load" /\ Len(s) = 6 /\ Tail(s) = <<"ensure", "put", "set", "clean", "publish">>
    BY <1>1, Rest
  <2>2. Head(<<"ensure", "put", "set", "clean", "publish">>) = "ensure" /\ After("upload", "load") = "ensure"
    BY Rest DEF After
  <2> QED BY <2>1, <2>2, <1>1, LeftFacts
<1>2. CASE s = <<"ensure", "put", "set", "clean", "publish">>
  <2>1. Head(s) = "ensure" /\ Len(s) = 5 /\ Tail(s) = <<"put", "set", "clean", "publish">>
    BY <1>2, Rest
  <2>2. Head(<<"put", "set", "clean", "publish">>) = "put" /\ After("upload", "ensure") = "put"
    BY Rest DEF After
  <2> QED BY <2>1, <2>2, <1>2, LeftFacts
<1>3. CASE s = <<"make", "policy", "put", "set", "clean", "publish">>
  <2>1. Head(s) = "make" /\ Len(s) = 6 /\ Tail(s) = <<"policy", "put", "set", "clean", "publish">>
    BY <1>3, Rest
  <2>2. Head(<<"policy", "put", "set", "clean", "publish">>) = "policy" /\ After("upload", "make") = "policy"
    BY Rest DEF After
  <2> QED BY <2>1, <2>2, <1>3, LeftFacts
<1>4. CASE s = <<"policy", "put", "set", "clean", "publish">>
  <2>1. Head(s) = "policy" /\ Len(s) = 5 /\ Tail(s) = <<"put", "set", "clean", "publish">>
    BY <1>4, Rest
  <2>2. Head(<<"put", "set", "clean", "publish">>) = "put" /\ After("upload", "policy") = "put"
    BY Rest DEF After
  <2> QED BY <2>1, <2>2, <1>4, LeftFacts
<1>5. CASE s = <<"put", "set", "clean", "publish">>
  <2>1. Head(s) = "put" /\ Len(s) = 4 /\ Tail(s) = <<"set", "clean", "publish">>
    BY <1>5, Rest
  <2>2. Head(<<"set", "clean", "publish">>) = "set" /\ After("upload", "put") = "set"
    BY Rest DEF After
  <2> QED BY <2>1, <2>2, <1>5, LeftFacts
<1>6. CASE s = <<"set", "clean", "publish">>
  <2>1. Head(s) = "set" /\ Len(s) = 3 /\ Tail(s) = <<"clean", "publish">>
    BY <1>6, Rest
  <2>2. Head(<<"clean", "publish">>) = "clean" /\ After("upload", "set") = "clean"
    BY Rest DEF After
  <2> QED BY <2>1, <2>2, <1>6, LeftFacts
<1>7. CASE s = <<"clean", "publish">>
  <2>1. Head(s) = "clean" /\ Len(s) = 2 /\ Tail(s) = <<"publish">>
    BY <1>7, Rest
  <2>2. Head(<<"publish">>) = "publish" /\ After("upload", "clean") = "publish"
    BY Rest DEF After
  <2> QED BY <2>1, <2>2, <1>7, LeftFacts
<1>8. CASE s = <<"publish">>
  <2>1. Head(s) = "publish" /\ Len(s) = 1 /\ Tail(s) = <<>>
    BY <1>8, Rest
  <2> QED BY <2>1, <1>8, LeftFacts
<1>9. CASE s = <<"rollback">>
  <2>1. Head(s) = "rollback" /\ Len(s) = 1 /\ Tail(s) = <<>>
    BY <1>9, Rest
  <2> QED BY <2>1, <1>9, LeftFacts
<1> QED BY <1>1, <1>2, <1>3, <1>4, <1>5, <1>6, <1>7, <1>8, <1>9, LeftFacts

\* The same for a removal.
LEMMA LeftOfRemove ==
    ASSUME NEW s \in Left("remove")
    PROVE  /\ s # <<>>
           /\ Head(s) \in {"load", "clear", "clean", "publish"}
           /\ Len(s) = 1 <=> Head(s) \in {"publish"}
           /\ Len(s) = 1 => Tail(s) = <<>>
           /\ Len(s) # 1 => Tail(s) \in Left("remove") /\ Head(Tail(s)) = After("remove", Head(s))
<1>1. CASE s = <<"load", "clear", "clean", "publish">>
  <2>1. Head(s) = "load" /\ Len(s) = 4 /\ Tail(s) = <<"clear", "clean", "publish">>
    BY <1>1, Rest
  <2>2. Head(<<"clear", "clean", "publish">>) = "clear" /\ After("remove", "load") = "clear"
    BY Rest DEF After
  <2> QED BY <2>1, <2>2, <1>1, LeftFacts
<1>2. CASE s = <<"clear", "clean", "publish">>
  <2>1. Head(s) = "clear" /\ Len(s) = 3 /\ Tail(s) = <<"clean", "publish">>
    BY <1>2, Rest
  <2>2. Head(<<"clean", "publish">>) = "clean" /\ After("remove", "clear") = "clean"
    BY Rest DEF After
  <2> QED BY <2>1, <2>2, <1>2, LeftFacts
<1>3. CASE s = <<"clean", "publish">>
  <2>1. Head(s) = "clean" /\ Len(s) = 2 /\ Tail(s) = <<"publish">>
    BY <1>3, Rest
  <2>2. Head(<<"publish">>) = "publish" /\ After("remove", "clean") = "publish"
    BY Rest DEF After
  <2> QED BY <2>1, <2>2, <1>3, LeftFacts
<1>4. CASE s = <<"publish">>
  <2>1. Head(s) = "publish" /\ Len(s) = 1 /\ Tail(s) = <<>>
    BY <1>4, Rest
  <2> QED BY <2>1, <1>4, LeftFacts
<1> QED BY <1>1, <1>2, <1>3, <1>4, LeftFacts

\* The same for a form.
LEMMA LeftOfForm ==
    ASSUME NEW s \in Left("form")
    PROVE  /\ s # <<>>
           /\ Head(s) \in {"load", "write"}
           /\ Len(s) = 1 <=> Head(s) \in {"write"}
           /\ Len(s) = 1 => Tail(s) = <<>>
           /\ Len(s) # 1 => Tail(s) \in Left("form") /\ Head(Tail(s)) = After("form", Head(s))
<1>1. CASE s = <<"load", "write">>
  <2>1. Head(s) = "load" /\ Len(s) = 2 /\ Tail(s) = <<"write">>
    BY <1>1, Rest
  <2>2. Head(<<"write">>) = "write" /\ After("form", "load") = "write"
    BY Rest DEF After
  <2> QED BY <2>1, <2>2, <1>1, LeftFacts
<1>2. CASE s = <<"write">>
  <2>1. Head(s) = "write" /\ Len(s) = 1 /\ Tail(s) = <<>>
    BY <1>2, Rest
  <2> QED BY <2>1, <1>2, LeftFacts
<1> QED BY <1>1, <1>2, LeftFacts

\* The same for a deletion.
LEMMA LeftOfDelete ==
    ASSUME NEW s \in Left("delete")
    PROVE  /\ s # <<>>
           /\ Head(s) \in {"hide"}
           /\ Len(s) = 1 <=> Head(s) \in {"hide"}
           /\ Len(s) = 1 => Tail(s) = <<>>
           /\ Len(s) # 1 => Tail(s) \in Left("delete") /\ Head(Tail(s)) = After("delete", Head(s))
<1>1. CASE s = <<"hide">>
  <2>1. Head(s) = "hide" /\ Len(s) = 1 /\ Tail(s) = <<>>
    BY <1>1, Rest
  <2> QED BY <2>1, <1>1, LeftFacts
<1> QED BY <1>1, LeftFacts

\* The script of a request.
LEMMA ScriptFacts ==
    ASSUME NEW r \in Request
    PROVE  /\ Script(r) \in Left(r.op) /\ Script(r) # <<>>
           /\ Head(Script(r)) \in {"load", "hide"}
<1>1. r.op \in {"upload", "remove", "form", "delete"}
  BY DEF Request, Ops
<1>2. CASE r.op = "upload"
  <2>1. Script(r) = <<"load", "ensure", "put", "set", "clean", "publish">>
    BY <1>2 DEF Script, SetCategoryPhoto, SetItemPhoto
  <2>2. Script(r) \in Left("upload")
    BY <2>1, LeftFacts
  <2>3. Head(Script(r)) = "load"
    BY <2>1, Rest
  <2> QED BY <1>2, <2>2, <2>3, LeftOfUpload
<1>3. CASE r.op = "remove"
  <2>1. Script(r) = <<"load", "clear", "clean", "publish">>
    BY <1>3 DEF Script, RemoveCategoryPhoto, RemoveItemPhoto
  <2>2. Script(r) \in Left("remove")
    BY <2>1, LeftFacts
  <2>3. Head(Script(r)) = "load"
    BY <2>1, Rest
  <2> QED BY <1>3, <2>2, <2>3, LeftOfRemove
<1>4. CASE r.op = "form"
  <2>1. Script(r) = <<"load", "write">>
    BY <1>4 DEF Script, SaveForm
  <2>2. Script(r) \in Left("form")
    BY <2>1, LeftFacts
  <2>3. Head(Script(r)) = "load"
    BY <2>1, Rest
  <2> QED BY <1>4, <2>2, <2>3, LeftOfForm
<1>5. CASE r.op = "delete"
  <2>1. Script(r) = <<"hide">>
    BY <1>5 DEF Script, DeleteRow
  <2>2. Script(r) \in Left("delete")
    BY <2>1, LeftFacts
  <2>3. Head(Script(r)) = "hide"
    BY <2>1, Rest
  <2> QED BY <1>5, <2>2, <2>3, LeftOfDelete
<1> QED BY <1>1, <1>2, <1>3, <1>4, <1>5

\* The two ways to check the bucket, in front of the upload.
LEMMA InFront ==
    /\ <<"policy">> \o <<"put", "set", "clean", "publish">>
          = <<"policy", "put", "set", "clean", "publish">>
    /\ <<"make", "policy">> \o <<"put", "set", "clean", "publish">>
          = <<"make", "policy", "put", "set", "clean", "publish">>
<1> DEFINE S == {"make", "policy", "put", "set", "clean", "publish"}
<1> DEFINE t == <<"put", "set", "clean", "publish">>
<1>1. <<"policy">> \o t = <<"policy", "put", "set", "clean", "publish">>
  <2> DEFINE a == <<"policy">> c == <<"policy", "put", "set", "clean", "publish">>
  <2>1. a \in Seq(S) /\ t \in Seq(S)
    OBVIOUS
  <2>2. c \in Seq(S)
    OBVIOUS
  <2>3. Len(a) = 1 /\ Len(t) = 4 /\ Len(c) = 5
    OBVIOUS
  <2>4. c[1] = a[1] /\ c[2] = t[1] /\ c[3] = t[2] /\ c[4] = t[3] /\ c[5] = t[4]
    OBVIOUS
  <2> HIDE DEF a, t, c
  <2>5. /\ a \o t \in Seq(S) /\ Len(a \o t) = 5
        /\ \A i \in 1..5 : (a \o t)[i] = IF i <= 1 THEN a[i] ELSE t[i - 1]
    <3>1. /\ a \o t \in Seq(S) /\ Len(a \o t) = Len(a) + Len(t)
          /\ \A i \in 1..(Len(a) + Len(t)) :
                (a \o t)[i] = IF i <= Len(a) THEN a[i] ELSE t[i - Len(a)]
      BY <2>1, ConcatProperties
    <3>2. Len(a) + Len(t) = 5
      BY <2>3
    <3> QED BY <2>3, <3>1, <3>2
  <2>6. \A i \in 1..5 : (a \o t)[i] = c[i]
    <3> SUFFICES ASSUME NEW i \in 1..5 PROVE (a \o t)[i] = c[i]
      OBVIOUS
    <3>1. i = 1 \/ i = 2 \/ i = 3 \/ i = 4 \/ i = 5
      OBVIOUS
    <3>2. (a \o t)[i] = IF i <= 1 THEN a[i] ELSE t[i - 1]
      BY <2>5
    <3>3. CASE i = 1
      BY <2>4, <3>2, <3>3
    <3>4. CASE i = 2
      BY <2>4, <3>2, <3>4
    <3>5. CASE i = 3
      BY <2>4, <3>2, <3>5
    <3>6. CASE i = 4
      BY <2>4, <3>2, <3>6
    <3>7. CASE i = 5
      BY <2>4, <3>2, <3>7
    <3> QED BY <3>1, <3>3, <3>4, <3>5, <3>6, <3>7
  <2>7. a \o t = c
    <3>1. Len(a \o t) = Len(c) /\ \A i \in 1..Len(a \o t) : (a \o t)[i] = c[i]
      BY <2>3, <2>5, <2>6
    <3> QED BY <2>2, <2>5, <3>1, SeqEqual
  <2> QED BY <2>7 DEF a, c
<1>2. <<"make", "policy">> \o t = <<"make", "policy", "put", "set", "clean", "publish">>
  <2> DEFINE a == <<"make", "policy">> c == <<"make", "policy", "put", "set", "clean", "publish">>
  <2>1. a \in Seq(S) /\ t \in Seq(S)
    OBVIOUS
  <2>2. c \in Seq(S)
    OBVIOUS
  <2>3. Len(a) = 2 /\ Len(t) = 4 /\ Len(c) = 6
    OBVIOUS
  <2>4. c[1] = a[1] /\ c[2] = a[2] /\ c[3] = t[1] /\ c[4] = t[2] /\ c[5] = t[3] /\ c[6] = t[4]
    OBVIOUS
  <2> HIDE DEF a, t, c
  <2>5. /\ a \o t \in Seq(S) /\ Len(a \o t) = 6
        /\ \A i \in 1..6 : (a \o t)[i] = IF i <= 2 THEN a[i] ELSE t[i - 2]
    <3>1. /\ a \o t \in Seq(S) /\ Len(a \o t) = Len(a) + Len(t)
          /\ \A i \in 1..(Len(a) + Len(t)) :
                (a \o t)[i] = IF i <= Len(a) THEN a[i] ELSE t[i - Len(a)]
      BY <2>1, ConcatProperties
    <3>2. Len(a) + Len(t) = 6
      BY <2>3
    <3> QED BY <2>3, <3>1, <3>2
  <2>6. \A i \in 1..6 : (a \o t)[i] = c[i]
    <3> SUFFICES ASSUME NEW i \in 1..6 PROVE (a \o t)[i] = c[i]
      OBVIOUS
    <3>1. i = 1 \/ i = 2 \/ i = 3 \/ i = 4 \/ i = 5 \/ i = 6
      OBVIOUS
    <3>2. (a \o t)[i] = IF i <= 2 THEN a[i] ELSE t[i - 2]
      BY <2>5
    <3>3. CASE i = 1
      BY <2>4, <3>2, <3>3
    <3>4. CASE i = 2
      BY <2>4, <3>2, <3>4
    <3>5. CASE i = 3
      BY <2>4, <3>2, <3>5
    <3>6. CASE i = 4
      BY <2>4, <3>2, <3>6
    <3>7. CASE i = 5
      BY <2>4, <3>2, <3>7
    <3>8. CASE i = 6
      BY <2>4, <3>2, <3>8
    <3> QED BY <3>1, <3>3, <3>4, <3>5, <3>6, <3>7, <3>8
  <2>7. a \o t = c
    <3>1. Len(a \o t) = Len(c) /\ \A i \in 1..Len(a \o t) : (a \o t)[i] = c[i]
      BY <2>3, <2>5, <2>6
    <3> QED BY <2>2, <2>5, <3>1, SeqEqual
  <2> QED BY <2>7 DEF a, c
<1> QED BY <1>1, <1>2

\* The check of the bucket in front of the rest of an upload.
LEMMA CheckedFirst ==
    ASSUME NEW s \in Left("upload"), Head(s) = "ensure"
    PROVE  /\ <<"make", "policy">> \o Tail(s) \in Left("upload")
           /\ Head(<<"make", "policy">> \o Tail(s)) = "make"
           /\ <<"policy">> \o Tail(s) \in Left("upload")
           /\ Head(<<"policy">> \o Tail(s)) = "policy"
<1>1. s = <<"ensure", "put", "set", "clean", "publish">>
  BY LeftFacts, Rest
<1>2. Tail(s) = <<"put", "set", "clean", "publish">>
  BY <1>1, Rest
<1>3. /\ Head(<<"policy", "put", "set", "clean", "publish">>) = "policy"
      /\ Head(<<"make", "policy", "put", "set", "clean", "publish">>) = "make"
  BY Rest
<1> QED BY <1>2, <1>3, InFront, LeftFacts

-----------------------------------------------------------------------------
(* The steps of a request.                                                 *)

\* q takes its step `from` and is then at `to`; the others stay.
Moved(q, from, to) ==
    /\ from # "none" /\ Stage(q) = from /\ Stage(q)' = to
    /\ outcome[q] = "running" /\ outcome'[q] # "idle"
    /\ todo'[q] # todo[q]
    /\ \A p \in Requests \ {q} : Stage(p)' = Stage(p) /\ outcome'[p] = outcome[p]

\* A request is at a step of its own script.
LEMMA StageFacts ==
    ASSUME Scripted, NEW q \in Requests
    PROVE  /\ Running(q) <=> Stage(q) # "none"
           /\ Stage(q) \in {"ensure", "make", "policy", "put", "set", "rollback"}
                => req[q].op = "upload"
           /\ Stage(q) = "clear" => req[q].op = "remove"
           /\ Stage(q) \in {"clean", "publish"} => req[q].op \in {"upload", "remove"}
           /\ Stage(q) = "write" => req[q].op = "form"
           /\ Stage(q) = "hide" => req[q].op = "delete"
<1>1. CASE ~Running(q)
  BY <1>1 DEF Stage
<1>2. CASE Running(q)
  <2>1. todo[q] \in Left(req[q].op) /\ req[q].op \in {"upload", "remove", "form", "delete"}
    BY <1>2 DEF Scripted, Request, Ops
  <2>2. Stage(q) = Head(todo[q])
    BY <1>2 DEF Stage
  <2>3. CASE req[q].op = "upload"
    BY <1>2, <2>1, <2>2, <2>3, LeftOfUpload
  <2>4. CASE req[q].op = "remove"
    BY <1>2, <2>1, <2>2, <2>4, LeftOfRemove
  <2>5. CASE req[q].op = "form"
    BY <1>2, <2>1, <2>2, <2>5, LeftOfForm
  <2>6. CASE req[q].op = "delete"
    BY <1>2, <2>1, <2>2, <2>6, LeftOfDelete
  <2> QED BY <2>1, <2>3, <2>4, <2>5, <2>6
<1> QED BY <1>1, <1>2

\* What can be left, of whatever script.
LEMMA ScriptsFacts ==
    /\ <<>> \in Scripts
    /\ \A op \in Ops : \A s \in Left(op) : s \in Scripts
<1>1. <<>> \in Scripts
  BY DEF Scripts
<1>2. ASSUME NEW op \in Ops, NEW s \in Left(op) PROVE s \in Scripts
  <2>1. s \in UNION {Left(o) : o \in Ops}
    BY ZenonT(30)
  <2> QED BY <2>1 DEF Scripts
<1> QED BY <1>1, <1>2

\* What is left of any script.
LEMMA LeftOfAny ==
    ASSUME NEW op \in Ops, NEW s \in Left(op)
    PROVE  /\ s # <<>> /\ s \in Scripts /\ <<>> \in Scripts
           /\ Head(s) # "none"
           /\ Len(s) = 1 => Tail(s) = <<>> /\ After(op, Head(s)) = "none"
           /\ Len(s) # 1 => Tail(s) \in Left(op) /\ Head(Tail(s)) = After(op, Head(s))
<1>1. s \in Scripts /\ <<>> \in Scripts
  BY ScriptsFacts
<1>2. op \in {"upload", "remove", "form", "delete"}
  BY DEF Ops
<1>3. CASE op = "upload"
  BY <1>1, <1>3, LeftOfUpload DEF After
<1>4. CASE op = "remove"
  BY <1>1, <1>4, LeftOfRemove DEF After
<1>5. CASE op = "form"
  BY <1>1, <1>5, LeftOfForm DEF After
<1>6. CASE op = "delete"
  BY <1>1, <1>6, LeftOfDelete DEF After
<1> QED BY <1>2, <1>3, <1>4, <1>5, <1>6

\* A request whose script is rewritten, in three ways: the next step, the end,
\* another rest of the same script.
LEMMA Rewritten ==
    ASSUME Scripted, NEW q \in Requests, Running(q), req' = req,
           NEW s \in Scripts, NEW o \in {"running", "ok", "failed"},
           IF o = "running" THEN s \in Left(req[q].op) /\ s # todo[q] ELSE s = <<>>,
           todo' = [todo EXCEPT ![q] = s],
           outcome' = [outcome EXCEPT ![q] = o]
    PROVE  /\ Scripted'
           /\ Moved(q, Stage(q), IF o = "running" THEN Head(s) ELSE "none")
           /\ outcome'[q] = o
<1>1. todo' \in [Requests -> Scripts] /\ todo'[q] = s
      /\ \A p \in Requests \ {q} : todo'[p] = todo[p]
  BY DEF Scripted
<1>2. outcome' \in [Requests -> {"idle", "running", "ok", "failed"}] /\ outcome'[q] = o
      /\ \A p \in Requests \ {q} : outcome'[p] = outcome[p]
  BY DEF Scripted
<1>3. todo[q] \in Left(req[q].op) /\ todo[q] # <<>>
  BY LeftOfAny DEF Scripted, Request
<1>4. \A p \in Requests : (IF Running(p) THEN todo[p] \in Left(req[p].op) ELSE todo[p] = <<>>)'
  BY <1>1, <1>2 DEF Scripted, Running
<1>5. Scripted'
  BY <1>1, <1>2, <1>4 DEF Scripted
<1>6. Stage(q)' = IF o = "running" THEN Head(s) ELSE "none"
  BY <1>1, <1>2 DEF Stage, Running
<1>7. \A p \in Requests \ {q} : Stage(p)' = Stage(p)
  BY <1>1, <1>2 DEF Stage, Running
<1>8. todo'[q] # todo[q]
  BY <1>1, <1>3
<1>9. Stage(q) # "none" /\ outcome[q] = "running"
  BY StageFacts DEF Running
<1> QED BY <1>2, <1>5, <1>6, <1>7, <1>8, <1>9 DEF Moved

LEMMA ContinueMoves ==
    ASSUME Scripted, NEW q \in Requests, NEW step, At(q, step), Continue(q), req' = req
    PROVE  Scripted' /\ Moved(q, step, After(req[q].op, step))
<1>1. Stage(q) = step /\ Running(q) /\ Head(todo[q]) = step
  BY DEF At, Stage
<1>2. todo[q] \in Left(req[q].op) /\ req[q].op \in Ops
  BY <1>1 DEF Scripted, Request
<1>3. CASE Len(todo[q]) = 1
  <2>1. Tail(todo[q]) = <<>> /\ After(req[q].op, step) = "none" /\ <<>> \in Scripts
    BY <1>1, <1>2, <1>3, LeftOfAny
  <2>2. /\ todo' = [todo EXCEPT ![q] = <<>>]
        /\ outcome' = [outcome EXCEPT ![q] = "ok"]
    BY <1>3, <2>1 DEF Continue
  <2>3. Scripted' /\ Moved(q, Stage(q), "none")
    BY <1>1, <2>1, <2>2, Rewritten
  <2> QED BY <1>1, <2>1, <2>3
<1>4. CASE Len(todo[q]) # 1
  <2>1. /\ Tail(todo[q]) \in Left(req[q].op) /\ Head(Tail(todo[q])) = After(req[q].op, step)
        /\ Tail(todo[q]) \in Scripts
    BY <1>1, <1>2, <1>4, LeftOfAny
  <2>2. /\ todo' = [todo EXCEPT ![q] = Tail(todo[q])]
        /\ outcome' = [outcome EXCEPT ![q] = "running"]
    BY <1>1, <1>4 DEF Continue, Running, Scripted
  <2>3. Tail(todo[q]) # todo[q]
    <3>1. Head(Tail(todo[q])) # Head(todo[q])
      BY <1>1, <2>1, <1>2, LeftOfAny DEF After
    <3> QED BY <3>1
  <2>4. Scripted' /\ Moved(q, Stage(q), Head(Tail(todo[q])))
    BY <1>1, <2>1, <2>2, <2>3, Rewritten
  <2> QED BY <1>1, <2>1, <2>4
<1> QED BY <1>3, <1>4

LEMMA FailMoves ==
    ASSUME Scripted, NEW q \in Requests, NEW step, At(q, step), Fail(q), req' = req
    PROVE  Scripted' /\ Moved(q, step, "none") /\ outcome'[q] = "failed"
<1>1. Stage(q) = step /\ Running(q)
  BY DEF At, Stage
<1>2. <<>> \in Scripts
  BY ScriptsFacts
<1> QED BY <1>1, <1>2, Rewritten DEF Fail

LEMMA RollbackMoves ==
    ASSUME Scripted, NEW q \in Requests, At(q, "set"), Rollback(q), req' = req
    PROVE  Scripted' /\ Moved(q, "set", "rollback")
<1>1. Stage(q) = "set" /\ Running(q) /\ Head(todo[q]) = "set"
  BY DEF At, Stage
<1>2. req[q].op = "upload"
  BY <1>1, StageFacts
<1>3. <<"rollback">> \in Left("upload") /\ <<"rollback">> \in Scripts
      /\ Head(<<"rollback">>) = "rollback"
  BY LeftFacts, Rest DEF Scripts, Ops
<1>4. <<"rollback">> # todo[q]
  BY <1>1, <1>3
<1>5. outcome' = [outcome EXCEPT ![q] = "running"]
  BY <1>1 DEF Rollback, Running, Scripted
<1>6. Scripted' /\ Moved(q, Stage(q), Head(<<"rollback">>))
  BY <1>1, <1>2, <1>3, <1>4, <1>5, Rewritten DEF Rollback
<1> QED BY <1>1, <1>3, <1>6

LEMMA CheckMoves ==
    ASSUME Scripted, NEW q \in Requests, At(q, "ensure"), req' = req, outcome' = outcome,
           todo' = [todo EXCEPT ![q] = IF bucket = "none"
                                       THEN <<"make", "policy">> \o Tail(@)
                                       ELSE <<"policy">> \o Tail(@)]
    PROVE  Scripted' /\ Moved(q, "ensure", IF bucket = "none" THEN "make" ELSE "policy")
<1>1. Stage(q) = "ensure" /\ Running(q) /\ Head(todo[q]) = "ensure"
  BY DEF At, Stage
<1>2. req[q].op = "upload"
  BY <1>1, StageFacts
<1>3. todo[q] \in Left("upload")
  BY <1>1, <1>2 DEF Scripted
<1> DEFINE s == IF bucket = "none" THEN <<"make", "policy">> \o Tail(todo[q])
                                   ELSE <<"policy">> \o Tail(todo[q])
           to == IF bucket = "none" THEN "make" ELSE "policy"
<1>4. s \in Left("upload") /\ Head(s) = to
  BY <1>1, <1>3, CheckedFirst
<1>5. todo' = [todo EXCEPT ![q] = s]
  OBVIOUS
<1>6. outcome' = [outcome EXCEPT ![q] = "running"]
  BY <1>1 DEF Running, Scripted
<1>7. to # "ensure"
  OBVIOUS
<1> HIDE DEF s, to
<1>8. s \in Scripts /\ s # todo[q]
  BY <1>1, <1>4, <1>7, ScriptsFacts DEF Ops
<1>9. Scripted' /\ Moved(q, Stage(q), Head(s))
  BY <1>1, <1>2, <1>4, <1>5, <1>6, <1>8, Rewritten
<1> QED BY <1>1, <1>4, <1>9 DEF to

\* What q has recorded stays recorded when q goes on.
LEMMA PastStays ==
    ASSUME NEW q \in Requests, NEW from, NEW to, Moved(q, from, to),
           from \notin Before => to \notin Before
    PROVE  \A p \in Requests : Past(p) => Past(p)'
BY DEF Moved, Past

\* A request that failed stays failed, and one that runs ran before.
LEMMA OutcomesStay ==
    ASSUME Scripted, Scripted', NEW q \in Requests, NEW from, NEW to, Moved(q, from, to)
    PROVE  /\ \A p \in Requests : outcome[p] = "failed" => outcome'[p] = "failed"
           /\ \A p \in Requests : Running(p)' => Running(p)
BY DEF Moved, Running

-----------------------------------------------------------------------------
(* What a step leaves alone.                                               *)

LEMMA HomesStay ==
    ASSUME Homes, req' = req, image' = image, old' = old,
           \A p \in Requests : Past(p) => Past(p)'
    PROVE  Homes'
BY DEF Homes

LEMMA OrderedStays ==
    ASSUME Ordered, image' = image, old' = old, objects \subseteq objects',
           NEW q \in Requests, NEW from, NEW to, Moved(q, from, to),
           to \notin {"set", "clean"}
    PROVE  Ordered'
<1> SUFFICES ASSUME NEW p \in Requests
             PROVE  /\ Stage(p)' = "set" => p \in objects'
                    /\ Stage(p)' = "clean" /\ old[p] \in Keys => \A e \in Rows : image[e] # old[p]
  BY DEF Ordered
<1>1. Stage(p)' \in {"set", "clean"} => Stage(p) = Stage(p)'
  BY DEF Moved
<1> QED BY <1>1 DEF Ordered

LEMMA CheckedStays ==
    ASSUME Checked, bucket' = bucket, once' = once, ensureErr' = ensureErr,
           NEW q \in Requests, NEW from, NEW to, Moved(q, from, to),
           to \notin {"make", "policy"}, to \in {"put", "set"} => bucket = "public"
    PROVE  Checked'
<1>1. \A p \in Requests : Stage(p)' \in {"make", "policy"} => Stage(p) = Stage(p)'
  BY DEF Moved
<1>2. \A p \in Requests : Stage(p)' \in {"put", "set"} => bucket = "public"
  BY DEF Moved, Checked
<1> QED BY <1>1, <1>2 DEF Checked

LEMMA AnnouncedStays ==
    ASSUME Announced, req' = req, untold' = untold, faults' \in Nat, faults \in Nat,
           faults' >= faults,
           NEW q \in Requests, NEW from, NEW to, Moved(q, from, to),
           from \notin {"clean", "publish"}
    PROVE  Announced'
<1>1. \A p \in Requests : Stage(p) \in {"clean", "publish"} => Stage(p)' = Stage(p)
  BY DEF Moved
<1>2. faults > 0 => faults' > 0
  OBVIOUS
<1> QED BY <1>1, <1>2 DEF Announced

LEMMA LoadedStays ==
    ASSUME Loaded, req' = req, image' = image, old' = old, beside' = beside,
           \A p \in Requests : Running(p)' => Running(p),
           NEW q \in Requests, NEW from, NEW to, Moved(q, from, to),
           to \in Before \ {"load"} => from \in Before \ {"load"}
    PROVE  Loaded'
<1>1. \A p \in Requests : Stage(p)' \in Before \ {"load"} => Stage(p) \in Before \ {"load"}
  BY DEF Moved
<1>2. \A p \in Requests : ForPhotos(p)' <=> ForPhotos(p)
  BY DEF ForPhotos
<1> QED BY <1>1, <1>2 DEF Loaded

LEMMA PointsStay ==
    ASSUME PointsAtObject, image' = image, objects \subseteq objects',
           \A p \in Requests : outcome[p] = "failed" => outcome'[p] = "failed"
    PROVE  PointsAtObject'
BY DEF PointsAtObject

LEMMA AccountedStay ==
    ASSUME \A k \in objects : Accounted(k), image' = image, old' = old, beside' = beside,
           objects' \subseteq objects, faults' \in Nat, faults \in Nat, faults' >= faults,
           NEW q \in Requests, NEW from, NEW to, Moved(q, from, to),
           from \notin {"set", "rollback", "clean"}
    PROVE  (\A k \in objects : Accounted(k))'
<1>1. \A p \in Requests : Stage(p) \in {"set", "rollback", "clean"} => Stage(p)' = Stage(p)
  BY DEF Moved
<1>2. faults > 0 => faults' > 0
  OBVIOUS
<1> SUFFICES ASSUME NEW k \in objects' PROVE Accounted(k)'
  OBVIOUS
<1>3. Accounted(k)
  OBVIOUS
<1> QED BY <1>1, <1>2, <1>3 DEF Accounted

\* A step that changes no row and no object.
LEMMA QuietStep ==
    ASSUME IInv, UNCHANGED <<req, old, image, untold, objects, beside>>,
           Scripted', Types', Checked', PhotoServed', faults' >= faults,
           NEW q \in Requests, NEW from, NEW to, Moved(q, from, to),
           from \in {"load", "ensure", "make", "policy", "put", "set", "clear", "write", "hide"},
           from = "set" => to = "rollback",
           to \in {"make", "policy", "put", "rollback", "write", "none"},
           from \in {"load", "write", "hide"} => to = "none"
    PROVE  IInv'
<1>1. from \notin Before => to \notin Before
  BY DEF Before
<1>2. \A p \in Requests : Past(p) => Past(p)'
  BY <1>1, PastStays
<1>3. /\ \A p \in Requests : outcome[p] = "failed" => outcome'[p] = "failed"
      /\ \A p \in Requests : Running(p)' => Running(p)
  BY OutcomesStay DEF IInv
<1>4. faults \in Nat /\ faults' \in Nat
  BY PhotosAssumption DEF IInv, Types
<1>5. Homes'
  BY <1>2, HomesStay DEF IInv
<1>6. Ordered'
  BY OrderedStays DEF IInv
<1>7. Announced'
  BY <1>4, AnnouncedStays DEF IInv
<1>8. to \in Before \ {"load"} => from \in Before \ {"load"}
  BY DEF Before
<1>9. Loaded'
  BY <1>3, <1>8, LoadedStays DEF IInv
<1>10. PointsAtObject'
  BY <1>3, PointsStay DEF IInv
<1>11. (\A k \in objects : Accounted(k))'
  <2>1. CASE from # "set"
    <3>1. from \notin {"set", "rollback", "clean"}
      BY <2>1
    <3> QED BY <1>4, <3>1, AccountedStay DEF IInv
  <2>2. CASE from = "set"
    <3>1. \A p \in Requests : Stage(p) \in {"set", "rollback"} => Stage(p)' \in {"set", "rollback"}
      BY <2>2 DEF Moved
    <3>2. \A p \in Requests : Stage(p) = "clean" => Stage(p)' = "clean"
      BY <2>2 DEF Moved
    <3>3. faults > 0 => faults' > 0
      BY <1>4
    <3> SUFFICES ASSUME NEW k \in objects' PROVE Accounted(k)'
      OBVIOUS
    <3>4. Accounted(k)
      BY DEF IInv
    <3> QED BY <3>1, <3>2, <3>3, <3>4 DEF Accounted
  <2> QED BY <2>1, <2>2
<1> QED BY <1>5, <1>6, <1>7, <1>9, <1>10, <1>11 DEF IInv

-----------------------------------------------------------------------------
(* The steps that change no row's image and no object.                     *)

LEMMA FaultCounts ==
    ASSUME Types, Fault \/ NoFault
    PROVE  /\ faults' \in 0..MaxFaults /\ faults' \in Nat /\ faults \in Nat
           /\ faults' >= faults /\ (Fault => faults' > 0)
BY PhotosAssumption DEF Types, Fault, NoFault

LEMMA WriteStep ==
    ASSUME IInv, NEW q \in Requests, Write(q)
    PROVE  IInv'
<1>1. /\ At(q, "write") /\ (Continue(q) \/ Fail(q))
      /\ UNCHANGED <<req, old, rowVars, storeVars, beside, faults>>
  BY DEF Write
<1>2. Scripted' /\ Moved(q, "write", "none")
  BY <1>1, ContinueMoves, FailMoves DEF IInv, After
<1>3. Types' /\ PhotoServed'
  BY <1>1 DEF IInv, Types, rowVars, storeVars, PhotoServed
<1>4. Checked'
  BY <1>1, <1>2, CheckedStays DEF IInv, storeVars
<1>5. faults' >= faults
  BY <1>1, PhotosAssumption DEF IInv, Types
<1> QED BY <1>1, <1>2, <1>3, <1>4, <1>5, QuietStep DEF rowVars, storeVars

LEMMA HideStep ==
    ASSUME IInv, NEW q \in Requests, Hide(q)
    PROVE  IInv'
<1>1. /\ At(q, "hide") /\ (Continue(q) \/ Fail(q))
      /\ live' = live \ {req[q].on}
      /\ UNCHANGED <<req, old, image, untold, storeVars, beside, faults>>
  BY DEF Hide
<1>2. Scripted' /\ Moved(q, "hide", "none")
  BY <1>1, ContinueMoves, FailMoves DEF IInv, After
<1>3. Types' /\ PhotoServed'
  BY <1>1 DEF IInv, Types, storeVars, PhotoServed
<1>4. Checked'
  BY <1>1, <1>2, CheckedStays DEF IInv, storeVars
<1>5. faults' >= faults
  BY <1>1, PhotosAssumption DEF IInv, Types
<1> QED BY <1>1, <1>2, <1>3, <1>4, <1>5, QuietStep DEF storeVars

\* The first to check the bucket; nobody else does then.
LEMMA BucketExistsStep ==
    ASSUME IInv, NEW q \in Requests, BucketExists(q)
    PROVE  IInv'
<1> USE DEF storeVars, rowVars
<1>1. /\ At(q, "ensure") /\ once = "new"
      /\ UNCHANGED <<req, old, rowVars, objects, bucket, beside>>
  BY DEF BucketExists
<1>2. PhotoServed'
  BY <1>1 DEF IInv, PhotoServed
<1>3. \A p \in Requests : Stage(p) \notin {"make", "policy"}
  BY <1>1 DEF IInv, Checked
<1>4. CASE NoFault /\ once' = "running" /\ ensureErr' = ensureErr /\ outcome' = outcome
           /\ todo' = [todo EXCEPT ![q] = IF bucket = "none"
                                          THEN <<"make", "policy">> \o Tail(@)
                                          ELSE <<"policy">> \o Tail(@)]
  <2> DEFINE to == IF bucket = "none" THEN "make" ELSE "policy"
  <2>1. Scripted' /\ Moved(q, "ensure", to)
    BY <1>1, <1>4, CheckMoves DEF IInv
  <2>2. to \in {"make", "policy"} /\ (to = "make" => bucket = "none")
    OBVIOUS
  <2> HIDE DEF to
  <2>3. Types' /\ faults' >= faults
    BY <1>1, <1>4, FaultCounts DEF IInv, Types
  <2>4. \A p \in Requests : /\ Stage(p)' \in {"make", "policy"} => p = q
                            /\ Stage(p)' = "make" => bucket = "none"
                            /\ Stage(p)' \in {"put", "set"} => Stage(p) = Stage(p)'
    BY <1>3, <2>1, <2>2 DEF Moved
  <2>5. Checked'
    BY <1>1, <1>4, <2>4 DEF IInv, Checked
  <2> QED BY <1>1, <1>2, <2>1, <2>2, <2>3, <2>5, QuietStep
<1>5. CASE Fault /\ Broken(q)
  <2>1. Scripted' /\ Moved(q, "ensure", "none")
    BY <1>1, <1>5, FailMoves DEF IInv, Broken
  <2>2. Types' /\ faults' >= faults
    BY <1>1, <1>5, FaultCounts DEF IInv, Types, Broken
  <2>3. \A p \in Requests : Stage(p)' \in {"make", "policy", "put", "set"} => Stage(p) = Stage(p)'
    BY <2>1 DEF Moved
  <2>4. Checked'
    BY <1>1, <1>3, <1>5, <2>3 DEF IInv, Checked, Broken
  <2> QED BY <1>1, <1>2, <2>1, <2>2, <2>4, QuietStep
<1> QED BY <1>4, <1>5 DEF BucketExists

LEMMA MakeBucketStep ==
    ASSUME IInv, NEW q \in Requests, MakeBucket(q)
    PROVE  IInv'
<1> USE DEF storeVars, rowVars
<1>1. /\ At(q, "make") /\ Stage(q) = "make"
      /\ UNCHANGED <<req, old, rowVars, objects, beside>>
  BY DEF MakeBucket, At, Stage
<1>2. bucket = "none" /\ once = "running"
      /\ \A p \in Requests : Stage(p) \in {"make", "policy"} => p = q
  BY <1>1 DEF IInv, Checked
<1>3. \A p \in Requests : Stage(p) \notin {"put", "set"}
  BY <1>2 DEF IInv, Checked
<1>4. PhotoServed'
  BY <1>1, <1>2 DEF IInv, PhotoServed
<1>5. CASE NoFault /\ Continue(q) /\ bucket' = "private" /\ UNCHANGED <<once, ensureErr>>
  <2>1. Scripted' /\ Moved(q, "make", "policy")
    BY <1>1, <1>5, ContinueMoves DEF IInv, After
  <2>2. Types' /\ faults' >= faults
    BY <1>1, <1>5, FaultCounts DEF IInv, Types
  <2>3. \A p \in Requests : /\ Stage(p)' \in {"make", "policy"} => p = q
                            /\ Stage(p)' \notin {"make", "put", "set"}
    BY <1>2, <1>3, <2>1 DEF Moved
  <2>4. Checked'
    BY <1>1, <1>2, <1>5, <2>3 DEF IInv, Checked
  <2> QED BY <1>1, <1>4, <2>1, <2>2, <2>4, QuietStep
<1>6. CASE Fault /\ Broken(q) /\ bucket' \in {bucket, "private"}
  <2>1. Scripted' /\ Moved(q, "make", "none")
    BY <1>1, <1>6, FailMoves DEF IInv, Broken
  <2>2. Types' /\ faults' >= faults
    BY <1>1, <1>6, FaultCounts DEF IInv, Types, Broken
  <2>3. \A p \in Requests : Stage(p)' \notin {"make", "policy", "put", "set"}
    BY <1>2, <1>3, <2>1 DEF Moved
  <2>4. Checked'
    BY <1>6, <2>3 DEF Checked, Broken
  <2> QED BY <1>1, <1>4, <2>1, <2>2, <2>4, QuietStep
<1> QED BY <1>5, <1>6 DEF MakeBucket

LEMMA SetBucketPolicyStep ==
    ASSUME IInv, NEW q \in Requests, SetBucketPolicy(q)
    PROVE  IInv'
<1> USE DEF storeVars, rowVars
<1>1. /\ At(q, "policy") /\ Stage(q) = "policy"
      /\ UNCHANGED <<req, old, rowVars, objects, beside>>
      /\ bucket' \in {bucket, "public"}
  BY DEF SetBucketPolicy, At, Stage
<1>2. \A p \in Requests : Stage(p) \in {"make", "policy"} => p = q
  BY <1>1 DEF IInv, Checked
<1>3. \A p \in Requests : Stage(p) \in {"put", "set"} => bucket' = "public"
  BY <1>1 DEF IInv, Checked
<1>4. PhotoServed'
  BY <1>1 DEF IInv, PhotoServed
<1>5. CASE NoFault /\ Continue(q) /\ bucket' = "public" /\ once' = "done" /\ ensureErr' = ensureErr
  <2>1. Scripted' /\ Moved(q, "policy", "put")
    BY <1>1, <1>5, ContinueMoves DEF IInv, After
  <2>2. Types' /\ faults' >= faults
    BY <1>1, <1>5, FaultCounts DEF IInv, Types
  <2>3. \A p \in Requests : Stage(p)' \notin {"make", "policy"}
    BY <1>2, <2>1 DEF Moved
  <2>4. Checked'
    BY <1>5, <2>3 DEF Checked
  <2> QED BY <1>1, <1>4, <2>1, <2>2, <2>4, QuietStep
<1>6. CASE Fault /\ Broken(q)
  <2>1. Scripted' /\ Moved(q, "policy", "none")
    BY <1>1, <1>6, FailMoves DEF IInv, Broken
  <2>2. Types' /\ faults' >= faults
    BY <1>1, <1>6, FaultCounts DEF IInv, Types, Broken
  <2>3. \A p \in Requests : /\ Stage(p)' \notin {"make", "policy"}
                            /\ Stage(p)' \in {"put", "set"} => Stage(p) = Stage(p)'
    BY <1>2, <2>1 DEF Moved
  <2>4. Checked'
    BY <1>3, <1>6, <2>3 DEF Checked, Broken
  <2> QED BY <1>1, <1>4, <2>1, <2>2, <2>4, QuietStep
<1> QED BY <1>5, <1>6 DEF SetBucketPolicy

LEMMA EnsuredStep ==
    ASSUME IInv, NEW q \in Requests, Ensured(q)
    PROVE  IInv'
<1> USE DEF storeVars, rowVars
<1>1. /\ At(q, "ensure") /\ once = "done"
      /\ IF ensureErr THEN Fail(q) ELSE Continue(q)
      /\ UNCHANGED <<req, old, rowVars, storeVars, beside, faults>>
  BY DEF Ensured
<1>2. Types' /\ PhotoServed'
  BY <1>1 DEF IInv, Types, PhotoServed
<1>3. faults' >= faults
  BY <1>1, PhotosAssumption DEF IInv, Types
<1>4. Scripted' /\ Moved(q, "ensure", IF ensureErr THEN "none" ELSE "put")
  BY <1>1, ContinueMoves, FailMoves DEF IInv, After
<1>5. ~ensureErr => bucket = "public"
  BY <1>1 DEF IInv, Checked
<1> DEFINE to == IF ensureErr THEN "none" ELSE "put"
<1>6. to \in {"none", "put"} /\ (to = "put" => bucket = "public") /\ Moved(q, "ensure", to)
  BY <1>4, <1>5
<1> HIDE DEF to
<1>7. Checked'
  BY <1>1, <1>6, CheckedStays DEF IInv
<1> QED BY <1>1, <1>2, <1>3, <1>4, <1>6, <1>7, QuietStep

-----------------------------------------------------------------------------
(* The steps that read and write the image of a row.                       *)

\* A loaded image is the row's own: no other row has it, and its uploader,
\* if it has one, is past recording it.
LEMMA LoadStep ==
    ASSUME IInv, NEW q \in Requests, Load(q)
    PROVE  IInv'
<1> USE DEF storeVars, rowVars
<1>1. /\ At(q, "load") /\ Stage(q) = "load"
      /\ UNCHANGED <<req, rowVars, storeVars, beside, faults>>
  BY DEF Load, At, Stage
<1>2. PhotoServed'
  BY <1>1 DEF IInv, PhotoServed
<1>3. faults' >= faults /\ faults \in Nat /\ faults' \in Nat
  BY <1>1, PhotosAssumption DEF IInv, Types
<1>4. CASE Fail(q) /\ old' = old
  <2>1. Scripted' /\ Moved(q, "load", "none")
    BY <1>1, <1>4, FailMoves DEF IInv
  <2>2. Types'
    BY <1>1, <1>4 DEF IInv, Types
  <2>3. Checked'
    BY <1>1, <2>1, CheckedStays DEF IInv
  <2> QED BY <1>1, <1>2, <1>3, <1>4, <2>1, <2>2, <2>3, QuietStep
<1>5. CASE Continue(q) /\ old' = [old EXCEPT ![q] = image[req[q].on]]
  <2> DEFINE e0 == req[q].on
             to == After(req[q].op, "load")
  <2>1. Scripted' /\ Moved(q, "load", to)
    BY <1>1, <1>5, ContinueMoves DEF IInv
  <2>2. to \in {"ensure", "clear", "write"}
    BY DEF After
  <2>3. e0 \in Rows
    BY DEF IInv, Scripted, Request
  <2> HIDE DEF to, e0
  <2>4. /\ old' \in [Requests -> Keys \cup {Link, None}]
        /\ old'[q] = image[e0] /\ \A p \in Requests \ {q} : old'[p] = old[p]
    BY <1>5, <2>3 DEF IInv, Types, e0
  <2>5. Types'
    BY <1>1, <2>4 DEF IInv, Types
  <2>6. /\ \A p \in Requests : Past(p) => Past(p)'
        /\ ~Past(q)
    BY <1>1, <2>1, PastStays DEF Before, Past
  <2>7. /\ \A p \in Requests : outcome[p] = "failed" => outcome'[p] = "failed"
        /\ \A p \in Requests : Running(p)' => Running(p)
    BY <2>1, OutcomesStay DEF IInv
  <2>8. Homes'
    <3>1. (\A e \in Rows : image[e] \in Requests => req[image[e]].on = e /\ Past(image[e]))'
      BY <1>1, <2>6 DEF IInv, Homes
    <3>2. (\A p \in Requests : old[p] \in Requests =>
              req[old[p]].on = req[p].on /\ Past(old[p]) /\ old[p] # p)'
      <4> SUFFICES ASSUME NEW p \in Requests, old'[p] \in Requests
                   PROVE  req[old'[p]].on = req[p].on /\ Past(old'[p]) /\ old'[p] # p
        BY <1>1, <2>6
      <4>1. CASE p = q
        BY <2>3, <2>4, <2>6, <4>1 DEF IInv, Homes, e0
      <4>2. CASE p # q
        BY <2>4, <4>2 DEF IInv, Homes
      <4> QED BY <4>1, <4>2
    <3>3. \A p \in Requests, d \in Rows :
             d # req'[p].on /\ old'[p] \in Stored => image'[d] # old'[p]
      <4> SUFFICES ASSUME NEW p \in Requests, NEW d \in Rows, d # req[p].on, old'[p] \in Stored
                   PROVE  image[d] # old'[p]
        BY <1>1
      <4>1. CASE p = q
        BY <2>3, <2>4, <4>1 DEF IInv, Homes, e0
      <4>2. CASE p # q
        BY <2>4, <4>2 DEF IInv, Homes
      <4> QED BY <4>1, <4>2
    <3> QED BY <1>1, <3>1, <3>2, <3>3 DEF IInv, Homes
  <2>9. \A p \in Requests : Stage(p)' \in {"set", "clean"} => p # q /\ Stage(p) = Stage(p)'
    BY <2>1, <2>2 DEF Moved
  <2>10. Ordered'
    BY <1>1, <2>4, <2>9 DEF IInv, Ordered
  <2>11. Checked'
    BY <1>1, <2>1, <2>2, CheckedStays DEF IInv
  <2>12. Announced'
    BY <1>1, <1>3, <2>1, AnnouncedStays DEF IInv
  <2>13. Loaded'
    <3>1. \A p \in Requests : Stage(p)' \in Before \ {"load"} =>
             p = q \/ (p # q /\ Stage(p) \in Before \ {"load"})
      BY <2>1 DEF Moved
    <3>2. \A p \in Requests : ForPhotos(p)' <=> ForPhotos(p)
      BY <1>1 DEF ForPhotos
    <3>3. \A p \in Requests :
             Stage(p)' \in Before \ {"load"} /\ image'[req'[p].on] \in Keys
                => \/ old'[p] = image'[req'[p].on]
                   \/ image'[req'[p].on] \in Requests /\ {p, image'[req'[p].on]} \in beside'
      BY <1>1, <2>4, <3>1 DEF IInv, Loaded, e0
    <3> QED BY <1>1, <2>7, <3>2, <3>3 DEF IInv, Loaded
  <2>14. PointsAtObject'
    BY <1>1, <2>7, PointsStay DEF IInv
  <2>15. (\A k \in objects : Accounted(k))'
    <3>1. \A p \in Requests : Stage(p) \in {"set", "rollback", "clean"} =>
             p # q /\ Stage(p)' = Stage(p)
      BY <1>1, <2>1 DEF Moved
    <3> SUFFICES ASSUME NEW k \in objects' PROVE Accounted(k)'
      OBVIOUS
    <3>2. Accounted(k)
      BY <1>1 DEF IInv
    <3> QED BY <1>1, <2>4, <3>1, <3>2 DEF Accounted
  <2> QED BY <1>2, <2>1, <2>5, <2>8, <2>10, <2>11, <2>12, <2>13, <2>14, <2>15 DEF IInv
<1> QED BY <1>4, <1>5 DEF Load

\* A request for a photo writes the image columns of its row: the image that
\* was there is the one it loaded, or that of a request beside it.
LEMMA PointStep ==
    ASSUME IInv, NEW q \in Requests, NEW i, NEW from, NEW to, Point(q, i),
           (from = "set" /\ i = q) \/ (from = "clear" /\ i = None),
           Scripted', Moved(q, from, to), to \in {"clean", "rollback", "none"},
           to # "clean" => faults' > 0,
           faults' \in 0..MaxFaults, faults' \in Nat, faults \in Nat, faults' >= faults,
           UNCHANGED <<req, old, live, storeVars, beside>>
    PROVE  IInv'
<1> USE DEF storeVars
<1> DEFINE e0 == req[q].on
<1>1. e0 \in Rows /\ i \in Requests \cup {None} /\ None \notin Keys /\ i \notin Stored
      /\ Keys = Stored \cup Requests /\ Stored \cap Requests = {}
  BY PhotosAssumption DEF IInv, Scripted, Request, Keys
<1>2. /\ image' \in [Rows -> Keys \cup {Link, None}] /\ image'[e0] = i
      /\ \A e \in Rows \ {e0} : image'[e] = image[e]
  BY <1>1 DEF Point, IInv, Types
<1>3. untold' \subseteq untold \cup {e0}
  BY DEF Point
<1>4. Stage(q) = from /\ from \in Before \ {"load"} /\ ~Past(q) /\ Running(q)
  BY DEF Moved, Before, Past, Running
<1>5. \A p \in Requests : Past(p) => Past(p)'
  BY <1>4, PastStays DEF Before
<1>6. Past(q)'
  BY DEF Past, Moved, Before
<1>7. /\ \A p \in Requests : outcome[p] = "failed" => outcome'[p] = "failed"
      /\ \A p \in Requests : Running(p)' => Running(p)
  BY OutcomesStay DEF IInv
<1>8. i = q => q \in objects /\ bucket = "public"
  BY <1>1, <1>4 DEF IInv, Ordered, Checked
<1>9. faults > 0 => faults' > 0
  OBVIOUS
<1> HIDE DEF e0
<1>10. Types'
  BY <1>1, <1>2, <1>3 DEF IInv, Types
<1>11. Homes'
  <2>1. (\A e \in Rows : image[e] \in Requests => req[image[e]].on = e /\ Past(image[e]))'
    <3> SUFFICES ASSUME NEW e \in Rows, image'[e] \in Requests
                 PROVE  req[image'[e]].on = e /\ (Past(image[e]))'
      OBVIOUS
    <3>1. CASE e = e0
      <4>1. image'[e] = q
        BY <1>1, <1>2, <3>1
      <4> QED BY <1>6, <3>1, <4>1 DEF e0
    <3>2. CASE e # e0
      <4>1. image'[e] = image[e]
        BY <1>2, <3>2
      <4>2. req[image[e]].on = e /\ Past(image[e])
        BY <4>1 DEF IInv, Homes
      <4> QED BY <1>5, <4>1, <4>2
    <3> QED BY <3>1, <3>2
  <2>2. (\A p \in Requests : old[p] \in Requests =>
            req[old[p]].on = req[p].on /\ Past(old[p]) /\ old[p] # p)'
    BY <1>5 DEF IInv, Homes
  <2>3. \A d, e \in Rows : d # e /\ image'[d] \in Stored => image'[d] # image'[e]
    BY <1>1, <1>2 DEF IInv, Homes
  <2>4. \A p \in Requests, d \in Rows : d # req[p].on /\ old[p] \in Stored => image'[d] # old[p]
    BY <1>1, <1>2 DEF IInv, Homes
  <2> QED BY <2>1, <2>2, <2>3, <2>4 DEF Homes
<1>12. Ordered'
  <2> SUFFICES ASSUME NEW p \in Requests
               PROVE  /\ Stage(p)' = "set" => p \in objects
                      /\ Stage(p)' = "clean" /\ old[p] \in Keys =>
                            \A e \in Rows : image'[e] # old[p]
    BY DEF Ordered
  <2>1. Stage(p)' = "set" => p # q /\ Stage(p) = "set"
    BY DEF Moved
  <2>2. ASSUME Stage(p)' = "clean", old[p] \in Keys, NEW e \in Rows, image'[e] = old[p]
        PROVE  FALSE
    <3>1. CASE e = e0
      <4>1. old[p] = q
        BY <1>1, <1>2, <2>2, <3>1
      <4> QED BY <1>4, <4>1 DEF IInv, Homes
    <3>2. CASE e # e0
      <4>1. image[e] = old[p]
        BY <1>2, <2>2, <3>2
      <4>2. CASE p = q
        <5>1. CASE old[q] \in Stored
          BY <3>2, <4>1, <4>2, <5>1 DEF IInv, Homes, e0
        <5>2. CASE old[q] \in Requests
          BY <3>2, <4>1, <4>2, <5>2 DEF IInv, Homes, e0
        <5> QED BY <1>1, <2>2, <4>2, <5>1, <5>2
      <4>3. CASE p # q
        <5>1. Stage(p) = "clean"
          BY <2>2, <4>3 DEF Moved
        <5> QED BY <2>2, <4>1, <5>1 DEF IInv, Ordered
      <4> QED BY <4>2, <4>3
    <3> QED BY <3>1, <3>2
  <2> QED BY <2>1, <2>2 DEF IInv, Ordered
<1>13. Checked'
  BY CheckedStays DEF IInv
<1>14. Announced'
  <2> SUFFICES ASSUME NEW e \in untold', ~(faults' > 0)
               PROVE  \E p \in Requests : Stage(p)' \in {"clean", "publish"} /\ req[p].on = e
    BY DEF Announced
  <2>1. CASE e = e0
    <3>1. Stage(q)' = "clean"
      BY DEF Moved
    <3> QED BY <2>1, <3>1 DEF e0
  <2>2. CASE e # e0
    <3>1. PICK p \in Requests : Stage(p) \in {"clean", "publish"} /\ req[p].on = e
      BY <1>3, <1>9, <2>2 DEF IInv, Announced
    <3>2. Stage(p)' = Stage(p)
      BY <1>4, <3>1 DEF Moved, Before
    <3> QED BY <3>1, <3>2
  <2> QED BY <2>1, <2>2
<1>15. \A p \in Requests : ForPhotos(p)' <=> ForPhotos(p)
  BY DEF ForPhotos
<1>16. Loaded'
  <2>1. \A p \in Requests : Stage(p)' \in Before \ {"load"} =>
           p # q /\ Stage(p) \in Before \ {"load"}
    BY DEF Moved, Before
  <2>2. ASSUME NEW p \in Requests, Stage(p)' \in Before \ {"load"}, image'[req[p].on] \in Keys
        PROVE  \/ old[p] = image'[req[p].on]
               \/ image'[req[p].on] \in Requests /\ {p, image'[req[p].on]} \in beside
    <3>1. p # q /\ Stage(p) \in Before \ {"load"} /\ req[p].on \in Rows
      BY <2>1, <2>2 DEF IInv, Scripted, Request
    <3>2. CASE req[p].on = e0
      <4>1. image'[req[p].on] = q
        BY <1>1, <1>2, <2>2, <3>2
      <4>2. ForPhotos(p) /\ Running(p)
        BY <3>1, StageFacts DEF IInv, Before, ForPhotos
      <4>3. ForPhotos(q)
        BY <1>4, StageFacts DEF IInv, Before, ForPhotos
      <4>4. {p, q} \in beside
        BY <1>4, <3>1, <3>2, <4>2, <4>3 DEF IInv, Loaded, e0
      <4> QED BY <4>1, <4>4
    <3>3. CASE req[p].on # e0
      BY <1>2, <2>2, <3>1, <3>3 DEF IInv, Loaded
    <3> QED BY <3>2, <3>3
  <2> QED BY <1>7, <1>15, <2>2 DEF IInv, Loaded
<1>17. PointsAtObject'
  <2> SUFFICES ASSUME NEW e \in Rows, image'[e] \in Keys \ objects
               PROVE  image'[e] \in Requests /\ outcome'[image'[e]] = "failed"
    BY DEF PointsAtObject
  <2>1. e # e0
    BY <1>1, <1>2, <1>8
  <2>2. image'[e] = image[e]
    BY <1>2, <2>1
  <2> QED BY <1>7, <2>2 DEF IInv, PointsAtObject
<1>18. PhotoServed'
  BY <1>1, <1>2, <1>8 DEF IInv, PhotoServed
<1>19. (\A k \in objects : Accounted(k))'
  <2> SUFFICES ASSUME NEW k \in objects, ~(faults' > 0) PROVE Accounted(k)'
    BY DEF Accounted
  <2>1. Accounted(k) /\ k \in Keys
    BY DEF IInv, Types
  <2>2. Stage(q)' = "clean"
    BY DEF Moved
  <2>3. ASSUME NEW e \in Rows, image[e] = k PROVE Accounted(k)'
    <3>1. CASE e = e0
      <4>1. old[q] = k \/ (k \in Requests /\ {q, k} \in beside)
        BY <1>4, <2>1, <2>3, <3>1 DEF IInv, Loaded, e0
      <4> QED BY <2>2, <4>1 DEF Accounted
    <3>2. CASE e # e0
      BY <1>2, <2>3, <3>2 DEF Accounted
    <3> QED BY <3>1, <3>2
  <2>4. ASSUME k \in Requests, Stage(k) \in {"set", "rollback"} PROVE Accounted(k)'
    <3>1. CASE k = q
      <4>1. i = q
        BY <1>4, <2>4, <3>1
      <4> QED BY <1>1, <1>2, <3>1, <4>1 DEF Accounted
    <3>2. CASE k # q
      <4>1. Stage(k)' = Stage(k)
        BY <2>4, <3>2 DEF Moved
      <4> QED BY <2>4, <4>1 DEF Accounted
    <3> QED BY <3>1, <3>2
  <2>5. ASSUME NEW p \in Requests, Stage(p) = "clean", old[p] = k PROVE Accounted(k)'
    <3>1. Stage(p)' = "clean"
      BY <2>2, <2>5 DEF Moved
    <3> QED BY <2>5, <3>1 DEF Accounted
  <2>6. ASSUME NEW p \in Requests, {p, k} \in beside PROVE Accounted(k)'
    BY <2>6 DEF Accounted
  <2> QED BY <1>9, <2>1, <2>3, <2>4, <2>5, <2>6 DEF Accounted
<1> QED BY <1>10, <1>11, <1>12, <1>13, <1>14, <1>16, <1>17, <1>18, <1>19 DEF IInv

LEMMA SetImageStep ==
    ASSUME IInv, NEW q \in Requests, SetImage(q)
    PROVE  IInv'
<1> USE DEF storeVars
<1>1. At(q, "set") /\ UNCHANGED <<req, old, live, storeVars, beside>>
  BY DEF SetImage
<1>2. CASE Point(q, q) /\ Continue(q) /\ NoFault
  <2>1. Scripted' /\ Moved(q, "set", "clean")
    BY <1>1, <1>2, ContinueMoves DEF IInv, After
  <2> QED BY <1>1, <1>2, <2>1, FaultCounts, PointStep DEF IInv
<1>3. CASE Keep /\ Rollback(q) /\ (NoFault \/ Fault)
  <2>1. Scripted' /\ Moved(q, "set", "rollback")
    BY <1>1, <1>3, RollbackMoves DEF IInv
  <2>2. faults' \in 0..MaxFaults /\ faults' >= faults
    BY <1>3, FaultCounts DEF IInv
  <2>3. Types' /\ PhotoServed'
    BY <1>1, <1>3, <2>2 DEF IInv, Types, PhotoServed, Keep
  <2>4. Checked'
    BY <1>1, <2>1, CheckedStays DEF IInv
  <2> QED BY <1>1, <1>3, <2>1, <2>2, <2>3, <2>4, QuietStep DEF Keep
<1>4. CASE Fault /\ Rollback(q) /\ Point(q, q)
  <2>1. Scripted' /\ Moved(q, "set", "rollback")
    BY <1>1, <1>4, RollbackMoves DEF IInv
  <2> QED BY <1>1, <1>4, <2>1, FaultCounts, PointStep DEF IInv
<1> QED BY <1>2, <1>3, <1>4 DEF SetImage

LEMMA ClearImageStep ==
    ASSUME IInv, NEW q \in Requests, ClearImage(q)
    PROVE  IInv'
<1> USE DEF storeVars
<1>1. At(q, "clear") /\ UNCHANGED <<req, old, live, storeVars, beside>>
  BY DEF ClearImage
<1>2. CASE Point(q, None) /\ Continue(q) /\ NoFault
  <2>1. Scripted' /\ Moved(q, "clear", "clean")
    BY <1>1, <1>2, ContinueMoves DEF IInv, After
  <2> QED BY <1>1, <1>2, <2>1, FaultCounts, PointStep DEF IInv
<1>3. CASE Keep /\ Fail(q) /\ (NoFault \/ Fault)
  <2>1. Scripted' /\ Moved(q, "clear", "none")
    BY <1>1, <1>3, FailMoves DEF IInv
  <2>2. faults' \in 0..MaxFaults /\ faults' >= faults
    BY <1>3, FaultCounts DEF IInv
  <2>3. Types' /\ PhotoServed'
    BY <1>1, <1>3, <2>2 DEF IInv, Types, PhotoServed, Keep
  <2>4. Checked'
    BY <1>1, <2>1, CheckedStays DEF IInv
  <2> QED BY <1>1, <1>3, <2>1, <2>2, <2>3, <2>4, QuietStep DEF Keep
<1>4. CASE Fault /\ Fail(q) /\ Point(q, None)
  <2>1. Scripted' /\ Moved(q, "clear", "none")
    BY <1>1, <1>4, FailMoves DEF IInv
  <2> QED BY <1>1, <1>4, <2>1, FaultCounts, PointStep DEF IInv
<1> QED BY <1>2, <1>3, <1>4 DEF ClearImage

\* The last step of a request for a photo: its row's change is told, or a
\* fault has happened.
LEMMA PublishStep ==
    ASSUME IInv, NEW q \in Requests, Publish(q)
    PROVE  IInv'
<1> USE DEF storeVars
<1>1. /\ At(q, "publish") /\ Continue(q)
      /\ \/ NoFault /\ untold' = untold \ {req[q].on}
         \/ Fault /\ untold' = untold
      /\ UNCHANGED <<req, old, live, image, storeVars, beside>>
  BY DEF Publish
<1>2. Scripted' /\ Moved(q, "publish", "none")
  BY <1>1, ContinueMoves DEF IInv, After
<1>3. faults' \in 0..MaxFaults /\ faults' >= faults /\ faults \in Nat /\ faults' \in Nat
      /\ (Fault => faults' > 0)
  BY <1>1, FaultCounts DEF IInv
<1>4. Types' /\ PhotoServed'
  BY <1>1, <1>3 DEF IInv, Types, PhotoServed
<1>5. \A p \in Requests : Past(p) => Past(p)'
  BY <1>2, PastStays DEF Before
<1>6. /\ \A p \in Requests : outcome[p] = "failed" => outcome'[p] = "failed"
      /\ \A p \in Requests : Running(p)' => Running(p)
  BY <1>2, OutcomesStay DEF IInv
<1>7. Homes'
  BY <1>1, <1>5, HomesStay DEF IInv
<1>8. Ordered'
  BY <1>1, <1>2, OrderedStays DEF IInv
<1>9. Checked'
  BY <1>1, <1>2, CheckedStays DEF IInv
<1>10. Loaded'
  BY <1>1, <1>2, <1>6, LoadedStays DEF IInv, Before
<1>11. PointsAtObject'
  BY <1>1, <1>6, PointsStay DEF IInv
<1>12. (\A k \in objects : Accounted(k))'
  BY <1>1, <1>2, <1>3, AccountedStay DEF IInv
<1>13. Announced'
  <2>1. CASE Fault
    BY <1>3, <2>1 DEF Announced
  <2>2. CASE NoFault /\ untold' = untold \ {req[q].on}
    <3> SUFFICES ASSUME NEW e \in untold'
                 PROVE  \/ \E p \in Requests : Stage(p)' \in {"clean", "publish"} /\ req[p].on = e
                        \/ faults' > 0
      BY <1>1 DEF Announced
    <3>1. e \in untold /\ e # req[q].on
      BY <2>2
    <3>2. CASE faults > 0
      BY <2>2, <3>2 DEF NoFault
    <3>3. CASE ~(faults > 0)
      <4>1. PICK p \in Requests : Stage(p) \in {"clean", "publish"} /\ req[p].on = e
        BY <3>1, <3>3 DEF IInv, Announced
      <4>2. Stage(p)' = Stage(p)
        BY <1>2, <3>1, <4>1 DEF Moved
      <4> QED BY <4>1, <4>2
    <3> QED BY <3>2, <3>3
  <2> QED BY <1>1, <2>1, <2>2
<1> QED BY <1>2, <1>4, <1>7, <1>8, <1>9, <1>10, <1>11, <1>12, <1>13 DEF IInv

-----------------------------------------------------------------------------
(* The steps that change the objects.                                      *)

LEMMA UploadStep ==
    ASSUME IInv, NEW q \in Requests, Upload(q)
    PROVE  IInv'
<1> USE DEF storeVars, rowVars
<1>1. /\ At(q, "put") /\ Stage(q) = "put"
      /\ UNCHANGED <<req, old, rowVars, bucket, once, ensureErr, beside>>
  BY DEF Upload, At, Stage
<1>2. bucket = "public"
  BY <1>1 DEF IInv, Checked
<1>3. PhotoServed'
  BY <1>1 DEF IInv, PhotoServed
<1>4. CASE ~req[q].sound /\ NoFault /\ Fail(q) /\ UNCHANGED objects
  <2>1. Scripted' /\ Moved(q, "put", "none")
    BY <1>1, <1>4, FailMoves DEF IInv
  <2>2. Types' /\ faults' >= faults
    BY <1>1, <1>4, FaultCounts DEF IInv, Types
  <2>3. Checked'
    BY <1>1, <2>1, CheckedStays DEF IInv
  <2> QED BY <1>1, <1>3, <1>4, <2>1, <2>2, <2>3, QuietStep
<1>5. CASE \/ NoFault /\ Continue(q) /\ objects' = objects \cup {q}
           \/ Fault /\ Fail(q) /\ objects' \in {objects, objects \cup {q}}
  <2> DEFINE to == IF Fault THEN "none" ELSE "set"
  <2>1. ~Fault \/ ~NoFault
    BY FaultCounts DEF IInv, Fault, NoFault
  <2>2. Scripted' /\ Moved(q, "put", to) /\ to \in {"set", "none"}
    BY <1>1, <1>5, <2>1, ContinueMoves, FailMoves DEF IInv, After
  <2>3. faults' \in 0..MaxFaults /\ faults' >= faults /\ faults \in Nat /\ faults' \in Nat
        /\ (to = "none" => faults' > 0)
    BY <1>5, FaultCounts DEF IInv
  <2>4. objects \subseteq objects' /\ objects' \subseteq objects \cup {q} /\ q \in Keys
    BY <1>5 DEF Keys
  <2>5. to = "set" => q \in objects'
    BY <1>5, <2>1
  <2> HIDE DEF to
  <2>6. Types'
    BY <1>1, <2>3, <2>4 DEF IInv, Types
  <2>7. \A p \in Requests : Past(p) => Past(p)'
    BY <2>2, PastStays DEF Before
  <2>8. /\ \A p \in Requests : outcome[p] = "failed" => outcome'[p] = "failed"
        /\ \A p \in Requests : Running(p)' => Running(p)
    BY <2>2, OutcomesStay DEF IInv
  <2>9. Homes'
    BY <1>1, <2>7, HomesStay DEF IInv
  <2>10. Ordered'
    <3>1. \A p \in Requests : /\ Stage(p)' = "set" => p = q \/ Stage(p) = "set"
                              /\ Stage(p)' = "clean" => Stage(p) = "clean"
                              /\ Stage(q)' = "set" => to = "set"
      BY <2>2 DEF Moved
    <3> QED BY <1>1, <2>4, <2>5, <3>1 DEF IInv, Ordered
  <2>11. Checked'
    BY <1>1, <1>2, <2>2, CheckedStays DEF IInv
  <2>12. Announced'
    BY <1>1, <2>2, <2>3, AnnouncedStays DEF IInv
  <2>13. Loaded'
    BY <1>1, <2>2, <2>8, LoadedStays DEF IInv, Before
  <2>14. PointsAtObject'
    BY <1>1, <2>4, <2>8, PointsStay DEF IInv
  <2>15. (\A k \in objects : Accounted(k))'
    <3> SUFFICES ASSUME NEW k \in objects', ~(faults' > 0) PROVE Accounted(k)'
      BY DEF Accounted
    <3>1. CASE k = q
      <4>1. Stage(q)' = "set"
        BY <2>2, <2>3 DEF Moved
      <4> QED BY <3>1, <4>1 DEF Accounted
    <3>2. CASE k # q
      <4>1. Accounted(k)
        BY <2>4, <3>2 DEF IInv
      <4>2. \A p \in Requests : Stage(p) \in {"set", "rollback", "clean"} => Stage(p)' = Stage(p)
        BY <2>2 DEF Moved
      <4>3. ~(faults > 0)
        BY <2>3
      <4> QED BY <1>1, <4>1, <4>2, <4>3 DEF Accounted
    <3> QED BY <3>1, <3>2
  <2> QED BY <1>3, <2>2, <2>6, <2>9, <2>10, <2>11, <2>12, <2>13, <2>14, <2>15 DEF IInv
<1> QED BY <1>4, <1>5 DEF Upload

\* Nobody points at the object, or is about to, when it is deleted.
LEMMA DeleteOldStep ==
    ASSUME IInv, NEW q \in Requests, DeleteOld(q)
    PROVE  IInv'
<1> USE DEF storeVars, rowVars
<1>1. /\ At(q, "clean") /\ Stage(q) = "clean" /\ Continue(q) /\ Delete(old[q])
      /\ UNCHANGED <<req, old, rowVars, bucket, once, ensureErr, beside>>
  BY DEF DeleteOld, At, Stage
<1>2. Scripted' /\ Moved(q, "clean", "publish")
  BY <1>1, ContinueMoves DEF IInv, After
<1>3. faults' \in 0..MaxFaults /\ faults' >= faults /\ faults \in Nat /\ faults' \in Nat
      /\ (Fault => faults' > 0)
  BY <1>1, FaultCounts DEF IInv, Delete
<1>4. /\ objects' \subseteq objects /\ objects \ {old[q]} \subseteq objects'
      /\ objects' = objects \ {old[q]} \/ faults' > 0
  BY <1>1, <1>3 DEF Delete
<1>5. Types' /\ PhotoServed'
  BY <1>1, <1>3, <1>4 DEF IInv, Types, PhotoServed
<1>6. \A p \in Requests : Past(p) => Past(p)'
  BY <1>2, PastStays DEF Before
<1>7. /\ \A p \in Requests : outcome[p] = "failed" => outcome'[p] = "failed"
      /\ \A p \in Requests : Running(p)' => Running(p)
  BY <1>2, OutcomesStay DEF IInv
<1>8. Homes'
  BY <1>1, <1>6, HomesStay DEF IInv
<1>9. Ordered'
  <2>1. \A p \in Requests : Stage(p)' \in {"set", "clean"} => p # q /\ Stage(p) = Stage(p)'
    BY <1>2 DEF Moved
  <2>2. ASSUME NEW p \in Requests, Stage(p)' = "set" PROVE p \in objects'
    <3>1. p \in objects /\ ~Past(p)
      BY <2>1, <2>2 DEF IInv, Ordered, Past, Before
    <3>2. p # old[q]
      BY <3>1 DEF IInv, Homes
    <3> QED BY <1>4, <3>1, <3>2
  <2> QED BY <1>1, <2>1, <2>2 DEF IInv, Ordered
<1>10. Checked'
  BY <1>1, <1>2, CheckedStays DEF IInv
<1>11. Announced'
  <2>1. \A p \in Requests : Stage(p) \in {"clean", "publish"} => Stage(p)' \in {"clean", "publish"}
    BY <1>2 DEF Moved
  <2>2. faults > 0 => faults' > 0
    BY <1>3
  <2> QED BY <1>1, <2>1, <2>2 DEF IInv, Announced
<1>12. Loaded'
  BY <1>1, <1>2, <1>7, LoadedStays DEF IInv, Before
<1>13. PointsAtObject'
  <2> SUFFICES ASSUME NEW e \in Rows, image[e] \in Keys \ objects'
               PROVE  image[e] \in Requests /\ outcome'[image[e]] = "failed"
    BY <1>1 DEF PointsAtObject
  <2>1. image[e] # old[q]
    BY <1>1 DEF IInv, Ordered
  <2> QED BY <1>4, <1>7, <2>1 DEF IInv, PointsAtObject
<1>14. (\A k \in objects : Accounted(k))'
  <2> SUFFICES ASSUME NEW k \in objects', ~(faults' > 0) PROVE Accounted(k)'
    BY DEF Accounted
  <2>1. k \in objects /\ k # old[q] /\ ~(faults > 0)
    BY <1>3, <1>4
  <2>2. Accounted(k)
    BY <2>1 DEF IInv
  <2>3. \A p \in Requests : Stage(p) \in {"set", "rollback"} => Stage(p)' = Stage(p)
    BY <1>2 DEF Moved
  <2>4. \A p \in Requests \ {q} : Stage(p) = "clean" => Stage(p)' = Stage(p)
    BY <1>2 DEF Moved
  <2> QED BY <1>1, <2>1, <2>2, <2>3, <2>4 DEF Accounted
<1> QED BY <1>2, <1>5, <1>8, <1>9, <1>10, <1>11, <1>12, <1>13, <1>14 DEF IInv

\* A request that deletes its own object has failed.
LEMMA DeleteNewStep ==
    ASSUME IInv, NEW q \in Requests, DeleteNew(q)
    PROVE  IInv'
<1> USE DEF storeVars, rowVars
<1>1. /\ At(q, "rollback") /\ Stage(q) = "rollback" /\ Fail(q) /\ Delete(q)
      /\ UNCHANGED <<req, old, rowVars, bucket, once, ensureErr, beside>>
  BY DEF DeleteNew, At, Stage
<1>2. Scripted' /\ Moved(q, "rollback", "none") /\ outcome'[q] = "failed"
  BY <1>1, FailMoves DEF IInv
<1>3. faults' \in 0..MaxFaults /\ faults' >= faults /\ faults \in Nat /\ faults' \in Nat
      /\ (Fault => faults' > 0)
  BY <1>1, FaultCounts DEF IInv, Delete
<1>4. /\ objects' \subseteq objects /\ objects \ {q} \subseteq objects'
      /\ objects' = objects \ {q} \/ faults' > 0
  BY <1>1, <1>3 DEF Delete
<1>5. Types' /\ PhotoServed'
  BY <1>1, <1>3, <1>4 DEF IInv, Types, PhotoServed
<1>6. \A p \in Requests : Past(p) => Past(p)'
  BY <1>2, PastStays DEF Before
<1>7. /\ \A p \in Requests : outcome[p] = "failed" => outcome'[p] = "failed"
      /\ \A p \in Requests : Running(p)' => Running(p)
  BY <1>2, OutcomesStay DEF IInv
<1>8. Homes'
  BY <1>1, <1>6, HomesStay DEF IInv
<1>9. Ordered'
  <2>1. \A p \in Requests : Stage(p)' \in {"set", "clean"} => p # q /\ Stage(p) = Stage(p)'
    BY <1>2 DEF Moved
  <2> QED BY <1>1, <1>4, <2>1 DEF IInv, Ordered
<1>10. Checked'
  BY <1>1, <1>2, CheckedStays DEF IInv
<1>11. Announced'
  BY <1>1, <1>2, <1>3, AnnouncedStays DEF IInv
<1>12. Loaded'
  BY <1>1, <1>2, <1>7, LoadedStays DEF IInv, Before
<1>13. PointsAtObject'
  BY <1>1, <1>2, <1>4, <1>7 DEF IInv, PointsAtObject
<1>14. (\A k \in objects : Accounted(k))'
  <2> SUFFICES ASSUME NEW k \in objects', ~(faults' > 0) PROVE Accounted(k)'
    BY DEF Accounted
  <2>1. k \in objects /\ k # q /\ ~(faults > 0)
    BY <1>3, <1>4
  <2>2. Accounted(k)
    BY <2>1 DEF IInv
  <2>3. \A p \in Requests \ {q} : Stage(p)' = Stage(p)
    BY <1>2 DEF Moved
  <2> QED BY <1>1, <2>1, <2>2, <2>3 DEF Accounted
<1> QED BY <1>2, <1>5, <1>8, <1>9, <1>10, <1>11, <1>12, <1>13, <1>14 DEF IInv

-----------------------------------------------------------------------------
(* Requests arrive, and the process dies.                                  *)

LEMMA ArriveStep ==
    ASSUME IInv, NEW q \in Requests, NEW rows, NEW op, Arrive(q, rows, op)
    PROVE  IInv'
<1> USE DEF storeVars, rowVars
<1>1. /\ outcome[q] = "idle" /\ outcome' = [outcome EXCEPT ![q] = "running"]
      /\ todo' = [todo EXCEPT ![q] = Script(req[q])]
      /\ beside' = beside \cup {{q, r} : r \in Overlapping(q)}
      /\ UNCHANGED <<req, old, rowVars, storeVars, faults>>
  BY DEF Arrive
<1>2. req[q] \in Request
  BY DEF IInv, Scripted
<1>3. /\ Script(req[q]) \in Left(req[q].op) /\ Script(req[q]) \in Scripts
      /\ Head(Script(req[q])) \in {"load", "hide"}
  BY <1>2, ScriptFacts, ScriptsFacts DEF Request
<1>4. /\ todo' \in [Requests -> Scripts] /\ todo'[q] = Script(req[q])
      /\ \A p \in Requests \ {q} : todo'[p] = todo[p]
  BY <1>1, <1>3 DEF IInv, Scripted
<1>5. /\ outcome' \in [Requests -> {"idle", "running", "ok", "failed"}] /\ outcome'[q] = "running"
      /\ \A p \in Requests \ {q} : outcome'[p] = outcome[p]
  BY <1>1 DEF IInv, Scripted
<1>6. Scripted'
  BY <1>1, <1>3, <1>4, <1>5 DEF IInv, Scripted, Running
<1>7. Stage(q)' \in {"load", "hide"} /\ Stage(q) = "none"
  BY <1>1, <1>3, <1>4, <1>5 DEF Stage, Running
<1>8. \A p \in Requests \ {q} : Stage(p)' = Stage(p)
  BY <1>4, <1>5 DEF Stage, Running
<1>9. \A p \in Requests : Past(p) => Past(p)'
  BY <1>1, <1>5, <1>8 DEF Past
<1>10. beside \subseteq beside' /\ beside' \subseteq SUBSET Requests
  BY <1>1 DEF IInv, Types, Overlapping
<1>11. Types' /\ PhotoServed'
  BY <1>1, <1>10 DEF IInv, Types, PhotoServed
<1>12. Homes'
  BY <1>1, <1>9, HomesStay DEF IInv
<1>13. Ordered'
  BY <1>1, <1>7, <1>8 DEF IInv, Ordered
<1>14. Checked'
  BY <1>1, <1>7, <1>8 DEF IInv, Checked
<1>15. Announced'
  BY <1>1, <1>7, <1>8 DEF IInv, Announced
<1>16. Loaded'
  <2>1. \A p \in Requests : ForPhotos(p)' <=> ForPhotos(p)
    BY <1>1 DEF ForPhotos
  <2>2. \A p \in Requests \ {q} : Running(p)' => Running(p)
    BY <1>5 DEF Running
  <2>3. ASSUME NEW r \in Requests \ {q}, Running(r), ForPhotos(q), ForPhotos(r), req[r].on = req[q].on
        PROVE  {q, r} \in beside'
    <3>1. r \in Overlapping(q)
      BY <2>3 DEF Overlapping, ForPhotos
    <3> QED BY <1>1, <3>1
  <2>4. ASSUME NEW p \in Requests, NEW r \in Requests, p # r, Running(p)', Running(r)',
               ForPhotos(p), ForPhotos(r), req[p].on = req[r].on
        PROVE  {p, r} \in beside'
    <3>1. CASE p = q
      BY <2>2, <2>3, <2>4, <3>1
    <3>2. CASE r = q
      <4>1. {p, r} = {r, p}
        OBVIOUS
      <4> QED BY <2>2, <2>3, <2>4, <3>2, <4>1
    <3>3. CASE p # q /\ r # q
      BY <1>10, <2>2, <2>4, <3>3 DEF IInv, Loaded
    <3> QED BY <3>1, <3>2, <3>3
  <2>5. \A p \in Requests : Stage(p)' \in Before \ {"load"} => Stage(p) \in Before \ {"load"}
    BY <1>7, <1>8 DEF Before
  <2>6. \A p \in Requests :
           Stage(p)' \in Before \ {"load"} /\ image[req[p].on] \in Keys
             => \/ old[p] = image[req[p].on]
                \/ image[req[p].on] \in Requests /\ {p, image[req[p].on]} \in beside'
    BY <1>10, <2>5 DEF IInv, Loaded
  <2> QED BY <1>1, <2>1, <2>4, <2>6 DEF Loaded
<1>17. PointsAtObject'
  BY <1>1, <1>5 DEF IInv, PointsAtObject
<1>18. (\A k \in objects : Accounted(k))'
  <2> SUFFICES ASSUME NEW k \in objects' PROVE Accounted(k)'
    OBVIOUS
  <2>1. Accounted(k)
    BY <1>1 DEF IInv
  <2>2. \A p \in Requests : Stage(p) # "none" => Stage(p)' = Stage(p)
    BY <1>7, <1>8
  <2> QED BY <1>1, <1>10, <2>1, <2>2 DEF Accounted
<1> QED BY <1>6, <1>11, <1>12, <1>13, <1>14, <1>15, <1>16, <1>17, <1>18 DEF IInv

LEMMA CrashStep ==
    ASSUME IInv, Crash
    PROVE  IInv'
<1> USE DEF storeVars, rowVars
<1>1. /\ outcome' = [q \in Requests |-> IF Running(q) THEN "failed" ELSE outcome[q]]
      /\ todo' = [q \in Requests |-> <<>>]
      /\ once' = "new" /\ ensureErr' = FALSE
      /\ UNCHANGED <<req, old, rowVars, objects, bucket, beside>>
  BY DEF Crash
<1>2. faults' \in 0..MaxFaults /\ faults' > 0
  BY FaultCounts DEF IInv, Crash
<1>3. \A q \in Requests : /\ outcome'[q] = IF Running(q) THEN "failed" ELSE outcome[q]
                          /\ todo'[q] = <<>>
  BY <1>1
<1>4. outcome' \in [Requests -> {"idle", "running", "ok", "failed"}]
      /\ todo' \in [Requests -> Scripts]
  BY <1>1, ScriptsFacts DEF IInv, Scripted
<1>5. \A q \in Requests : ~Running(q)'
  BY <1>3 DEF Running
<1>6. Scripted'
  BY <1>1, <1>3, <1>4, <1>5 DEF IInv, Scripted
<1>7. \A q \in Requests : Stage(q)' = "none"
  BY <1>5 DEF Stage
<1>8. \A q \in Requests : Past(q) => Past(q)'
  BY <1>3, <1>7 DEF Past, Before
<1>9. Types' /\ PhotoServed'
  BY <1>1, <1>2 DEF IInv, Types, PhotoServed
<1>10. Homes'
  BY <1>1, <1>8, HomesStay DEF IInv
<1>11. Ordered' /\ Checked'
  BY <1>1, <1>7 DEF Ordered, Checked
<1>12. Announced' /\ (\A k \in objects : Accounted(k))'
  BY <1>2 DEF Announced, Accounted
<1>13. Loaded'
  BY <1>5, <1>7 DEF Loaded, Before
<1>14. PointsAtObject'
  BY <1>1, <1>3 DEF IInv, PointsAtObject, Running
<1> QED BY <1>6, <1>9, <1>10, <1>11, <1>12, <1>13, <1>14 DEF IInv

LEMMA InitIsSound == Init => IInv
<1> SUFFICES ASSUME Init PROVE IInv
  OBVIOUS
<1>1. image \in [Rows -> Stored \cup {Link, None}] /\ Stored \cap Requests = {}
      /\ Link \notin Keys /\ None \notin Keys
      /\ \A d, e \in Rows : d # e /\ image[d] \in Stored => image[d] # image[e]
  BY PhotosAssumption DEF Init
<1>2. \A q \in Requests : outcome[q] = "idle" /\ todo[q] = <<>> /\ old[q] = None /\ ~Running(q)
  BY DEF Init, Running
<1>3. Scripted
  BY <1>2, PhotosAssumption, ScriptsFacts DEF Init, Scripted
<1>4. \A q \in Requests : Stage(q) = "none"
  BY <1>2 DEF Stage
<1>5. /\ bucket \in {"none", "private", "public"}
      /\ objects # {} => bucket = "public"
  BY DEF Init
<1>6. 0 \in 0..MaxFaults
  BY PhotosAssumption
<1>7. Types
  BY <1>1, <1>5, <1>6 DEF Init, Types, Keys
<1>8. Homes
  BY <1>1, <1>2 DEF Homes, Keys
<1>9. Ordered /\ Announced
  BY <1>4 DEF Init, Ordered, Announced
<1>10. Checked
  BY <1>4 DEF Init, Checked
<1>11. Loaded
  BY <1>2, <1>4 DEF Loaded, Before
<1>12. \A e \in Rows : image[e] \in Keys => image[e] \in objects
  BY DEF Init
<1>13. PointsAtObject /\ PhotoServed
  BY <1>5, <1>12 DEF PointsAtObject, PhotoServed
<1>14. \A k \in objects : Accounted(k)
  BY DEF Init, Accounted
<1> QED BY <1>3, <1>7, <1>8, <1>9, <1>10, <1>11, <1>13, <1>14 DEF IInv

LEMMA HandlesStep ==
    ASSUME IInv, NEW q \in Requests, Handles(q)
    PROVE  IInv'
BY LoadStep, SetImageStep, ClearImageStep, WriteStep, HideStep, PublishStep, BucketExistsStep,
   MakeBucketStep, SetBucketPolicyStep, EnsuredStep, UploadStep, DeleteOldStep, DeleteNewStep
   DEF Handles

LEMMA NextKeeps == IInv /\ [Next]_vars => IInv'
<1> SUFFICES ASSUME IInv, [Next]_vars PROVE IInv'
  OBVIOUS
<1>1. ASSUME NEW q \in Requests, Arrives(q) PROVE IInv'
  BY <1>1, ArriveStep DEF Arrives, UploadCategoryPhoto, DeleteCategoryPhoto,
     UploadItemPhoto, DeleteItemPhoto, PutForm, DropRow
<1>2. ASSUME UNCHANGED vars PROVE IInv'
  <2> USE <1>2 DEF vars, rowVars, storeVars
  <2>1. /\ \A q \in Requests : Running(q)' <=> Running(q)
        /\ \A q \in Requests : Stage(q)' = Stage(q) /\ (Past(q)' <=> Past(q))
    BY DEF Running, Stage, Past
  <2>2. Scripted' /\ Types'
    BY <2>1 DEF IInv, Scripted, Types
  <2>3. Homes' /\ Ordered' /\ Checked'
    BY <2>1 DEF IInv, Homes, Ordered, Checked
  <2>4. Announced' /\ Loaded'
    BY <2>1 DEF IInv, Announced, Loaded, ForPhotos
  <2>5. PointsAtObject' /\ PhotoServed' /\ (\A k \in objects : Accounted(k))'
    BY <2>1 DEF IInv, PointsAtObject, PhotoServed, Accounted
  <2> QED BY <2>2, <2>3, <2>4, <2>5 DEF IInv
<1> QED BY <1>1, <1>2, HandlesStep, CrashStep DEF Next

\* The inductive invariant holds always: requests are at steps of their own
\* scripts, an object is there before the row points at it, and an object no
\* row points at is being worked on or was uploaded beside another request.
THEOREM PhotosAlways == Spec => []IInv
<1>1. Init => IInv
  BY InitIsSound
<1>2. IInv /\ [Next]_vars => IInv'
  BY NextKeeps
<1> QED BY <1>1, <1>2, PTL DEF Spec

-----------------------------------------------------------------------------
(* What follows from it.                                                   *)

\* What rows point at is there, unless the upload that wrote it was answered
\* with an error, and the bucket is public then; a change kiosks have not
\* heard of is about to be announced, unless something has failed.
THEOREM PhotosSound == Spec => []PhotosInv
<1>1. IInv => PhotosInv
  <2> SUFFICES ASSUME IInv PROVE PhotosInv
    OBVIOUS
  <2>1. \A q \in Requests : Running(q) <=> todo[q] # <<>>
    BY LeftOfAny DEF IInv, Scripted, Request
  <2>2. TypeOK
    BY <2>1 DEF IInv, Scripted, Types, TypeOK
  <2>3. ChangeIsTold
    <3> SUFFICES ASSUME NEW e \in untold
                 PROVE  \/ \E q \in Requests : /\ Running(q) /\ req[q].on = e
                                               /\ req[q].op \in {"upload", "remove"}
                        \/ faults > 0
      BY DEF ChangeIsTold
    <3>1. CASE faults > 0
      BY <3>1
    <3>2. ASSUME NEW q \in Requests, Stage(q) \in {"clean", "publish"}, req[q].on = e
          PROVE  Running(q) /\ req[q].on = e /\ req[q].op \in {"upload", "remove"}
      BY <3>2, StageFacts DEF IInv
    <3> QED BY <3>1, <3>2 DEF IInv, Announced
  <2> QED BY <2>2, <2>3 DEF IInv, PhotosInv
<1> QED BY <1>1, PhotosAlways, PTL

\* An object no row points at is being worked on, or was uploaded beside
\* another request for the row, unless something has failed.
THEOREM NoUnexplainedOrphans == Spec => []OrphansExplained
<1>1. IInv => OrphansExplained
  <2> SUFFICES ASSUME IInv, NEW k \in objects
               PROVE  \/ \E e \in Rows : image[e] = k
                      \/ \E q \in Requests : Running(q) /\ (q = k \/ old[q] = k)
                      \/ \E q \in Requests : {q, k} \in beside
                      \/ faults > 0
    BY DEF OrphansExplained
  <2>1. Accounted(k)
    BY DEF IInv
  <2>2. \A q \in Requests : Stage(q) # "none" => Running(q)
    BY DEF Stage
  <2> QED BY <2>1, <2>2 DEF Accounted
<1> QED BY <1>1, PhotosAlways, PTL

\* Only the step of a request for a photo of the row changes its image.
THEOREM ImagesChangeOnPurpose == Spec => ReplacedOnPurpose
<1> DEFINE A == \A e \in Rows : image'[e] # image[e] =>
                   \E q \in Requests : /\ todo'[q] # todo[q] /\ req[q].on = e
                                       /\ req[q].op \in {"upload", "remove"}
<1>1. IInv /\ [Next]_vars => [A]_vars
  <2> SUFFICES ASSUME IInv, Next, NEW e \in Rows, image'[e] # image[e]
               PROVE  \E q \in Requests : /\ todo'[q] # todo[q] /\ req[q].on = e
                                          /\ req[q].op \in {"upload", "remove"}
    OBVIOUS
  <2>1. PICK q \in Requests : SetImage(q) \/ ClearImage(q)
    BY DEF Next, Crash, Arrives, Arrive, UploadCategoryPhoto, DeleteCategoryPhoto,
       UploadItemPhoto, DeleteItemPhoto, PutForm, DropRow, Handles, Load, Write, Hide, Publish,
       BucketExists, MakeBucket, SetBucketPolicy, Ensured, Upload, DeleteOld, DeleteNew, rowVars
  <2>2. req[q].on = e
    <3>1. image' = image \/ \E i : image' = [image EXCEPT ![req[q].on] = i]
      BY <2>1 DEF SetImage, ClearImage, Keep, Point
    <3> QED BY <3>1 DEF IInv, Types
  <2>3. \E from, to : Moved(q, from, to)
    BY <2>1, ContinueMoves, FailMoves, RollbackMoves DEF IInv, SetImage, ClearImage
  <2>4. Stage(q) \in {"set", "clear"}
    BY <2>1 DEF SetImage, ClearImage, At, Stage
  <2>5. req[q].op \in {"upload", "remove"}
    BY <2>4, StageFacts DEF IInv
  <2> QED BY <2>2, <2>3, <2>5 DEF Moved
<1>2. Spec => [][A]_vars
  BY <1>1, PhotosAlways, PTL DEF Spec
<1> QED BY <1>2 DEF ReplacedOnPurpose

===============================================================================
