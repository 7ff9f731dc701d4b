---------------------------- MODULE ReviewProofs ----------------------------
(***************************************************************************)
(* ReviewRating for all sets of handlers, reviews, products and numbers:   *)
(* what is cached and announced was true, only Create adds a review, and   *)
(* an old rating that stays in the cache was stored late.                  *)
(* What a rating counts is looked into for its type only: the other proofs *)
(* hold for any summary RatingOf of the table.                             *)
(***************************************************************************)
EXTENDS MCReviewRating, FiniteSetTheorems, TLAPS

\* The parts of TypeOK the proofs need.
Shape ==
    /\ reviews \in [ReviewIds -> Reviews \cup {None}]
    /\ DOMAIN cache = ProductIds
    /\ DOMAIN pc = Workers /\ DOMAIN job = Workers

\* The ghost misses no rating of the table.
HadCurrent == \A p \in ProductIds : <<p, RatingOf(reviews, p)>> \in had

IsJob(j) == j = [op |-> j.op, review |-> j.review, product |-> j.product,
                 stars |-> j.stars, found |-> j.found]

\* What a handler's label says of its job; one that has read a rating holds
\* one the product had.
HandlerTrue(w) ==
    /\ pc[w] # "idle" => IsJob(job[w])
    /\ pc[w] \in {"insert", "write", "invalidate", "requery", "announce", "look", "query", "fill"}
          => job[w].product \in ProductIds
    /\ pc[w] \in {"insert", "read", "write"} => job[w].review \in ReviewIds
    /\ pc[w] = "insert" => job[w].op = "create" /\ job[w].stars \in Stars
    /\ pc[w] \in {"read", "write"} =>
          job[w].op = "delete" \/ (job[w].op = "update" /\ job[w].stars \in Stars)
    /\ pc[w] = "publish" => job[w].op \in {"create", "update", "delete"}
    /\ pc[w] \in {"invalidate", "requery", "announce"} => job[w].op \in {"create", "update", "delete"}
    /\ pc[w] \in {"announce", "fill"} => <<job[w].product, job[w].found>> \in had

IInv ==
    /\ Shape
    /\ HadCurrent
    /\ \A w \in Workers : HandlerTrue(w)
    /\ RatingsWereTrue

-----------------------------------------------------------------------------

OthersWait(w) == \A v \in Workers \ {w} : pc'[v] = pc[v] /\ job'[v] = job[v]

\* It is enough to look at the table, the handler that moved, the cache and
\* the events.
LEMMA StepIsTrue ==
    ASSUME IInv, NEW w \in Workers, Shape', had \subseteq had', OthersWait(w),
           HadCurrent', HandlerTrue(w)', RatingsWereTrue'
    PROVE  IInv'
  <1>1. ASSUME NEW v \in Workers PROVE HandlerTrue(v)'
    <2>1. CASE v = w
      BY <2>1
    <2>2. CASE v # w
      BY <2>2 DEF IInv, OthersWait, HandlerTrue, IsJob
    <2>. QED BY <2>1, <2>2
  <1>. QED BY <1>1 DEF IInv

\* A handler that moves without touching the table, the cache or the events.
LEMMA QuietStepIsTrue ==
    ASSUME IInv, NEW w \in Workers, NEW label, NEW j,
           pc' = [pc EXCEPT ![w] = label], job' = [job EXCEPT ![w] = j],
           UNCHANGED <<reviews, cache, published, had>>, HandlerTrue(w)'
    PROVE  IInv'
  <1>1. Shape'
    BY DEF IInv, Shape
  <1>2. OthersWait(w)
    BY DEF OthersWait
  <1>3. HadCurrent'
    BY DEF IInv, HadCurrent, RatingOf
  <1>4. RatingsWereTrue'
    BY DEF IInv, RatingsWereTrue
  <1>. QED BY <1>1, <1>2, <1>3, <1>4, StepIsTrue

LEMMA StartIsTrue ==
    ASSUME IInv, NEW w \in Workers, NEW label \in {"insert", "read", "look"},
           NEW op \in {"create", "update", "delete", "rating"}, NEW r, NEW p, NEW s,
           label \in {"insert", "look"} => p \in ProductIds,
           label \in {"insert", "read"} => r \in ReviewIds,
           label = "insert" => op = "create" /\ s \in Stars,
           label = "read" => op = "delete" \/ (op = "update" /\ s \in Stars),
           Start(w, label, op, r, p, s)
    PROVE  IInv'
  <1> DEFINE j == [op |-> op, review |-> r, product |-> p, stars |-> s, found |-> None]
  <1>1. /\ pc' = [pc EXCEPT ![w] = label] /\ job' = [job EXCEPT ![w] = j]
        /\ UNCHANGED <<reviews, cache, published, had>>
    BY DEF Start
  <1>2. pc'[w] = label /\ job'[w] = j
    BY <1>1 DEF IInv, Shape
  <1>3. j.op = op /\ j.review = r /\ j.product = p /\ j.stars = s /\ IsJob(j)
    BY DEF IsJob
  <1> HIDE DEF j
  <1>4. HandlerTrue(w)'
    <2>1. IsJob(job[w])'
      BY <1>2, <1>3 DEF IsJob
    <2>. QED BY <1>2, <1>3, <2>1 DEF HandlerTrue
  <1>. QED BY <1>1, <1>4, QuietStepIsTrue

LEMMA RequestIsTrue ==
    ASSUME IInv, NEW w \in Workers, Request(w)
    PROVE  IInv'
  <1>1. CASE Create(w)
    BY <1>1, StartIsTrue DEF Create
  <1>2. CASE Update(w)
    BY <1>2, StartIsTrue DEF Update
  <1>3. CASE Delete(w)
    BY <1>3, StartIsTrue DEF Delete
  <1>4. CASE Rating(w)
    BY <1>4, StartIsTrue DEF Rating
  <1>. QED BY <1>1, <1>2, <1>3, <1>4 DEF Request

LEMMA FinishIsTrue ==
    ASSUME IInv, NEW w \in Workers, Finish(w), UNCHANGED <<reviews, cache, published, had>>
    PROVE  IInv'
  <1>1. pc'[w] = "idle"
    BY DEF Finish, IInv, Shape
  <1>2. HandlerTrue(w)'
    BY <1>1 DEF HandlerTrue
  <1>. QED BY <1>2, QuietStepIsTrue DEF Finish

-----------------------------------------------------------------------------
(* Changes of reviews *)

\* A handler that has committed a change and goes on or ends.
LEMMA ChangeIsTrue ==
    ASSUME IInv, NEW w \in Workers, NEW table \in [ReviewIds -> Reviews \cup {None}],
           Change(table), Goto(w, "invalidate") \/ Finish(w),
           pc[w] # "idle",
           Goto(w, "invalidate") =>
               job[w].product \in ProductIds /\ job[w].op \in {"create", "update", "delete"},
           UNCHANGED <<cache, published>>
    PROVE  IInv'
  <1>1. reviews' = table /\ had \subseteq had'
    BY DEF Change
  <1>2. HadCurrent'
    <2> SUFFICES ASSUME NEW p \in ProductIds PROVE <<p, RatingOf(table, p)>> \in had'
      BY <1>1 DEF HadCurrent, RatingOf
    <2>. QED BY DEF Change
  <1>3. Shape'
    BY <1>1 DEF IInv, Shape, Goto, Finish
  <1>4. OthersWait(w)
    BY DEF OthersWait, Goto, Finish, IInv, Shape
  <1>5. RatingsWereTrue'
    BY <1>1 DEF IInv, RatingsWereTrue
  <1>6. HandlerTrue(w)'
    <2>1. CASE Finish(w)
      <3>1. pc'[w] = "idle"
        BY <2>1 DEF Finish, IInv, Shape
      <3>. QED BY <3>1 DEF HandlerTrue
    <2>2. CASE Goto(w, "invalidate")
      <3>1. pc'[w] = "invalidate" /\ job'[w] = job[w]
        BY <2>2 DEF Goto, IInv, Shape
      <3>2. IsJob(job[w])'
        BY <3>1 DEF IInv, HandlerTrue, IsJob
      <3>. QED BY <2>2, <3>1, <3>2 DEF HandlerTrue
    <2>. QED BY <2>1, <2>2
  <1>. QED BY <1>1, <1>2, <1>3, <1>4, <1>5, <1>6, StepIsTrue

LEMMA InsertIsTrue ==
    ASSUME IInv, NEW w \in Workers, Insert(w)
    PROVE  IInv'
  <1> DEFINE r == job[w].review
             row == [product |-> job[w].product, rating |-> job[w].stars]
  <1>1. /\ r \in ReviewIds /\ row \in Reviews /\ job[w].product \in ProductIds
    BY DEF Insert, IInv, HandlerTrue, Reviews
  <1>2. CASE reviews[r] # None
    BY <1>2, FinishIsTrue DEF Insert
  <1>3. CASE reviews[r] = None
    <2> DEFINE table == [reviews EXCEPT ![r] = row]
    <2>1. table \in [ReviewIds -> Reviews \cup {None}]
      BY <1>1 DEF IInv, Shape
    <2>2. /\ Change(table) /\ Goto(w, "invalidate") /\ UNCHANGED <<cache, published>>
          /\ pc[w] # "idle"
      BY <1>3 DEF Insert
    <2>3. job[w].op \in {"create", "update", "delete"}
      BY DEF Insert, IInv, HandlerTrue
    <2> HIDE DEF table
    <2>. QED BY <1>1, <2>1, <2>2, <2>3, ChangeIsTrue
  <1>. QED BY <1>2, <1>3

LEMMA ReadIsTrue ==
    ASSUME IInv, NEW w \in Workers, Read(w)
    PROVE  IInv'
  <1> DEFINE row == reviews[job[w].review]
             j == [job[w] EXCEPT !.product = row.product]
  <1>1. /\ pc[w] = "read" /\ job[w].review \in ReviewIds
        /\ job[w].op = "delete" \/ (job[w].op = "update" /\ job[w].stars \in Stars)
    BY DEF Read, IInv, HandlerTrue
  <1>2. CASE row = None
    BY <1>2, FinishIsTrue DEF Read
  <1>3. CASE row # None
    <2>1. row.product \in ProductIds
      BY <1>1, <1>3 DEF IInv, Shape, Reviews
    <2>2. /\ pc' = [pc EXCEPT ![w] = "write"] /\ job' = [job EXCEPT ![w] = j]
          /\ UNCHANGED <<reviews, cache, published, had>>
      BY <1>3 DEF Read
    <2>3. pc'[w] = "write" /\ job'[w] = j
      BY <2>2 DEF IInv, Shape
    <2>4. IsJob(job[w])
      BY <1>1 DEF IInv, HandlerTrue
    <2>5. /\ j = [op |-> job[w].op, review |-> job[w].review, product |-> row.product,
                  stars |-> job[w].stars, found |-> job[w].found]
      BY <2>4 DEF IsJob
    <2>6. /\ j.op = job[w].op /\ j.review = job[w].review /\ j.stars = job[w].stars
          /\ j.product = row.product /\ IsJob(j)
      BY <2>5 DEF IsJob
    <2> HIDE DEF j
    <2>7. IsJob(job[w])'
      BY <2>3, <2>6 DEF IsJob
    <2>8. HandlerTrue(w)'
      BY <1>1, <2>1, <2>3, <2>6, <2>7 DEF HandlerTrue
    <2>. QED BY <2>2, <2>8, QuietStepIsTrue
  <1>. QED BY <1>2, <1>3

LEMMA WriteIsTrue ==
    ASSUME IInv, NEW w \in Workers, Write(w)
    PROVE  IInv'
  <1> DEFINE table == Written(job[w])
             r == job[w].review
  <1>1. /\ pc[w] = "write" /\ r \in ReviewIds /\ job[w].product \in ProductIds
        /\ job[w].op = "delete" \/ (job[w].op = "update" /\ job[w].stars \in Stars)
    BY DEF Write, IInv, HandlerTrue
  <1>2. table \in [ReviewIds -> Reviews \cup {None}]
    <2>1. CASE job[w].op = "delete" \/ reviews[r] = None
      BY <2>1 DEF Written, IInv, Shape
    <2>2. CASE ~(job[w].op = "delete" \/ reviews[r] = None)
      <3>1. reviews[r] \in Reviews /\ job[w].stars \in Stars
        BY <1>1, <2>2 DEF IInv, Shape
      <3>2. [reviews[r] EXCEPT !.rating = job[w].stars] \in Reviews
        BY <3>1 DEF Reviews
      <3>3. table = [reviews EXCEPT ![r] = [reviews[r] EXCEPT !.rating = job[w].stars]]
        BY <2>2 DEF Written
      <3>. QED BY <3>2, <3>3 DEF IInv, Shape
    <2>. QED BY <2>1, <2>2
  <1>3. /\ Change(table) /\ UNCHANGED <<cache, published>>
        /\ Goto(w, "invalidate") \/ Finish(w)
    BY DEF Write
  <1> HIDE DEF table
  <1>. QED BY <1>1, <1>2, <1>3, ChangeIsTrue

-----------------------------------------------------------------------------
(* The rating *)

\* A step that writes the cache or publishes, and goes on with the same job or
\* ends.
LEMMA OutputIsTrue ==
    ASSUME IInv, NEW w \in Workers, NEW label \in Labels,
           Goto(w, label) \/ Finish(w), pc[w] # "idle",
           Goto(w, label) => /\ label \in {"requery", "publish"}
                             /\ job[w].op \in {"create", "update", "delete"}
                             /\ job[w].product \in ProductIds,
           UNCHANGED <<reviews, had>>, DOMAIN cache' = ProductIds, RatingsWereTrue'
    PROVE  IInv'
  <1>1. Shape' /\ OthersWait(w)
    BY DEF IInv, Shape, OthersWait, Goto, Finish
  <1>2. HadCurrent'
    BY DEF IInv, HadCurrent, RatingOf
  <1>3. HandlerTrue(w)'
    <2>1. CASE Finish(w)
      <3>1. pc'[w] = "idle"
        BY <2>1 DEF Finish, IInv, Shape
      <3>. QED BY <3>1 DEF HandlerTrue
    <2>2. CASE Goto(w, label)
      <3>1. pc'[w] = label /\ job'[w] = job[w]
        BY <2>2 DEF Goto, IInv, Shape
      <3>2. IsJob(job[w])'
        BY <3>1 DEF IInv, HandlerTrue, IsJob
      <3>. QED BY <2>2, <3>1, <3>2 DEF HandlerTrue
    <2>. QED BY <2>1, <2>2
  <1>. QED BY <1>1, <1>2, <1>3, StepIsTrue

LEMMA InvalidateIsTrue ==
    ASSUME IInv, NEW w \in Workers, Invalidate(w)
    PROVE  IInv'
  <1>1. /\ pc[w] = "invalidate" /\ job[w].product \in ProductIds
        /\ job[w].op \in {"create", "update", "delete"}
    BY DEF Invalidate, IInv, HandlerTrue
  <1>2. /\ Goto(w, "requery") /\ UNCHANGED <<reviews, published, had>>
        /\ cache' = [cache EXCEPT ![job[w].product] = None] \/ cache' = cache
    BY DEF Invalidate
  <1>3. DOMAIN cache' = ProductIds
    BY <1>2 DEF IInv, Shape
  <1>4. \A p \in ProductIds : cache'[p] = None \/ cache'[p] = cache[p]
    BY <1>2 DEF IInv, Shape
  <1>5. RatingsWereTrue'
    BY <1>2, <1>4 DEF IInv, RatingsWereTrue
  <1>. QED BY <1>1, <1>2, <1>3, <1>5, OutputIsTrue DEF Labels

\* A handler that reads the rating of its product.
LEMMA FoundIsTrue ==
    ASSUME IInv, NEW w \in Workers, pc[w] \in {"requery", "query"},
           NEW label \in {"announce", "fill"},
           label = "announce" => job[w].op \in {"create", "update", "delete"},
           job' = [job EXCEPT ![w].found = RatingOf(reviews, job[w].product)],
           pc' = [pc EXCEPT ![w] = label],
           UNCHANGED <<reviews, cache, published, had>>
    PROVE  IInv'
  <1> DEFINE x == RatingOf(reviews, job[w].product)
             j == [job[w] EXCEPT !.found = x]
  <1>1. job[w].product \in ProductIds /\ IsJob(job[w])
    BY DEF IInv, HandlerTrue
  <1>2. <<job[w].product, x>> \in had
    BY <1>1 DEF IInv, HadCurrent
  <1> HIDE DEF x
  <1>3. j = [op |-> job[w].op, review |-> job[w].review, product |-> job[w].product,
             stars |-> job[w].stars, found |-> x]
    BY <1>1 DEF IsJob
  <1>4. /\ j.op = job[w].op /\ j.product = job[w].product /\ j.found = x /\ IsJob(j)
    BY <1>3 DEF IsJob
  <1>5. job' = [job EXCEPT ![w] = j]
    BY DEF x
  <1>6. pc'[w] = label /\ job'[w] = j
    BY <1>5 DEF IInv, Shape
  <1> HIDE DEF j
  <1>7. IsJob(job[w])'
    BY <1>4, <1>6 DEF IsJob
  <1>8. HandlerTrue(w)'
    <2>a. job'[w].product = job[w].product /\ job'[w].found = x /\ job'[w].op = job[w].op
      BY <1>4, <1>6
    <2>b. had' = had
      OBVIOUS
    <2>c. <<job'[w].product, job'[w].found>> = <<job[w].product, x>>
      BY <2>a
    <2>1. /\ job'[w].product \in ProductIds /\ <<job'[w].product, job'[w].found>> \in had'
          /\ job'[w].op = job[w].op
      BY <1>1, <1>2, <2>a, <2>b, <2>c
    <2>2. CASE label = "announce"
      BY <1>6, <1>7, <2>1, <2>2 DEF HandlerTrue
    <2>3. CASE label = "fill"
      BY <1>6, <1>7, <2>1, <2>3 DEF HandlerTrue
    <2>. QED BY <2>2, <2>3
  <1>. QED BY <1>5, <1>8, QuietStepIsTrue

LEMMA RequeryIsTrue ==
    ASSUME IInv, NEW w \in Workers, Requery(w)
    PROVE  IInv'
  <1>1. /\ pc[w] = "requery" /\ job[w].product \in ProductIds
        /\ job[w].op \in {"create", "update", "delete"}
    BY DEF Requery, IInv, HandlerTrue
  <1>2. CASE Goto(w, "publish")
    <2>1. UNCHANGED <<reviews, cache, published, had>>
      BY DEF Requery
    <2>2. DOMAIN cache' = ProductIds /\ RatingsWereTrue'
      BY <2>1 DEF IInv, Shape, RatingsWereTrue
    <2>. QED BY <1>1, <1>2, <2>1, <2>2, OutputIsTrue DEF Labels
  <1>3. CASE ~Goto(w, "publish")
    BY <1>1, <1>3, FoundIsTrue DEF Requery
  <1>. QED BY <1>2, <1>3

LEMMA QueryIsTrue ==
    ASSUME IInv, NEW w \in Workers, Query(w)
    PROVE  IInv'
  BY FoundIsTrue DEF Query

LEMMA AnnounceIsTrue ==
    ASSUME IInv, NEW w \in Workers, Announce(w)
    PROVE  IInv'
  <1>1. /\ pc[w] = "announce" /\ job[w].product \in ProductIds
        /\ job[w].op \in {"create", "update", "delete"}
        /\ <<job[w].product, job[w].found>> \in had
    BY DEF Announce, IInv, HandlerTrue
  <1>2. /\ Goto(w, "publish") /\ UNCHANGED <<reviews, cache, had>>
        /\ published' \subseteq
              published \cup {<<"product.rating.updated", job[w].product, job[w].found>>}
    BY DEF Announce
  <1>3. DOMAIN cache' = ProductIds
    BY <1>2 DEF IInv, Shape
  <1>4. RatingsWereTrue'
    BY <1>1, <1>2 DEF IInv, RatingsWereTrue
  <1>. QED BY <1>1, <1>2, <1>3, <1>4, OutputIsTrue DEF Labels

LEMMA PublishIsTrue ==
    ASSUME IInv, NEW w \in Workers, Publish(w)
    PROVE  IInv'
  <1>1. pc[w] = "publish" /\ job[w].op \in {"create", "update", "delete"}
    BY DEF Publish, IInv, HandlerTrue
  <1>2. Subject[job[w].op] # "product.rating.updated"
    BY <1>1 DEF Subject
  <1>3. /\ Finish(w) /\ UNCHANGED <<reviews, cache, had>>
        /\ published' \subseteq
              published \cup {<<Subject[job[w].op], job[w].product, job[w].review>>}
    BY DEF Publish
  <1>4. DOMAIN cache' = ProductIds
    BY <1>3 DEF IInv, Shape
  <1>5. RatingsWereTrue'
    BY <1>2, <1>3 DEF IInv, RatingsWereTrue
  <1>6. Goto(w, "idle") => pc'[w] = "idle" /\ job'[w] = job[w]
    BY DEF Goto, IInv, Shape
  <1>7. ~Goto(w, "publish")
    BY <1>1, <1>3 DEF Goto, Finish, IInv, Shape
  <1>. QED BY <1>1, <1>3, <1>4, <1>5, <1>7, OutputIsTrue DEF Labels

LEMMA LookIsTrue ==
    ASSUME IInv, NEW w \in Workers, Look(w)
    PROVE  IInv'
  <1>1. UNCHANGED <<reviews, cache, published, had>> /\ pc[w] = "look"
    BY DEF Look
  <1>2. CASE Finish(w)
    BY <1>1, <1>2, FinishIsTrue
  <1>3. CASE Goto(w, "query")
    <2>1. pc'[w] = "query" /\ job'[w] = job[w]
      BY <1>3 DEF Goto, IInv, Shape
    <2>2. HandlerTrue(w)
      BY DEF IInv
    <2>3. IsJob(job[w])'
      BY <1>1, <2>1, <2>2 DEF HandlerTrue, IsJob
    <2>4. HandlerTrue(w)'
      BY <1>1, <2>1, <2>2, <2>3 DEF HandlerTrue
    <2>5. Shape' /\ OthersWait(w) /\ HadCurrent' /\ RatingsWereTrue'
      BY <1>1, <1>3 DEF Goto, OthersWait, IInv, Shape, HadCurrent, RatingOf, RatingsWereTrue
    <2>. QED BY <1>1, <2>4, <2>5, StepIsTrue
  <1>. QED BY <1>2, <1>3 DEF Look

LEMMA FillIsTrue ==
    ASSUME IInv, NEW w \in Workers, Fill(w)
    PROVE  IInv'
  <1>1. /\ pc[w] = "fill" /\ job[w].product \in ProductIds
        /\ <<job[w].product, job[w].found>> \in had
    BY DEF Fill, IInv, HandlerTrue
  <1>2. /\ Finish(w) /\ UNCHANGED <<reviews, published, had>>
        /\ cache' = [cache EXCEPT ![job[w].product] = job[w].found] \/ cache' = cache
    BY DEF Fill, Key
  <1>3. DOMAIN cache' = ProductIds
    BY <1>2 DEF IInv, Shape
  <1>4. \A p \in ProductIds :
            cache'[p] = cache[p] \/ (p = job[w].product /\ cache'[p] = job[w].found)
    BY <1>2 DEF IInv, Shape
  <1>5. RatingsWereTrue'
    BY <1>1, <1>2, <1>4 DEF IInv, RatingsWereTrue
  <1>6. ~Goto(w, "publish")
    BY <1>1, <1>2 DEF Goto, Finish, IInv, Shape
  <1>. QED BY <1>1, <1>2, <1>3, <1>5, <1>6, OutputIsTrue DEF Labels

LEMMA FailIsTrue ==
    ASSUME IInv, NEW w \in Workers, Fail(w)
    PROVE  IInv'
  BY FinishIsTrue DEF Fail

LEMMA ExpireIsTrue ==
    ASSUME IInv, NEW p \in ProductIds, Expire(p)
    PROVE  IInv'
  <1>1. /\ cache' = [cache EXCEPT ![p] = None]
        /\ UNCHANGED <<reviews, published, had, pc, job>>
    BY DEF Expire
  <1>2. Shape' /\ HadCurrent'
    BY <1>1 DEF IInv, Shape, HadCurrent, RatingOf
  <1>3. \A w \in Workers : HandlerTrue(w)'
    BY <1>1 DEF IInv, HandlerTrue, IsJob
  <1>4. \A q \in ProductIds : cache'[q] = None \/ cache'[q] = cache[q]
    BY <1>1 DEF IInv, Shape
  <1>5. RatingsWereTrue'
    BY <1>1, <1>4 DEF IInv, RatingsWereTrue
  <1>. QED BY <1>2, <1>3, <1>5 DEF IInv

-----------------------------------------------------------------------------

LEMMA InitIsTrue == Init => IInv
  <1> SUFFICES ASSUME Init PROVE IInv
    OBVIOUS
  <1>1. Shape
    BY DEF Init, Shape
  <1>2. HadCurrent
    BY DEF Init, HadCurrent
  <1>3. \A w \in Workers : HandlerTrue(w)
    BY DEF Init, HandlerTrue
  <1>4. RatingsWereTrue
    BY DEF Init, RatingsWereTrue
  <1>. QED BY <1>1, <1>2, <1>3, <1>4 DEF IInv

LEMMA NextIsTrue == IInv /\ [Next]_vars => IInv'
  <1> SUFFICES ASSUME IInv, [Next]_vars PROVE IInv'
    OBVIOUS
  <1>1. CASE UNCHANGED vars
    <2>1. UNCHANGED <<reviews, cache, published, had, pc, job>>
      BY <1>1 DEF vars
    <2>2. Shape' /\ HadCurrent' /\ RatingsWereTrue'
      BY <2>1 DEF IInv, Shape, HadCurrent, RatingOf, RatingsWereTrue
    <2>3. \A w \in Workers : HandlerTrue(w)'
      BY <2>1 DEF IInv, HandlerTrue, IsJob
    <2>. QED BY <2>2, <2>3 DEF IInv
  <1>2. ASSUME NEW w \in Workers, Request(w) \/ Step(w) \/ Fail(w)
        PROVE  IInv'
    BY <1>2, RequestIsTrue, InsertIsTrue, ReadIsTrue, WriteIsTrue, InvalidateIsTrue,
       RequeryIsTrue, AnnounceIsTrue, PublishIsTrue, LookIsTrue, QueryIsTrue, FillIsTrue,
       FailIsTrue DEF Step
  <1>3. ASSUME NEW p \in ProductIds, Expire(p)
        PROVE  IInv'
    BY <1>3, ExpireIsTrue
  <1>. QED BY <1>1, <1>2, <1>3 DEF Next, Internal

LEMMA ServiceIsTrue == Spec => []IInv
  BY InitIsTrue, NextIsTrue, PTL DEF Spec

\* Cached and announced ratings are ratings the product has had.
THEOREM RatingsStayTrue == Spec => []RatingsWereTrue
  <1>1. IInv => RatingsWereTrue
    BY DEF IInv
  <1>. QED BY <1>1, ServiceIsTrue, PTL

\* A deleted review stays deleted whatever Update had read before.
THEOREM UpdatesAddNothing == Spec => OnlyCreateAdds
  <1>1. IInv /\ [Next]_vars =>
          [\A r \in ReviewIds :
              reviews[r] = None /\ reviews'[r] # None =>
                  \E w \in Workers : pc[w] = "insert" /\ job[w].review = r]_vars
    <2> SUFFICES ASSUME IInv, Next, NEW r \in ReviewIds,
                        reviews[r] = None, reviews'[r] # None
                 PROVE  \E w \in Workers : pc[w] = "insert" /\ job[w].review = r
      OBVIOUS
    <2>1. PICK w \in Workers : Insert(w) \/ Write(w)
      BY DEF Next, Internal, Request, Step, Fail, Expire, Create, Update, Delete, Rating, Start,
             Read, Invalidate, Requery, Announce, Publish, Look, Query, Fill
    <2>2. CASE Insert(w)
      <3>1. reviews' # reviews
        OBVIOUS
      <3>2. reviews' = [reviews EXCEPT ![job[w].review] =
                          [product |-> job[w].product, rating |-> job[w].stars]]
        BY <2>2, <3>1 DEF Insert, Change
      <3>3. job[w].review = r
        BY <3>2 DEF IInv, Shape
      <3>. QED BY <2>2, <3>3 DEF Insert
    <2>3. CASE Write(w)
      <3>1. reviews' = Written(job[w]) /\ job[w].review \in ReviewIds
        BY <2>3 DEF Write, Change, IInv, HandlerTrue
      <3>2. reviews'[r] = None
        BY <3>1 DEF Written, IInv, Shape
      <3>. QED BY <3>2
    <2>. QED BY <2>1, <2>2, <2>3
  <1>. QED BY <1>1, ServiceIsTrue, PTL DEF Spec, OnlyCreateAdds

-----------------------------------------------------------------------------
(* Types *)

LEMMA RatingIsTyped ==
    ASSUME NEW table, NEW p
    PROVE  RatingOf(table, p) \in Ratings
  <1>1. ASSUME NEW s \in Stars
        PROVE  Cardinality({r \in ReviewIds :
                   table[r] # None /\ table[r].product = p /\ table[r].rating = s}) \in Nat
    BY FiniteReviews, FS_Subset, FS_CardinalityType
  <1>. QED BY <1>1 DEF RatingOf, Ratings

LEMMA MoveIsTyped ==
    ASSUME TypeOK, NEW w \in Workers, NEW label \in Labels, NEW j \in Jobs \cup {None},
           label = "idle" <=> j = None,
           pc' = [pc EXCEPT ![w] = label], job' = [job EXCEPT ![w] = j]
    PROVE  /\ pc' \in [Workers -> Labels] /\ job' \in [Workers -> Jobs \cup {None}]
           /\ \A v \in Workers : pc'[v] = "idle" <=> job'[v] = None
  BY DEF TypeOK

LEMMA StartIsTyped ==
    ASSUME TypeOK, NEW w \in Workers, NEW label \in Labels, label # "idle",
           NEW op, NEW r, NEW p, NEW s, Start(w, label, op, r, p, s),
           [op |-> op, review |-> r, product |-> p, stars |-> s, found |-> None] \in Jobs
    PROVE  /\ pc' \in [Workers -> Labels] /\ job' \in [Workers -> Jobs \cup {None}]
           /\ \A v \in Workers : pc'[v] = "idle" <=> job'[v] = None
  <1> DEFINE j == [op |-> op, review |-> r, product |-> p, stars |-> s, found |-> None]
  <1>1. pc' = [pc EXCEPT ![w] = label] /\ job' = [job EXCEPT ![w] = j] /\ j \in Jobs
    BY DEF Start
  <1>2. j # None
    BY <1>1, NoneIsNothing
  <1> HIDE DEF j
  <1>. QED BY <1>1, <1>2, MoveIsTyped

\* What a step does to the handlers
LEMMA HandlersAreTyped ==
    ASSUME TypeOK, IInv, NEW w \in Workers, Request(w) \/ Step(w) \/ Fail(w)
    PROVE  /\ pc' \in [Workers -> Labels] /\ job' \in [Workers -> Jobs \cup {None}]
           /\ \A v \in Workers : pc'[v] = "idle" <=> job'[v] = None
  <1>1. CASE Finish(w)
    BY <1>1 DEF Finish, TypeOK, Labels
  <1>2. CASE pc[w] # "idle" /\ \E label \in Labels \ {"idle"} : Goto(w, label)
    BY <1>2 DEF Goto, TypeOK
  <1>3. CASE Request(w)
    <2>1. "insert" \in Labels /\ "read" \in Labels /\ "look" \in Labels
      BY DEF Labels
    <2>2. CASE Create(w)
      <3>1. PICK r \in ReviewIds, p \in ProductIds, s \in Stars : Start(w, "insert", "create", r, p, s)
        BY <2>2 DEF Create
      <3>2. [op |-> "create", review |-> r, product |-> p, stars |-> s, found |-> None] \in Jobs
        BY DEF Jobs
      <3>. QED BY <2>1, <3>1, <3>2, StartIsTyped
    <2>3. CASE Update(w)
      <3>1. PICK r \in ReviewIds, s \in Stars : Start(w, "read", "update", r, None, s)
        BY <2>3 DEF Update
      <3>2. [op |-> "update", review |-> r, product |-> None, stars |-> s, found |-> None] \in Jobs
        BY DEF Jobs
      <3>. QED BY <2>1, <3>1, <3>2, StartIsTyped
    <2>4. CASE Delete(w)
      <3>1. PICK r \in ReviewIds : Start(w, "read", "delete", r, None, None)
        BY <2>4 DEF Delete
      <3>2. [op |-> "delete", review |-> r, product |-> None, stars |-> None, found |-> None] \in Jobs
        BY DEF Jobs
      <3>. QED BY <2>1, <3>1, <3>2, StartIsTyped
    <2>5. CASE Rating(w)
      <3>1. PICK p \in ProductIds : Start(w, "look", "rating", None, p, None)
        BY <2>5 DEF Rating
      <3>2. [op |-> "rating", review |-> None, product |-> p, stars |-> None, found |-> None] \in Jobs
        BY DEF Jobs
      <3>. QED BY <2>1, <3>1, <3>2, StartIsTyped
    <2>. QED BY <1>3, <2>2, <2>3, <2>4, <2>5 DEF Request
  <1>4. CASE Read(w) /\ ~ Finish(w)
    <2> DEFINE product == reviews[job[w].review].product
    <2>1. pc[w] = "read" /\ job[w] \in Jobs /\ job[w].review \in ReviewIds
      BY <1>4 DEF Read, TypeOK, IInv, HandlerTrue
    <2>2. product \in ProductIds
      BY <1>4, <2>1 DEF Read, TypeOK, Reviews
    <2>3. /\ job' = [job EXCEPT ![w].product = product]
          /\ pc' = [pc EXCEPT ![w] = "write"]
      BY <1>4 DEF Read
    <2> HIDE DEF product
    <2>4. PICK j \in Jobs : job' = [job EXCEPT ![w] = j]
      <3> DEFINE next == [job[w] EXCEPT !.product = product]
      <3>1. next \in Jobs /\ job' = [job EXCEPT ![w] = next]
        BY <2>1, <2>2, <2>3 DEF Jobs, TypeOK
      <3> HIDE DEF next
      <3>. QED BY <3>1
    <2>5. j # None /\ "write" \in Labels
      BY NoneIsNothing DEF Labels
    <2>. QED BY <2>3, <2>4, <2>5, MoveIsTyped
  <1>5. CASE (Requery(w) \/ Query(w)) /\ ~ Goto(w, "publish")
    <2> DEFINE found == RatingOf(reviews, job[w].product)
    <2>1. pc[w] # "idle" /\ job[w] \in Jobs
      BY <1>5 DEF Requery, Query, TypeOK
    <2>2. found \in Ratings
      BY RatingIsTyped
    <2>3. PICK label \in {"announce", "fill"} :
             /\ job' = [job EXCEPT ![w].found = found]
             /\ pc' = [pc EXCEPT ![w] = label]
      BY <1>5 DEF Requery, Query
    <2> HIDE DEF found
    <2>4. PICK j \in Jobs : job' = [job EXCEPT ![w] = j]
      <3> DEFINE next == [job[w] EXCEPT !.found = found]
      <3>1. next \in Jobs /\ job' = [job EXCEPT ![w] = next]
        BY <2>1, <2>2, <2>3 DEF Jobs, TypeOK
      <3> HIDE DEF next
      <3>. QED BY <3>1
    <2>5. j # None /\ label \in Labels /\ label # "idle"
      BY NoneIsNothing DEF Labels
    <2>. QED BY <2>3, <2>4, <2>5, MoveIsTyped
  <1>6. CASE Step(w) /\ ~ Read(w) /\ ~ Requery(w) /\ ~ Query(w)
    BY <1>1, <1>2, <1>6 DEF Step, Insert, Write, Invalidate, Announce, Publish, Look, Fill, Labels
  <1>7. CASE Requery(w) /\ Goto(w, "publish")
    BY <1>2, <1>7 DEF Requery, Labels
  <1>8. CASE Query(w) /\ Goto(w, "publish")
    BY <1>2, <1>8 DEF Query, Labels
  <1>9. CASE Fail(w)
    BY <1>1, <1>9 DEF Fail
  <1>. QED BY <1>1, <1>3, <1>4, <1>5, <1>6, <1>7, <1>8, <1>9 DEF Step

LEMMA TablesAreTyped ==
    ASSUME TypeOK, IInv, IInv', NEW w \in Workers, Request(w) \/ Step(w) \/ Fail(w)
    PROVE  /\ reviews' \in [ReviewIds -> Reviews \cup {None}]
           /\ cache' \in [ProductIds -> Ratings \cup {None}]
           /\ had' \subseteq ProductIds \X Ratings
  <1>1. reviews' \in [ReviewIds -> Reviews \cup {None}]
    BY DEF IInv, Shape
  <1>2. had' \subseteq ProductIds \X Ratings
    <2>1. CASE UNCHANGED had
      BY <2>1 DEF TypeOK
    <2>2. ASSUME NEW table, Change(table) PROVE had' \subseteq ProductIds \X Ratings
      BY <2>2, RatingIsTyped DEF Change, TypeOK
    <2>. QED BY <2>1, <2>2 DEF Request, Create, Update, Delete, Rating, Start, Step, Fail,
                 Insert, Read, Write, Invalidate, Requery, Announce, Publish, Look, Query, Fill
  <1>3. cache' \in [ProductIds -> Ratings \cup {None}]
    <2>1. \A p \in ProductIds : cache'[p] \in Ratings \cup {None}
      BY <1>2 DEF IInv, RatingsWereTrue
    <2>2. \E f : cache' = [p \in ProductIds |-> f[p]]
      <3>1. cache = [p \in ProductIds |-> cache[p]]
        BY DEF TypeOK
      <3>2. UNCHANGED cache \/ \E p, x : cache' = [cache EXCEPT ![p] = x]
        BY DEF Request, Create, Update, Delete, Rating, Start, Step, Fail,
               Insert, Read, Write, Invalidate, Requery, Announce, Publish, Look, Query, Fill
      <3>3. cache' = [p \in ProductIds |-> cache'[p]]
        BY <3>1, <3>2
      <3>. QED BY <3>3
    <2>. QED BY <2>1, <2>2
  <1>. QED BY <1>1, <1>2, <1>3

\* Every variable keeps its type: rows, cached ratings and handlers.
THEOREM TypeCorrect == Spec => []TypeOK
  <1>1. Init => TypeOK
    <2> SUFFICES ASSUME Init PROVE TypeOK
      OBVIOUS
    <2>1. had \subseteq ProductIds \X Ratings
      BY RatingIsTyped DEF Init
    <2>. QED BY <2>1 DEF Init, TypeOK, Labels
  <1>2. TypeOK /\ IInv /\ IInv' /\ [Next]_vars => TypeOK'
    <2> SUFFICES ASSUME TypeOK, IInv, IInv', [Next]_vars PROVE TypeOK'
      OBVIOUS
    <2>1. CASE UNCHANGED vars
      BY <2>1 DEF TypeOK, vars
    <2>2. ASSUME NEW w \in Workers, Request(w) \/ Step(w) \/ Fail(w)
          PROVE  TypeOK'
      <3>1. /\ pc' \in [Workers -> Labels] /\ job' \in [Workers -> Jobs \cup {None}]
            /\ \A v \in Workers : pc'[v] = "idle" <=> job'[v] = None
        BY <2>2, HandlersAreTyped
      <3>2. /\ reviews' \in [ReviewIds -> Reviews \cup {None}]
            /\ cache' \in [ProductIds -> Ratings \cup {None}]
            /\ had' \subseteq ProductIds \X Ratings
        BY <2>2, TablesAreTyped
      <3>. QED BY <3>1, <3>2 DEF TypeOK
    <2>3. ASSUME NEW p \in ProductIds, Expire(p)
          PROVE  TypeOK'
      BY <2>3 DEF Expire, TypeOK
    <2>. QED BY <2>1, <2>2, <2>3 DEF Next, Internal
  <1>. QED BY <1>1, <1>2, ServiceIsTrue, PTL DEF Spec

-----------------------------------------------------------------------------
(* Requests that meet, while nothing fails *)

\* An Update or Delete knows the product of the row it has read.
KnowsProduct(w) ==
    pc[w] = "write" /\ reviews[job[w].review] # None =>
        reviews[job[w].review].product = job[w].product

Changing(p) == \E w \in Workers : pc[w] = "invalidate" /\ job[w].product = p

CaughtUp(p) == cache[p] \in {None, RatingOf(reviews, p)} \/ Changing(p) \/ p \in late

CalmInv ==
    /\ IInv
    /\ \A p \in ProductIds : CaughtUp(p)
    /\ \A w \in Workers : KnowsProduct(w)

LEMMA ReliableIsNormal ==
    /\ Reliable!Internal => Internal
    /\ \A w \in Workers : Reliable!Step(w) => Step(w)
    /\ \A w \in Workers : ~ Reliable!Fail(w)
    /\ \A p \in ProductIds : Reliable!Expire(p) => Expire(p)
    /\ \A w \in Workers : Reliable!Step(w) /\ pc[w] = "invalidate" =>
          cache' = [cache EXCEPT ![job[w].product] = None]
    /\ \A w \in Workers : Reliable!Step(w) /\ pc[w] = "fill" =>
          cache' = [cache EXCEPT ![job[w].product] = job[w].found]
  <1>0. ASSUME NEW table, NEW p PROVE Reliable!RatingOf(table, p) = RatingOf(table, p)
    BY DEF Reliable!RatingOf, RatingOf, Reliable!Stars, Stars, Reliable!Cardinality, Cardinality
  <1>1. ASSUME NEW w \in Workers, Reliable!Step(w) PROVE Step(w)
    <2>1. Reliable!Insert(w) => Insert(w)
      BY <1>0 DEF Reliable!Insert, Reliable!Goto, Reliable!Finish, Reliable!Change,
                  Insert, Goto, Finish, Change
    <2>2. Reliable!Write(w) => Write(w)
      BY <1>0 DEF Reliable!Write, Reliable!Goto, Reliable!Finish, Reliable!Change,
                  Reliable!Written, Write, Goto, Finish, Change, Written
    <2>3. Reliable!Requery(w) \/ Reliable!Query(w) => Requery(w) \/ Query(w)
      BY <1>0 DEF Reliable!Requery, Reliable!Query, Reliable!Goto, Requery, Query, Goto
    <2>4. Reliable!Announce(w) \/ Reliable!Publish(w) => Announce(w) \/ Publish(w)
      BY DEF Reliable!Announce, Reliable!Publish, Reliable!Goto, Reliable!Finish,
             Reliable!Subject, Announce, Publish, Goto, Finish, Subject
    <2>5. Reliable!Read(w) \/ Reliable!Invalidate(w) => Read(w) \/ Invalidate(w)
      BY DEF Reliable!Read, Reliable!Invalidate, Reliable!Goto, Reliable!Finish,
             Read, Invalidate, Goto, Finish
    <2>6. Reliable!Look(w) \/ Reliable!Fill(w) => Look(w) \/ Fill(w)
      BY DEF Reliable!Look, Reliable!Fill, Reliable!Goto, Reliable!Finish, Reliable!Key,
             Look, Fill, Goto, Finish, Key
    <2>. QED BY <1>1, <2>1, <2>2, <2>3, <2>4, <2>5, <2>6 DEF Reliable!Step, Step
  <1>2. \A w \in Workers : ~ Reliable!Fail(w)
    BY DEF Reliable!Fail
  <1>3. \A p \in ProductIds : Reliable!Expire(p) => Expire(p)
    BY DEF Reliable!Expire, Expire
  <1>4. \A w \in Workers : Reliable!Step(w) /\ pc[w] = "invalidate" =>
            cache' = [cache EXCEPT ![job[w].product] = None]
    BY DEF Reliable!Step, Reliable!Insert, Reliable!Read, Reliable!Write, Reliable!Invalidate,
           Reliable!Requery, Reliable!Announce, Reliable!Publish, Reliable!Look,
           Reliable!Query, Reliable!Fill
  <1>5. \A w \in Workers : Reliable!Step(w) /\ pc[w] = "fill" =>
            cache' = [cache EXCEPT ![job[w].product] = job[w].found]
    BY DEF Reliable!Step, Reliable!Insert, Reliable!Read, Reliable!Write, Reliable!Invalidate,
           Reliable!Requery, Reliable!Announce, Reliable!Publish, Reliable!Look,
           Reliable!Query, Reliable!Fill, Reliable!Key
  <1>. QED BY <1>1, <1>2, <1>3, <1>4, <1>5 DEF Reliable!Internal, Internal

\* A rating depends on the rows of its product alone.
LEMMA RatingDependsOnItsRows ==
    ASSUME NEW t, NEW u, NEW p,
           \A r \in ReviewIds :
              t[r] = u[r] \/ ( /\ t[r] = None \/ t[r].product # p
                               /\ u[r] = None \/ u[r].product # p )
    PROVE  RatingOf(t, p) = RatingOf(u, p)
  <1>1. \A s \in Stars :
            {r \in ReviewIds : t[r] # None /\ t[r].product = p /\ t[r].rating = s}
          = {r \in ReviewIds : u[r] # None /\ u[r].product = p /\ u[r].rating = s}
    OBVIOUS
  <1>. QED BY <1>1 DEF RatingOf

\* What a step of w does not touch
LEMMA CaughtUpStays ==
    ASSUME NEW w \in Workers, OthersWait(w),
           late' = {q \in ProductIds : NextLate(q)},
           NEW p \in ProductIds, CaughtUp(p),
           pc[w] \in {"invalidate", "fill"} => job[w].product # p,
           cache'[p] \in {None, cache[p]},
           RatingOf(reviews', p) = RatingOf(reviews, p)
    PROVE  CaughtUp(p)'
  <1>1. Changing(p) => Changing(p)'
    BY DEF Changing, OthersWait
  <1>2. p \in late => p \in late'
    BY DEF NextLate, Fills, OthersWait
  <1>3. RatingOf(reviews, p)' = RatingOf(reviews, p)
    BY DEF RatingOf
  <1>. QED BY <1>1, <1>2, <1>3 DEF CaughtUp

LEMMA TableStaysKnown ==
    ASSUME CalmInv, NEW w \in Workers, OthersWait(w), UNCHANGED reviews, KnowsProduct(w)'
    PROVE  \A v \in Workers : KnowsProduct(v)'
  BY DEF CalmInv, KnowsProduct, OthersWait

LEMMA RequestStaysCalm ==
    ASSUME CalmInv, IInv', late' = {q \in ProductIds : NextLate(q)},
           NEW w \in Workers, Request(w)
    PROVE  CalmInv' /\ pc[w] = "idle" /\ pc'[w] \in {"insert", "read", "look"} /\ OthersWait(w)
  <1>1. PICK label \in {"insert", "read", "look"} :
            pc[w] = "idle" /\ pc' = [pc EXCEPT ![w] = label]
    BY DEF Request, Create, Update, Delete, Rating, Start
  <1>2. UNCHANGED <<reviews, cache>> /\ OthersWait(w)
    BY DEF Request, Create, Update, Delete, Rating, Start, OthersWait, CalmInv, IInv, Shape
  <1>3. pc'[w] = label
    BY <1>1 DEF CalmInv, IInv, Shape
  <1>4. \A v \in Workers : KnowsProduct(v)'
    BY <1>2, <1>3, TableStaysKnown DEF KnowsProduct
  <1>5. \A p \in ProductIds : CaughtUp(p)'
    BY <1>1, <1>2, CaughtUpStays DEF CalmInv
  <1>. QED BY <1>1, <1>2, <1>3, <1>4, <1>5 DEF CalmInv

LEMMA StepMovesOne ==
    ASSUME IInv, NEW w \in Workers, Step(w)
    PROVE  pc[w] # "idle" /\ OthersWait(w)
  BY DEF Step, Insert, Read, Write, Invalidate, Requery, Announce, Publish, Look, Query, Fill,
         Goto, Finish, OthersWait, IInv, Shape

\* The rows a change touches belong to its product; a row that is new is one
\* no other request has read.
LEMMA ChangeStaysCalm ==
    ASSUME CalmInv, IInv', late' = {q \in ProductIds : NextLate(q)}, NoIdReturns,
           NEW w \in Workers, Insert(w) \/ Write(w)
    PROVE  CalmInv' /\ pc'[w] \in {"idle", "invalidate"}
  <1>0. PICK k, q : k = job[w].review /\ q = job[w].product
    OBVIOUS
  <1>1. k \in ReviewIds /\ q \in ProductIds /\ pc[w] \in {"insert", "write"}
    BY <1>0 DEF CalmInv, IInv, HandlerTrue, Insert, Write
  <1>2. UNCHANGED cache /\ pc'[w] \in {"idle", "invalidate"} /\ OthersWait(w)
    BY DEF Insert, Write, Goto, Finish, OthersWait, CalmInv, IInv, Shape
  <1>3. KnowsProduct(w)'
    BY <1>2 DEF KnowsProduct
  <1>4. CASE pc'[w] = "idle"
    <2>1. reviews' = reviews
      BY <1>0, <1>1, <1>4 DEF Insert, Write, Change, Written, Goto, CalmInv, IInv, Shape
    <2>2. \A v \in Workers : KnowsProduct(v)'
      BY <1>2, <1>3, <2>1, TableStaysKnown
    <2>3. \A p \in ProductIds : CaughtUp(p)'
      BY <1>1, <1>2, <2>1, CaughtUpStays DEF CalmInv
    <2>. QED BY <1>2, <2>2, <2>3 DEF CalmInv
  <1>5. CASE pc'[w] = "invalidate"
    <2>1. Goto(w, "invalidate") /\ job'[w].product = q
      BY <1>0, <1>1, <1>5 DEF Insert, Write, Goto, Finish, CalmInv, IInv, Shape
    <2>2. CaughtUp(q)'
      BY <1>5, <2>1 DEF Changing, CaughtUp
    <2>3. reviews[k] = None \/ reviews[k].product = q
      BY <1>0, <1>1, <1>5 DEF Insert, Write, Finish, CalmInv, KnowsProduct, IInv, Shape
    <2>4. /\ \A r \in ReviewIds \ {k} : reviews'[r] = reviews[r]
          /\ reviews'[k] = None \/ reviews'[k].product = q
      <3>1. CASE Insert(w)
        <4>1. reviews' = [reviews EXCEPT ![k] = [product |-> q, rating |-> job[w].stars]]
          BY <1>0, <1>5, <3>1 DEF Insert, Change, Finish, CalmInv, IInv, Shape
        <4>. QED BY <1>1, <4>1 DEF CalmInv, IInv, Shape
      <3>2. CASE Write(w)
        <4>1. reviews' = Written(job[w]) /\ reviews[k] # None
          BY <1>0, <1>5, <3>2 DEF Write, Change, Finish, CalmInv, IInv, Shape
        <4>2. reviews[k] \in Reviews
          BY <1>1, <4>1 DEF CalmInv, IInv, Shape
        <4>3. CASE reviews' = [reviews EXCEPT ![k] = None]
          BY <1>1, <4>3 DEF CalmInv, IInv, Shape
        <4>4. CASE reviews' = [reviews EXCEPT ![k].rating = job[w].stars]
          <5>1. \A r \in ReviewIds \ {k} : reviews'[r] = reviews[r]
            BY <1>1, <4>4 DEF CalmInv, IInv, Shape
          <5>2. reviews'[k] = [reviews[k] EXCEPT !.rating = job[w].stars]
            BY <1>1, <4>4 DEF CalmInv, IInv, Shape
          <5>3. reviews'[k].product = reviews[k].product
            BY <5>2, <4>2 DEF Reviews
          <5>. QED BY <5>1, <5>3, <4>1, <2>3
        <4>. QED BY <1>0, <4>1, <4>3, <4>4 DEF Written
      <3>. QED BY <3>1, <3>2
    <2>5. ASSUME NEW p \in ProductIds, p # q
          PROVE  CaughtUp(p)'
      <3>1. \A r \in ReviewIds :
                reviews'[r] = reviews[r]
                \/ ( /\ reviews'[r] = None \/ reviews'[r].product # p
                     /\ reviews[r] = None \/ reviews[r].product # p )
        BY <2>3, <2>4, <2>5
      <3>2. RatingOf(reviews', p) = RatingOf(reviews, p)
        BY <3>1, RatingDependsOnItsRows
      <3>. QED BY <1>1, <1>2, <3>2, CaughtUpStays DEF CalmInv
    <2>6. ASSUME NEW v \in Workers, v # w
          PROVE  KnowsProduct(v)'
      <3>1. pc'[v] = pc[v] /\ job'[v] = job[v] /\ KnowsProduct(v)
        BY <1>2, <2>6 DEF OthersWait, CalmInv
      <3>2. pc[v] = "write" => job[v].review \in ReviewIds
        BY DEF CalmInv, IInv, HandlerTrue
      <3>3. CASE pc[v] = "write" /\ job[v].review = k /\ reviews[k] = None
        BY <1>1, <3>1, <3>3 DEF NoIdReturns, KnowsProduct
      <3>4. CASE pc[v] = "write" /\ job[v].review = k /\ reviews[k] # None
        BY <2>3, <2>4, <3>1, <3>4 DEF KnowsProduct
      <3>5. CASE pc[v] = "write" /\ job[v].review # k
        BY <2>4, <3>1, <3>2, <3>5 DEF KnowsProduct
      <3>6. CASE pc[v] # "write"
        BY <3>1, <3>6 DEF KnowsProduct
      <3>. QED BY <3>3, <3>4, <3>5, <3>6
    <2>. QED BY <1>2, <1>3, <2>2, <2>5, <2>6 DEF CalmInv
  <1>. QED BY <1>2, <1>4, <1>5

\* A handler that touches neither the table nor the cache
LEMMA ReaderStaysCalm ==
    ASSUME CalmInv, IInv', late' = {q \in ProductIds : NextLate(q)}, NEW w \in Workers,
           Read(w) \/ Requery(w) \/ Announce(w) \/ Publish(w) \/ Look(w) \/ Query(w)
    PROVE  CalmInv' /\ (pc'[w] = "fill" => Query(w))
  <1>1. /\ UNCHANGED <<reviews, cache>>
        /\ pc[w] \notin {"invalidate", "fill"} /\ OthersWait(w)
    BY DEF Read, Requery, Announce, Publish, Look, Query, Goto, Finish, OthersWait,
           CalmInv, IInv, Shape
  <1>2. \A p \in ProductIds : CaughtUp(p)'
    BY <1>1, CaughtUpStays DEF CalmInv
  <1>3. IsJob(job[w])
    BY DEF Read, Requery, Announce, Publish, Look, Query, CalmInv, IInv, HandlerTrue
  <1>4. KnowsProduct(w)'
    <2>1. CASE Read(w) /\ ~ Finish(w)
      <3>1. /\ job' = [job EXCEPT ![w].product = reviews[job[w].review].product]
            /\ pc' = [pc EXCEPT ![w] = "write"]
        BY <2>1 DEF Read
      <3>2. job'[w] = [job[w] EXCEPT !.product = reviews[job[w].review].product]
        BY <3>1 DEF CalmInv, IInv, Shape
      <3>3. job'[w].review = job[w].review /\ job'[w].product = reviews[job[w].review].product
        BY <3>2, <1>3 DEF IsJob
      <3>. QED BY <3>3, <1>1 DEF KnowsProduct
    <2>2. CASE pc'[w] # "write"
      BY <2>2 DEF KnowsProduct
    <2>. QED BY <2>1, <2>2
             DEF Read, Requery, Announce, Publish, Look, Query, Goto, Finish, CalmInv, IInv, Shape
  <1>5. pc'[w] = "fill" => Query(w)
    BY DEF Read, Requery, Announce, Publish, Look, Query, Goto, Finish, CalmInv, IInv, Shape
  <1>. QED BY <1>1, <1>2, <1>4, <1>5, TableStaysKnown DEF CalmInv

\* A change deletes what is cached, and an answer is right or late.
LEMMA CacheStaysCalm ==
    ASSUME CalmInv, IInv', late' = {q \in ProductIds : NextLate(q)}, NEW w \in Workers,
           Reliable!Step(w), pc[w] \in {"invalidate", "fill"}
    PROVE  CalmInv' /\ pc'[w] \in {"idle", "requery"}
  <1>0. PICK q, x : q = job[w].product /\ x = job[w].found
    OBVIOUS
  <1>1. Invalidate(w) \/ Fill(w)
    BY ReliableIsNormal DEF Step, Insert, Read, Write, Requery, Announce, Publish, Look, Query
  <1>2. UNCHANGED reviews /\ pc'[w] \in {"idle", "requery"} /\ OthersWait(w)
    BY <1>1 DEF Invalidate, Fill, Goto, Finish, OthersWait, CalmInv, IInv, Shape
  <1>3. \A v \in Workers : KnowsProduct(v)'
    BY <1>2, TableStaysKnown DEF KnowsProduct
  <1>4. PICK y : cache' = [cache EXCEPT ![q] = y] /\ (pc[w] = "invalidate" => y = None)
                 /\ (pc[w] = "fill" => y = x)
    BY <1>0, ReliableIsNormal
  <1>5. ASSUME NEW p \in ProductIds, p # q PROVE CaughtUp(p)'
    <2>1. cache'[p] = cache[p] /\ RatingOf(reviews', p) = RatingOf(reviews, p)
      BY <1>2, <1>4, <1>5 DEF CalmInv, IInv, Shape
    <2>. QED BY <1>0, <1>2, <1>5, <2>1, CaughtUpStays DEF CalmInv
  <1>6. ASSUME q \in ProductIds PROVE CaughtUp(q)'
    <2>1. cache'[q] = y
      BY <1>4, <1>6 DEF CalmInv, IInv, Shape
    <2>2. CASE pc[w] = "invalidate"
      BY <1>4, <2>1, <2>2 DEF CaughtUp
    <2>3. CASE pc[w] = "fill" /\ x = RatingOf(reviews, q)
      <3>1. RatingOf(reviews, q)' = x
        BY <1>2, <2>3 DEF RatingOf
      <3>. QED BY <1>4, <2>1, <2>3, <3>1 DEF CaughtUp
    <2>4. CASE pc[w] = "fill" /\ x # RatingOf(reviews, q)
      <3>1. Fills(w, q)
        BY <1>0, <1>2, <2>4 DEF Fills
      <3>2. q \in late'
        BY <1>0, <1>6, <2>4, <3>1 DEF NextLate
      <3>. QED BY <3>2 DEF CaughtUp
    <2>. QED BY <2>2, <2>3, <2>4
  <1>. QED BY <1>2, <1>3, <1>5, <1>6 DEF CalmInv

LEMMA ExpiryStaysCalm ==
    ASSUME CalmInv, IInv', late' = {q \in ProductIds : NextLate(q)},
           NEW p \in ProductIds, Expire(p)
    PROVE  CalmInv'
  <1>1. UNCHANGED <<reviews, pc, job>> /\ cache' = [cache EXCEPT ![p] = None]
    BY DEF Expire
  <1>2. ASSUME NEW q \in ProductIds PROVE CaughtUp(q)'
    <2>1. cache'[q] = None \/ cache'[q] = cache[q]
      BY <1>1 DEF CalmInv, IInv, Shape
    <2>2. RatingOf(reviews, q)' = RatingOf(reviews, q) /\ (Changing(q) => Changing(q)')
      BY <1>1 DEF RatingOf, Changing
    <2>3. q \in late => q \in late'
      BY <1>1 DEF NextLate, Fills
    <2>. QED BY <2>1, <2>2, <2>3 DEF CalmInv, CaughtUp
  <1>3. \A w \in Workers : KnowsProduct(w)'
    BY <1>1 DEF CalmInv, KnowsProduct
  <1>. QED BY <1>2, <1>3 DEF CalmInv

LEMMA StepStaysCalm ==
    ASSUME CalmInv, IInv', late' = {q \in ProductIds : NextLate(q)}, NoIdReturns,
           NEW w \in Workers, Reliable!Step(w)
    PROVE  CalmInv' /\ (pc'[w] = "fill" => Query(w))
  <1>1. Step(w)
    BY ReliableIsNormal
  <1>2. CASE Invalidate(w) \/ Fill(w)
    BY <1>2, CacheStaysCalm DEF Invalidate, Fill
  <1>. QED BY <1>1, <1>2, ChangeStaysCalm, ReaderStaysCalm DEF Step

\* A step in which nothing is done
LEMMA StutterStaysCalm ==
    ASSUME CalmInv, IInv', UNCHANGED <<vars, late>>
    PROVE  CalmInv'
  BY DEF CalmInv, CaughtUp, Changing, KnowsProduct, RatingOf, vars

-----------------------------------------------------------------------------
(* Requests that come one at a time *)

OneHandler == \A v, w \in Workers : pc[v] # "idle" /\ pc[w] # "idle" => v = w

\* The rating a handler has read is still so.
InStep(w) == pc[w] = "fill" => job[w].found = RatingOf(reviews, job[w].product)

AloneInv == CalmInv /\ OneHandler /\ late = {} /\ \A w \in Workers : InStep(w)

\* Nobody is late, since nobody else has changed what was read.
LEMMA NobodyIsLate ==
    ASSUME AloneInv, late' = {q \in ProductIds : NextLate(q)}
    PROVE  late' = {}
  BY DEF AloneInv, NextLate, Fills, InStep

\* A request waits until the one before has ended.
LEMMA RequestStaysAlone ==
    ASSUME AloneInv, CalmInv', late' = {}, NEW w \in Workers, OthersWait(w),
           \A v \in Workers : pc[v] = "idle", pc'[w] # "fill"
    PROVE  AloneInv'
  <1>1. \A v \in Workers \ {w} : pc'[v] = "idle"
    BY DEF OthersWait
  <1>2. OneHandler' /\ \A v \in Workers : InStep(v)'
    BY <1>1 DEF OneHandler, InStep
  <1>. QED BY <1>2 DEF AloneInv

LEMMA StepStaysAlone ==
    ASSUME AloneInv, CalmInv', late' = {}, NEW w \in Workers, Step(w), pc'[w] = "fill" => Query(w)
    PROVE  AloneInv'
  <1>1. pc[w] # "idle" /\ OthersWait(w)
    BY StepMovesOne DEF AloneInv, CalmInv
  <1>2. \A v \in Workers \ {w} : pc'[v] = "idle"
    BY <1>1 DEF AloneInv, OneHandler, OthersWait
  <1>3. CASE pc'[w] # "fill"
    BY <1>2, <1>3 DEF AloneInv, OneHandler, InStep
  <1>4. CASE Query(w)
    <2>1. /\ job' = [job EXCEPT ![w].found = RatingOf(reviews, job[w].product)]
          /\ UNCHANGED reviews /\ IsJob(job[w])
      BY <1>4 DEF Query, AloneInv, CalmInv, IInv, HandlerTrue
    <2>2. job'[w] = [job[w] EXCEPT !.found = RatingOf(reviews, job[w].product)]
      BY <2>1 DEF AloneInv, CalmInv, IInv, Shape
    <2>3. job'[w].product = job[w].product /\ job'[w].found = RatingOf(reviews, job[w].product)
      BY <2>1, <2>2 DEF IsJob
    <2>4. InStep(w)'
      BY <2>1, <2>3 DEF InStep, RatingOf
    <2>. QED BY <1>2, <2>4 DEF AloneInv, OneHandler, InStep
  <1>. QED BY <1>3, <1>4

LEMMA CalmIsSound == MCSpec => [](IInv /\ (alone => calm /\ AloneInv) /\ (calm => CalmInv))
  <1> DEFINE Inv == IInv /\ (alone => calm /\ AloneInv) /\ (calm => CalmInv)
  <1>1. MCInit => Inv
    <2> SUFFICES ASSUME MCInit PROVE Inv
      OBVIOUS
    <2>1. IInv
      BY InitIsTrue DEF MCInit
    <2>2. CalmInv /\ AloneInv
      BY <2>1 DEF CalmInv, AloneInv, MCInit, Init, OneHandler, CaughtUp, KnowsProduct, InStep
    <2>. QED BY <2>1, <2>2 DEF MCInit
  <1>2. Inv /\ [MCNext]_mcVars => Inv'
    <2> SUFFICES ASSUME Inv, [MCNext]_mcVars PROVE Inv'
      OBVIOUS
    <2>1. [Next]_vars
      BY ReliableIsNormal DEF MCNext, mcVars, Next
    <2>2. IInv'
      BY <2>1, NextIsTrue
    <2>3. UNCHANGED <<alone, calm>>
      BY DEF MCNext, mcVars
    <2>4. ASSUME calm PROVE CalmInv' /\ (alone => AloneInv')
      <3>1. CASE UNCHANGED mcVars
        <4>1. CalmInv'
          BY <2>2, <2>4, <3>1, StutterStaysCalm DEF mcVars
        <4>. QED BY <3>1, <4>1 DEF mcVars, vars, AloneInv, OneHandler, InStep, RatingOf
      <3>2. ASSUME NEW w \in Workers, Request(w),
                   alone => \A v \in Workers : pc[v] = "idle",
                   late' = {p \in ProductIds : NextLate(p)}
            PROVE  CalmInv' /\ (alone => AloneInv')
        BY <2>2, <2>4, <3>2, RequestStaysCalm, NobodyIsLate, RequestStaysAlone
      <3>3. ASSUME NEW w \in Workers, Reliable!Step(w), NoIdReturns,
                   late' = {p \in ProductIds : NextLate(p)}
            PROVE  CalmInv' /\ (alone => AloneInv')
        BY <2>2, <2>4, <3>3, StepStaysCalm, ReliableIsNormal, NobodyIsLate, StepStaysAlone
      <3>4. ASSUME NEW p \in ProductIds, Expire(p),
                   late' = {q \in ProductIds : NextLate(q)}
            PROVE  CalmInv' /\ (alone => AloneInv')
        <4>1. CalmInv'
          BY <2>2, <2>4, <3>4, ExpiryStaysCalm
        <4>2. alone => late' = {}
          BY <3>4, NobodyIsLate
        <4>. QED BY <3>4, <4>1, <4>2 DEF Expire, AloneInv, OneHandler, InStep, RatingOf
      <3>. QED BY <2>4, <3>1, <3>2, <3>3, <3>4, ReliableIsNormal
               DEF MCNext, Reliable!Internal
    <2>. QED BY <2>2, <2>3, <2>4
  <1>. QED BY <1>1, <1>2, PTL DEF MCSpec

\* What is cached when no handler runs is the rating, as long as requests come
\* one at a time and nothing fails.
THEOREM CacheCatchesUp == MCSpec => []AloneCacheCatchesUp
  <1>1. IInv /\ (alone => calm /\ AloneInv) /\ (calm => CalmInv) => AloneCacheCatchesUp
    BY DEF AloneInv, CalmInv, CaughtUp, Changing, AloneCacheCatchesUp
  <1>. QED BY <1>1, CalmIsSound, PTL

\* While nothing fails, an old rating is cached because a Rating stored it
\* after the change, or its change is about to delete it; however many requests
\* meet.
THEOREM OldRatingsAreLate == MCSpec => []OnlyLateRatingsStay
  <1>1. IInv /\ (alone => calm /\ AloneInv) /\ (calm => CalmInv) => OnlyLateRatingsStay
    BY DEF CalmInv, CaughtUp, Changing, OnlyLateRatingsStay
  <1>. QED BY <1>1, CalmIsSound, PTL

=============================================================================
