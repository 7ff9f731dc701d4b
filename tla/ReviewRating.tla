----------------------------- MODULE ReviewRating -----------------------------
(***************************************************************************)
(* The review service: Create, Update, Delete and Rating of                *)
(* review-service/internal/review/service.go, run by concurrent requests   *)
(* over PostgreSQL, a Redis cache of each product's rating, and NATS.      *)
(*                                                                         *)
(* A change of a review commits, deletes the cached rating, reads the      *)
(* rating again and announces it.  Rating answers from the cache, and      *)
(* fills it after a miss with what it read from PostgreSQL.                *)
(***************************************************************************)
EXTENDS Naturals, FiniteSets

CONSTANTS
    Workers,    \* request handlers running at the same time
    ReviewIds,  \* the ids "rev-<nanoseconds>" may take
    ProductIds, \* the products that are reviewed
    Numbers,    \* the ratings a request may carry
    Faults,     \* what may fail: "redis", "nats", "postgres"
    None        \* no row, no rating, no job

Stars == 1 .. 5

\* Average and count as what they are computed from: how many reviews gave
\* each number of stars.
Ratings == [Stars -> Nat]
Reviews == [product : ProductIds, rating : Stars]

Jobs == [op : {"create", "update", "delete", "rating"}, review : ReviewIds \cup {None},
         product : ProductIds \cup {None}, stars : Stars \cup {None}, found : Ratings \cup {None}]

ASSUME NoneIsNothing ==
    None \notin ReviewIds \cup ProductIds \cup Stars \cup Ratings \cup Reviews \cup Jobs

ASSUME FiniteReviews == IsFiniteSet(ReviewIds)

ASSUME KnownFaults == Faults \subseteq {"redis", "nats", "postgres"}

VARIABLES
    reviews,   \* table reviews
    cache,     \* Redis: product:<id>:rating
    published, \* the events that reached NATS
    had,       \* ghost: every <<product, rating>> there has been
    pc,        \* what each handler does next
    job        \* what it works on

vars == <<reviews, cache, published, had, pc, job>>

Labels == {"idle", "insert", "read", "write", "invalidate", "requery", "announce", "publish",
           "look", "query", "fill"}

\* SELECT COALESCE(AVG(rating),0), COUNT( * ) ... WHERE product_id=$1
RatingOf(table, p) ==
    [s \in Stars |-> Cardinality({r \in ReviewIds :
                         table[r] # None /\ table[r].product = p /\ table[r].rating = s})]

Init ==
    /\ reviews   = [r \in ReviewIds |-> None]
    /\ cache     = [p \in ProductIds |-> None]
    /\ published = {}
    /\ had       = {<<p, RatingOf(reviews, p)>> : p \in ProductIds}
    /\ pc        = [w \in Workers |-> "idle"]
    /\ job       = [w \in Workers |-> None]

-----------------------------------------------------------------------------

Start(w, label, op, r, p, s) ==
    /\ pc[w] = "idle"
    /\ pc'  = [pc EXCEPT ![w] = label]
    /\ job' = [job EXCEPT ![w] =
                 [op |-> op, review |-> r, product |-> p, stars |-> s, found |-> None]]
    /\ UNCHANGED <<reviews, cache, published, had>>

Goto(w, label) == pc' = [pc EXCEPT ![w] = label] /\ UNCHANGED job

Finish(w) ==
    /\ pc'  = [pc EXCEPT ![w] = "idle"]
    /\ job' = [job EXCEPT ![w] = None]

Create(w) ==
    \E r \in ReviewIds, p \in ProductIds, s \in Numbers :
        s \in Stars /\ Start(w, "insert", "create", r, p, s)

Update(w) ==
    \E r \in ReviewIds, s \in Numbers :
        s \in Stars /\ Start(w, "read", "update", r, None, s)

Delete(w) == \E r \in ReviewIds : Start(w, "read", "delete", r, None, None)

Rating(w) == \E p \in ProductIds : Start(w, "look", "rating", None, p, None)

-----------------------------------------------------------------------------
(* Changes of reviews *)

\* A committed change of the table.
Change(table) ==
    /\ reviews' = table
    /\ had' = had \cup {<<p, RatingOf(table, p)>> : p \in ProductIds}

\* repo.Create: the INSERT of an id that exists violates the primary key.
Insert(w) ==
    /\ pc[w] = "insert"
    /\ LET r == job[w].review
       IN  \/ /\ reviews[r] # None
              /\ Finish(w)
              /\ UNCHANGED <<reviews, had>>
           \/ /\ reviews[r] = None
              /\ Change([reviews EXCEPT ![r] = [product |-> job[w].product, rating |-> job[w].stars]])
              /\ Goto(w, "invalidate")
    /\ UNCHANGED <<cache, published>>

\* repo.GetByID; the product is taken from the row.
Read(w) ==
    /\ pc[w] = "read"
    /\ LET row == reviews[job[w].review]
       IN  IF row = None
           THEN Finish(w)
           ELSE /\ job' = [job EXCEPT ![w].product = row.product]
                /\ pc'  = [pc EXCEPT ![w] = "write"]
    /\ UNCHANGED <<reviews, cache, published, had>>

\* Mutant: a row that is gone is written again.
Upserted(j) ==
    IF j.op = "delete" THEN [reviews EXCEPT ![j.review] = None]
    ELSE [reviews EXCEPT ![j.review] = [product |-> j.product, rating |-> j.stars]]

\* UPDATE reviews SET rating=$2 WHERE id=$1, or DELETE: a row that is gone
\* stays gone.
Written(j) ==
    IF j.op = "delete" \/ reviews[j.review] = None THEN [reviews EXCEPT ![j.review] = None]
    ELSE [reviews EXCEPT ![j.review].rating = j.stars]

\* repo.Update and repo.Delete: when no row was affected the handler ends.
Write(w) ==
    /\ pc[w] = "write"
    /\ Change(Written(job[w]))
    /\ \/ reviews[job[w].review] = None /\ Finish(w)
       \/ reviews[job[w].review] # None /\ Goto(w, "invalidate")
    /\ UNCHANGED <<cache, published>>

\* Mutant: the rating is left in the cache.
KeepCached(w) ==
    /\ pc[w] = "invalidate"
    /\ Goto(w, "requery")
    /\ UNCHANGED <<reviews, cache, published, had>>

\* ratingChanged: the cached rating is deleted; an error is ignored.
Invalidate(w) ==
    /\ pc[w] = "invalidate"
    /\ \/ cache' = [cache EXCEPT ![job[w].product] = None]
       \/ "redis" \in Faults /\ UNCHANGED cache
    /\ Goto(w, "requery")
    /\ UNCHANGED <<reviews, published, had>>

\* ratingChanged: the rating is read again; after an error none is announced.
Requery(w) ==
    /\ pc[w] = "requery"
    /\ \/ /\ job' = [job EXCEPT ![w].found = RatingOf(reviews, job[w].product)]
          /\ pc'  = [pc EXCEPT ![w] = "announce"]
       \/ "postgres" \in Faults /\ Goto(w, "publish")
    /\ UNCHANGED <<reviews, cache, published, had>>

\* Mutant: the rating that was read is cached when it is announced.
AnnounceAndCache(w) ==
    /\ pc[w] = "announce"
    /\ \/ published' = published \cup {<<"product.rating.updated", job[w].product, job[w].found>>}
       \/ "nats" \in Faults /\ UNCHANGED published
    /\ cache' = [cache EXCEPT ![job[w].product] = job[w].found]
    /\ Goto(w, "publish")
    /\ UNCHANGED <<reviews, had>>

\* PublishRatingUpdated; an error is ignored.
Announce(w) ==
    /\ pc[w] = "announce"
    /\ \/ published' = published \cup {<<"product.rating.updated", job[w].product, job[w].found>>}
       \/ "nats" \in Faults /\ UNCHANGED published
    /\ Goto(w, "publish")
    /\ UNCHANGED <<reviews, cache, had>>

Subject == [op \in {"create", "update", "delete"} |->
               CASE op = "create" -> "review.created"
                 [] op = "update" -> "review.updated"
                 [] op = "delete" -> "review.deleted"]

\* PublishReviewCreated, PublishReviewUpdated, PublishReviewDeleted.
Publish(w) ==
    /\ pc[w] = "publish"
    /\ \/ published' = published \cup {<<Subject[job[w].op], job[w].product, job[w].review>>}
       \/ "nats" \in Faults /\ UNCHANGED published
    /\ Finish(w)
    /\ UNCHANGED <<reviews, cache, had>>

-----------------------------------------------------------------------------
(* Reading a rating *)

\* cache.GetRating: a hit is the answer; a miss and an error go on.
Look(w) ==
    /\ pc[w] = "look"
    /\ \/ cache[job[w].product] # None /\ Finish(w)
       \/ /\ cache[job[w].product] = None \/ "redis" \in Faults
          /\ Goto(w, "query")
    /\ UNCHANGED <<reviews, cache, published, had>>

Query(w) ==
    /\ pc[w] = "query"
    /\ job' = [job EXCEPT ![w].found = RatingOf(reviews, job[w].product)]
    /\ pc'  = [pc EXCEPT ![w] = "fill"]
    /\ UNCHANGED <<reviews, cache, published, had>>

\* Mutant: one key for all products.
SharedKey(p) == CHOOSE q \in ProductIds : TRUE

\* key: the product whose entry is written.
Key(p) == p

\* cache.SetRating; an error is ignored.
Fill(w) ==
    /\ pc[w] = "fill"
    /\ \/ cache' = [cache EXCEPT ![Key(job[w].product)] = job[w].found]
       \/ "redis" \in Faults /\ UNCHANGED cache
    /\ Finish(w)
    /\ UNCHANGED <<reviews, published, had>>

-----------------------------------------------------------------------------

\* PostgreSQL returns an error, before or after its statement was committed,
\* or the process dies, which is an error of each of its handlers.
Fail(w) ==
    /\ "postgres" \in Faults
    /\ pc[w] \in {"insert", "read", "write", "invalidate", "query"}
    /\ Finish(w)
    /\ UNCHANGED <<reviews, cache, published, had>>

\* The TTL of an hour runs out.
Expire(p) ==
    /\ cache[p] # None
    /\ cache' = [cache EXCEPT ![p] = None]
    /\ UNCHANGED <<reviews, published, had, pc, job>>

Request(w) == Create(w) \/ Update(w) \/ Delete(w) \/ Rating(w)

Step(w) ==
    \/ Insert(w) \/ Read(w) \/ Write(w)
    \/ Invalidate(w) \/ Requery(w) \/ Announce(w) \/ Publish(w)
    \/ Look(w) \/ Query(w) \/ Fill(w)

Internal ==
    \/ \E w \in Workers : Step(w) \/ Fail(w)
    \/ \E p \in ProductIds : Expire(p)

Next == (\E w \in Workers : Request(w)) \/ Internal

Spec == Init /\ [][Next]_vars

-----------------------------------------------------------------------------
(* Properties *)

\* The shape of the state; a job exists exactly while a handler runs.
TypeOK ==
    /\ reviews \in [ReviewIds -> Reviews \cup {None}]
    /\ cache \in [ProductIds -> Ratings \cup {None}]
    /\ had \subseteq ProductIds \X Ratings
    /\ pc \in [Workers -> Labels]
    /\ job \in [Workers -> Jobs \cup {None}]
    /\ \A w \in Workers : pc[w] = "idle" <=> job[w] = None

\* A rating that is cached or announced may be out of date, but it was the
\* rating of that product: it mixes no two states of the table and no two
\* products, whatever raced or failed.
RatingsWereTrue ==
    /\ \A p \in ProductIds : cache[p] # None => <<p, cache[p]>> \in had
    /\ \A e \in published : e[1] = "product.rating.updated" => <<e[2], e[3]>> \in had

\* A deleted review does not come back by an Update that had read it: only
\* Create adds a row.
OnlyCreateAdds ==
    [][\A r \in ReviewIds :
          reviews[r] = None /\ reviews'[r] # None =>
              \E w \in Workers : pc[w] = "insert" /\ job[w].review = r]_vars

=============================================================================
