----------------------------- MODULE ProductStock -----------------------------
(***************************************************************************)
(* The product service: Create, UpdateStock, ReserveStock, ReleaseStock    *)
(* and AddImage of product-service/internal/product/service.go, run by     *)
(* concurrent requests over PostgreSQL, MinIO and NATS.                    *)
(*                                                                         *)
(* The three stock operations read the row, compute the new stock from     *)
(* what they read, and write the whole row back, its image_url included.   *)
(* AddImage stores the object first; one transaction then inserts the      *)
(* image and sets image_url.  A process that dies is Fail for each of its  *)
(* handlers: they share no memory.                                         *)
(***************************************************************************)
EXTENDS Integers

CONSTANTS
    Workers,    \* request handlers running at the same time
    ProductIds, \* the ids "prd-<nanoseconds>" may take
    Moments,    \* the nanoseconds that name an image and its object
    Amounts,    \* the numbers a request may carry
    None        \* no row, no image, no job

ASSUME AmountsAreIntegers == Amounts \subseteq Int

Rows       == [stock : Int, image : Moments \cup {None}]
Operations == {"create", "set", "reserve", "release", "image"}

\* What a handler works on: row is the copy it has read.
Jobs == [op : Operations, product : ProductIds, amount : Amounts \cup {0},
         image : Moments \cup {None}, row : Rows \cup {None}]

ASSUME NoneIsNothing == None \notin ProductIds \cup Moments \cup Rows \cup Jobs

VARIABLES
    products,  \* table products
    images,    \* table product_images: the product of each image
    objects,   \* MinIO: the objects <<product, moment>>
    published, \* the <<product, stock>> that reached NATS
    held,      \* ghost: every <<product, stock>> there has been
    entered,   \* ghost: the largest stock entered for each product
    released,  \* ghost: the sum of what was released
    pc,        \* what each handler does next
    job        \* what it works on

tables   == <<products, images>>
outside  == <<objects, published>>
ghosts   == <<held, entered, released>>
handlers == <<pc, job>>
vars     == <<tables, outside, ghosts, handlers>>

Labels == {"idle", "insert", "read", "update", "publish", "save", "record"}

Init ==
    /\ products  = [p \in ProductIds |-> None]
    /\ images    = [m \in Moments |-> None]
    /\ objects   = {}
    /\ published = {}
    /\ held      = {}
    /\ entered   = [p \in ProductIds |-> 0]
    /\ released  = [p \in ProductIds |-> 0]
    /\ pc        = [w \in Workers |-> "idle"]
    /\ job       = [w \in Workers |-> None]

-----------------------------------------------------------------------------
(* How a handler starts *)

Start(w, label, op, p, n, m) ==
    /\ pc[w] = "idle"
    /\ pc'  = [pc EXCEPT ![w] = label]
    /\ job' = [job EXCEPT ![w] =
                 [op |-> op, product |-> p, amount |-> n, image |-> m, row |-> None]]
    /\ UNCHANGED <<tables, outside, ghosts>>

Goto(w, label) == pc' = [pc EXCEPT ![w] = label] /\ UNCHANGED job

Finish(w) ==
    /\ pc'  = [pc EXCEPT ![w] = "idle"]
    /\ job' = [job EXCEPT ![w] = None]

\* A name and a price that are valid too; a stock that is not negative.
Create(w) ==
    \E p \in ProductIds, n \in Amounts :
        n >= 0 /\ Start(w, "insert", "create", p, n, None)

UpdateStock(w) ==
    \E p \in ProductIds, n \in Amounts :
        n >= 0 /\ Start(w, "read", "set", p, n, None)

ReserveStock(w) ==
    \E p \in ProductIds, n \in Amounts :
        n > 0 /\ Start(w, "read", "reserve", p, n, None)

ReleaseStock(w) ==
    \E p \in ProductIds, n \in Amounts :
        n > 0 /\ Start(w, "read", "release", p, n, None)

\* The product is not looked up before its image is stored.
AddImage(w) ==
    \E p \in ProductIds, m \in Moments : Start(w, "save", "image", p, 0, m)

-----------------------------------------------------------------------------
(* Stock *)

\* Mutant: entering a stock adds it to the one read.
AddedStock(j) ==
    CASE j.op = "create"  -> j.amount
      [] j.op = "set"     -> j.row.stock + j.amount
      [] j.op = "reserve" -> j.row.stock - j.amount
      [] j.op = "release" -> j.row.stock + j.amount

\* The stock an operation writes.
NewStock(j) ==
    CASE j.op \in {"create", "set"} -> j.amount
      [] j.op = "reserve"           -> j.row.stock - j.amount
      [] j.op = "release"           -> j.row.stock + j.amount

\* Mutant: off by one.
LacksMoreThanOne(j, row) == j.op = "reserve" /\ row.stock + 1 < j.amount

\* Only ReserveStock looks at the stock.
Lacks(j, row) == j.op = "reserve" /\ row.stock < j.amount

\* What the committed write of w leaves in the ghosts.
Record(w) ==
    LET j == job[w]
        p == j.product
    IN  /\ held' = held \cup {<<p, NewStock(j)>>}
        /\ entered' = IF j.op \in {"create", "set"} /\ j.amount > entered[p]
                      THEN [entered EXCEPT ![p] = j.amount] ELSE entered
        /\ released' = IF j.op = "release"
                       THEN [released EXCEPT ![p] = @ + j.amount] ELSE released

\* repo.Create: the INSERT of an id that exists violates the primary key.
Insert(w) ==
    /\ pc[w] = "insert"
    /\ LET p == job[w].product
       IN  \/ /\ products[p] # None
              /\ Finish(w)
              /\ UNCHANGED <<products, ghosts>>
           \/ /\ products[p] = None
              /\ products' = [products EXCEPT ![p] = [stock |-> NewStock(job[w]), image |-> None]]
              /\ Record(w)
              /\ Goto(w, "publish")
    /\ UNCHANGED <<images, outside>>

\* repo.GetByID and the checks of the row it returns.
Read(w) ==
    /\ pc[w] = "read"
    /\ LET row == products[job[w].product]
       IN  IF row = None \/ Lacks(job[w], row)
           THEN Finish(w)
           ELSE /\ job' = [job EXCEPT ![w].row = row]
                /\ pc'  = [pc EXCEPT ![w] = "update"]
    /\ UNCHANGED <<tables, outside, ghosts>>

\* Mutant: the row is built from the request alone.
FreshRow(j) == [stock |-> NewStock(j), image |-> None]

\* What repo.Update writes: every column of the copy.
NewRow(j) == [j.row EXCEPT !.stock = NewStock(j)]

\* CHECK (stock >= 0).
Allowed(j) == NewStock(j) >= 0

UpdateRow(w) ==
    /\ pc[w] = "update"
    /\ \/ /\ ~Allowed(job[w])
          /\ Finish(w)
          /\ UNCHANGED <<products, ghosts>>
       \/ /\ Allowed(job[w])
          /\ products' = [products EXCEPT ![job[w].product] = NewRow(job[w])]
          /\ Record(w)
          /\ Goto(w, "publish")
    /\ UNCHANGED <<images, outside>>

\* NATS may fail or be absent, which is ignored.
Publish(w) ==
    /\ pc[w] = "publish"
    /\ \/ published' = published \cup {<<job[w].product, NewStock(job[w])>>}
       \/ UNCHANGED published
    /\ Finish(w)
    /\ UNCHANGED <<tables, objects, ghosts>>

-----------------------------------------------------------------------------
(* Images *)

\* Mutant: an object that could not be stored is not noticed.
SaveUnchecked(w) ==
    /\ pc[w] = "save"
    /\ \/ objects' = objects \cup {<<job[w].product, job[w].image>>}
       \/ UNCHANGED objects
    /\ Goto(w, "record")
    /\ UNCHANGED <<tables, published, ghosts>>

SaveObject(w) ==
    /\ pc[w] = "save"
    /\ objects' = objects \cup {<<job[w].product, job[w].image>>}
    /\ Goto(w, "record")
    /\ UNCHANGED <<tables, published, ghosts>>

\* repo.AddImage, one transaction.  The foreign key refuses the image of a
\* product that does not exist, the primary key a moment that is taken.
RecordImage(w) ==
    /\ pc[w] = "record"
    /\ LET p == job[w].product
           m == job[w].image
       IN  \/ /\ products[p] = None \/ images[m] # None
              /\ UNCHANGED tables
           \/ /\ products[p] # None /\ images[m] = None
              /\ images'   = [images EXCEPT ![m] = p]
              /\ products' = [products EXCEPT ![p].image = m]
    /\ Finish(w)
    /\ UNCHANGED <<outside, ghosts>>

-----------------------------------------------------------------------------

\* Mutant: an error of the repository does not end the operation.
FailAndGoOn(w) ==
    /\ pc[w] \in {"insert", "read", "update", "save", "record"}
    /\ IF pc[w] = "update" THEN Goto(w, "publish") ELSE Finish(w)
    /\ UNCHANGED <<tables, outside, ghosts>>

\* PostgreSQL or MinIO returns an error.  A write whose answer is lost is the
\* write and a Publish that publishes nothing.
Fail(w) ==
    /\ pc[w] \in {"insert", "read", "update", "save", "record"}
    /\ Finish(w)
    /\ UNCHANGED <<tables, outside, ghosts>>

Request(w) ==
    Create(w) \/ UpdateStock(w) \/ ReserveStock(w) \/ ReleaseStock(w) \/ AddImage(w)

Step(w) ==
    \/ Insert(w) \/ Read(w) \/ UpdateRow(w) \/ Publish(w)
    \/ SaveObject(w) \/ RecordImage(w)

Next == \E w \in Workers : Request(w) \/ Step(w) \/ Fail(w)

Spec == Init /\ [][Next]_vars

-----------------------------------------------------------------------------
(* Properties *)

\* The shape of the state, and what a handler's label says of its job.
TypeOK ==
    /\ products \in [ProductIds -> Rows \cup {None}]
    /\ images \in [Moments -> ProductIds \cup {None}]
    /\ objects \subseteq ProductIds \X Moments
    /\ published \subseteq ProductIds \X Int
    /\ held \subseteq ProductIds \X Int
    /\ entered \in [ProductIds -> Nat]
    /\ released \in [ProductIds -> Nat]
    /\ pc \in [Workers -> Labels]
    /\ job \in [Workers -> Jobs \cup {None}]
    /\ \A w \in Workers : pc[w] = "idle" <=> job[w] = None

\* ReserveStock's own check keeps the stock from going negative under every
\* interleaving: PostgreSQL's CHECK never has to refuse a write.
ConstraintNeverFires ==
    \A w \in Workers : pc[w] = "update" => Allowed(job[w])

\* Stale writes bring back old stock but never make any up: a row holds at
\* most the largest stock entered and all that was released.
StockHasASource ==
    \A p \in ProductIds :
        products[p] # None => products[p].stock <= entered[p] + released[p]

\* Whatever stock an event announces, the product had it: no event of a write
\* that failed.
AnnouncedWasHeld == published \subseteq held

\* The image a product shows is one that was recorded for it and whose object
\* is in the bucket, also after a stale write has brought an old one back.
ImageIsStored ==
    \A p \in ProductIds :
        products[p] # None /\ products[p].image # None =>
            /\ images[products[p].image] = p
            /\ <<p, products[p].image>> \in objects

\* A write of a stock operation that moves the stock there is by its quantity
\* and leaves the image alone.
StockMoves ==
    \A w \in Workers :
        LET j   == job[w]
            old == products[j.product]
            new == products'[j.product]
        IN  pc[w] = "update" /\ pc'[w] = "publish" =>
              /\ j.op = "reserve" => new.stock = old.stock - j.amount
              /\ j.op = "release" => new.stock = old.stock + j.amount
              /\ new.image = old.image

=============================================================================
