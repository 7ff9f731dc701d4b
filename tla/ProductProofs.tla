---------------------------- MODULE ProductProofs ----------------------------
(***************************************************************************)
(* The safety invariants of ProductStock for all sets of handlers,         *)
(* products, moments and amounts.  None is inductive: a handler may write  *)
(* a row it read long ago, so what holds of the rows must hold of every    *)
(* copy too, and stay true of it while others go on (Sound, SoundStays).   *)
(***************************************************************************)
EXTENDS MCProductStock, TLAPS

\* What is true of the row of product p and of every copy of it.
Sound(p, row) ==
    /\ row.stock >= 0
    /\ row.stock <= entered[p] + released[p]
    /\ row.image # None => images[row.image] = p /\ <<p, row.image>> \in objects

RowsSound == \A p \in ProductIds : products[p] # None => Sound(p, products[p])

\* What a handler's label says of its job.
JobSound(label, j) ==
    /\ label = "insert" => j.op = "create"
    /\ label \in {"read", "update"} => j.op \in {"set", "reserve", "release"}
    /\ label = "publish" => j.op # "image" /\ (j.op \in {"reserve", "release"} => j.row \in Rows)
    /\ label \in {"save", "record"} => j.op = "image" /\ j.image \in Moments
    /\ j.op \in {"create", "set"} => j.amount >= 0
    /\ j.op \in {"reserve", "release"} => j.amount > 0
    /\ label = "update" => j.row \in Rows /\ (j.op = "reserve" => j.row.stock >= j.amount)

\* A handler about to write holds a sound copy; one about to publish has
\* written what it announces; one about to record an image has stored it.
HandlerSound(w) ==
    /\ pc[w] # "idle" => JobSound(pc[w], job[w])
    /\ pc[w] = "update" => Sound(job[w].product, job[w].row)
    /\ pc[w] = "publish" => <<job[w].product, NewStock(job[w])>> \in held
    /\ pc[w] = "record" => <<job[w].product, job[w].image>> \in objects

IInv ==
    /\ TypeOK
    /\ RowsSound
    /\ \A w \in Workers : HandlerSound(w)
    /\ AnnouncedWasHeld

-----------------------------------------------------------------------------
(* What only grows, and what that leaves alone *)

Grows ==
    /\ \A p \in ProductIds : entered'[p] >= entered[p] /\ released'[p] >= released[p]
    /\ held \subseteq held'
    /\ objects \subseteq objects'
    /\ \A m \in Moments : images[m] # None => images'[m] = images[m]

\* The parts of a job.
LEMMA JobParts ==
    ASSUME NEW j \in Jobs
    PROVE  /\ j.product \in ProductIds /\ j.op \in Operations
           /\ j.amount \in Int
           /\ j.image \in Moments \cup {None}
           /\ j.row \in Rows \cup {None}
  <1>1. j.amount \in Amounts \cup {0}
    BY DEF Jobs
  <1>2. \A n \in Amounts : n \in Int
    BY AmountsAreIntegers, Zenon
  <1>3. j.amount \in Int
    BY <1>1, <1>2
  <1>. QED BY <1>3 DEF Jobs

\* What is sound stays sound while the rest of the service goes on.
LEMMA SoundStays ==
    ASSUME TypeOK, TypeOK', Grows,
           NEW p \in ProductIds, NEW row \in Rows, Sound(p, row)
    PROVE  Sound(p, row)'
  <1>1. /\ row.stock \in Int
        /\ row.image # None => row.image \in Moments
    BY DEF Rows
  <1>2. /\ entered[p] \in Nat /\ released[p] \in Nat
        /\ entered'[p] \in Nat /\ released'[p] \in Nat
        /\ entered'[p] >= entered[p] /\ released'[p] >= released[p]
    BY DEF TypeOK, Grows
  <1>3. row.stock >= 0 /\ row.stock <= entered'[p] + released'[p]
    BY <1>1, <1>2 DEF Sound
  <1>4. row.image # None => images'[row.image] = p /\ <<p, row.image>> \in objects'
    <2>1. p # None
      BY NoneIsNothing
    <2>. QED BY <1>1, <2>1 DEF Sound, Grows
  <1>. QED BY <1>3, <1>4 DEF Sound

\* A step of handler w leaves the others sound.
LEMMA OthersStay ==
    ASSUME IInv, TypeOK', Grows, NEW w \in Workers,
           \A v \in Workers \ {w} : pc'[v] = pc[v] /\ job'[v] = job[v]
    PROVE  \A v \in Workers \ {w} : HandlerSound(v)'
  <1> SUFFICES ASSUME NEW v \in Workers \ {w} PROVE HandlerSound(v)'
    OBVIOUS
  <1>0. pc'[v] = pc[v] /\ job'[v] = job[v] /\ HandlerSound(v)
    BY DEF IInv
  <1>1. (pc[v] # "idle" => JobSound(pc[v], job[v]))'
    BY <1>0 DEF HandlerSound, JobSound
  <1>2. (pc[v] = "update" => Sound(job[v].product, job[v].row))'
    <2> SUFFICES ASSUME pc[v] = "update" PROVE Sound(job[v].product, job[v].row)'
      BY <1>0
    <2>1. job[v] \in Jobs
      BY DEF IInv, TypeOK
    <2>2. job[v].product \in ProductIds /\ job[v].row \in Rows
      BY <2>1, <1>0 DEF Jobs, HandlerSound, JobSound
    <2>3. Sound(job[v].product, job[v].row)
      BY <1>0 DEF HandlerSound
    <2>. QED BY <1>0, <2>2, <2>3, SoundStays DEF Sound, IInv
  <1>3. (pc[v] = "publish" => <<job[v].product, NewStock(job[v])>> \in held)'
    BY <1>0 DEF HandlerSound, Grows, NewStock
  <1>4. (pc[v] = "record" => <<job[v].product, job[v].image>> \in objects)'
    BY <1>0 DEF HandlerSound, Grows
  <1>. QED BY <1>1, <1>2, <1>3, <1>4 DEF HandlerSound

-----------------------------------------------------------------------------
(* The steps of a handler *)

\* What every step of w leaves alone.
OthersWait(w) == \A v \in Workers \ {w} : pc'[v] = pc[v] /\ job'[v] = job[v]

\* It is enough to look at the rows, the handler that moved and the events.
LEMMA StepIsSound ==
    ASSUME IInv, NEW w \in Workers, TypeOK', Grows, OthersWait(w),
           \A p \in ProductIds : products'[p] # products[p] => Sound(p, products[p])',
           HandlerSound(w)', AnnouncedWasHeld'
    PROVE  IInv'
  <1>1. RowsSound'
    <2> SUFFICES ASSUME NEW p \in ProductIds, products'[p] # None
                 PROVE  Sound(p, products[p])'
      BY DEF RowsSound
    <2>1. CASE products'[p] # products[p]
      BY <2>1
    <2>2. CASE products'[p] = products[p]
      <3>1. products[p] \in Rows /\ Sound(p, products[p])
        BY <2>2 DEF IInv, TypeOK, RowsSound
      <3>. QED BY <2>2, <3>1, SoundStays DEF Sound, IInv
    <2>. QED BY <2>1, <2>2
  <1>2. \A v \in Workers : HandlerSound(v)'
    BY OthersStay DEF OthersWait
  <1>. QED BY <1>1, <1>2 DEF IInv

LEMMA StartIsSound ==
    ASSUME IInv, NEW w \in Workers,
           NEW label \in {"insert", "read", "save"}, NEW op \in Operations,
           NEW p \in ProductIds, NEW n \in Amounts \cup {0}, NEW m \in Moments \cup {None},
           label = "insert" => op = "create",
           label = "read" => op \in {"set", "reserve", "release"},
           label = "save" => op = "image" /\ m \in Moments,
           op \in {"create", "set"} => n >= 0,
           op \in {"reserve", "release"} => n > 0,
           Start(w, label, op, p, n, m)
    PROVE  IInv'
  <1> DEFINE j == [op |-> op, product |-> p, amount |-> n, image |-> m, row |-> None]
  <1>1. j \in Jobs /\ j # None
    BY NoneIsNothing DEF Jobs
  <1>2. /\ pc[w] = "idle"
        /\ pc'  = [pc EXCEPT ![w] = label]
        /\ job' = [job EXCEPT ![w] = j]
        /\ UNCHANGED <<products, images, objects, published, held, entered, released>>
    BY DEF Start, tables, outside, ghosts
  <1>3. /\ pc'[w] = label /\ job'[w] = j
        /\ j.op = op /\ j.product = p /\ j.amount = n /\ j.image = m
        /\ OthersWait(w)
    BY <1>2 DEF IInv, TypeOK, OthersWait
  <1> HIDE DEF j
  <1>4. TypeOK'
    BY <1>1, <1>2 DEF IInv, TypeOK, Labels
  <1>5. Grows
    <2>1. \A q \in ProductIds : entered[q] \in Nat /\ released[q] \in Nat
      BY DEF IInv, TypeOK
    <2>. QED BY <1>2, <2>1 DEF Grows
  <1>6. HandlerSound(w)'
    BY <1>3 DEF HandlerSound, JobSound
  <1>. QED BY <1>2, <1>3, <1>4, <1>5, <1>6, StepIsSound DEF IInv, AnnouncedWasHeld

LEMMA RequestIsSound ==
    ASSUME IInv, NEW w \in Workers, Request(w)
    PROVE  IInv'
  <1>1. CASE Create(w)
    BY <1>1, StartIsSound DEF Create, Operations
  <1>2. CASE UpdateStock(w)
    BY <1>2, StartIsSound DEF UpdateStock, Operations
  <1>3. CASE ReserveStock(w)
    BY <1>3, StartIsSound DEF ReserveStock, Operations
  <1>4. CASE ReleaseStock(w)
    BY <1>4, StartIsSound DEF ReleaseStock, Operations
  <1>5. CASE AddImage(w)
    BY <1>5, StartIsSound DEF AddImage, Operations
  <1>. QED BY <1>1, <1>2, <1>3, <1>4, <1>5 DEF Request

\* A handler that returns without having changed anything but NATS.
LEMMA FinishIsSound ==
    ASSUME IInv, NEW w \in Workers, Finish(w),
           UNCHANGED <<tables, objects, ghosts>>,
           published' \subseteq held
    PROVE  IInv'
  <1>1. /\ pc'[w] = "idle" /\ job'[w] = None /\ OthersWait(w)
        /\ UNCHANGED <<products, images, objects, held, entered, released>>
    BY DEF Finish, IInv, TypeOK, OthersWait, tables, ghosts
  <1>2. TypeOK'
    BY <1>1 DEF IInv, TypeOK, Labels, Finish
  <1>3. Grows
    <2>1. \A q \in ProductIds : entered[q] \in Nat /\ released[q] \in Nat
      BY DEF IInv, TypeOK
    <2>. QED BY <1>1, <2>1 DEF Grows
  <1>4. HandlerSound(w)'
    BY <1>1 DEF HandlerSound
  <1>. QED BY <1>1, <1>2, <1>3, <1>4, StepIsSound DEF AnnouncedWasHeld

LEMMA ReadIsSound ==
    ASSUME IInv, NEW w \in Workers, Read(w)
    PROVE  IInv'
  <1> DEFINE p == job[w].product
             row == products[p]
  <1>1. /\ pc[w] = "read" /\ job[w] \in Jobs /\ JobSound("read", job[w])
        /\ p \in ProductIds
    BY DEF Read, IInv, TypeOK, HandlerSound, Jobs
  <1>2. CASE row = None \/ Lacks(job[w], row)
    BY <1>2, FinishIsSound DEF Read, IInv, AnnouncedWasHeld, outside
  <1>3. CASE ~(row = None \/ Lacks(job[w], row))
    <2> DEFINE j == [job[w] EXCEPT !.row = row]
    <2>1. /\ job' = [job EXCEPT ![w] = j]
          /\ pc'  = [pc EXCEPT ![w] = "update"]
          /\ UNCHANGED <<products, images, objects, published, held, entered, released>>
      BY <1>3 DEF Read, tables, outside, ghosts
    <2>2. row \in Rows /\ Sound(p, row)
      BY <1>1, <1>3 DEF IInv, TypeOK, RowsSound
    <2>3. /\ j \in Jobs /\ j # None
          /\ j.op = job[w].op /\ j.product = p /\ j.amount = job[w].amount
          /\ j.image = job[w].image /\ j.row = row
      BY <1>1, <2>2, NoneIsNothing DEF Jobs
    <2>4. job[w].amount \in Int /\ row.stock \in Int
      BY <1>1, <2>2, JobParts DEF Rows
    <2>5. pc'[w] = "update" /\ job'[w] = j /\ OthersWait(w)
      BY <2>1 DEF IInv, TypeOK, OthersWait
    <2> HIDE DEF j
    <2>6. TypeOK'
      BY <2>1, <2>3 DEF IInv, TypeOK, Labels
    <2>7. Grows
      <3>1. \A q \in ProductIds : entered[q] \in Nat /\ released[q] \in Nat
        BY DEF IInv, TypeOK
      <3>. QED BY <2>1, <3>1 DEF Grows
    <2>8. JobSound("update", j)
      BY <1>1, <1>3, <2>2, <2>3, <2>4 DEF JobSound, Lacks
    <2>9. Sound(job[w].product, job[w].row)'
      BY <2>1, <2>2, <2>3, <2>5 DEF Sound
    <2>10. HandlerSound(w)'
      BY <2>5, <2>8, <2>9 DEF HandlerSound, JobSound
    <2>. QED BY <2>1, <2>5, <2>6, <2>7, <2>10, StepIsSound DEF IInv, AnnouncedWasHeld
  <1>. QED BY <1>2, <1>3

LEMMA PublishIsSound ==
    ASSUME IInv, NEW w \in Workers, Publish(w)
    PROVE  IInv'
  <1>1. <<job[w].product, NewStock(job[w])>> \in held
    BY DEF Publish, IInv, HandlerSound
  <1>2. published' \subseteq held
    BY <1>1 DEF Publish, IInv, AnnouncedWasHeld
  <1>. QED BY <1>2, FinishIsSound DEF Publish

LEMMA FailIsSound ==
    ASSUME IInv, NEW w \in Workers, Fail(w)
    PROVE  IInv'
  BY FinishIsSound DEF Fail, IInv, AnnouncedWasHeld, outside

-----------------------------------------------------------------------------
(* The writes *)

\* What a committed write leaves in the ghosts, and why the stock it wrote has
\* a source.
LEMMA RecordKeepsCount ==
    ASSUME IInv, NEW w \in Workers, pc[w] \in {"insert", "update"}, Record(w), Allowed(job[w])
    PROVE  LET p == job[w].product
               n == NewStock(job[w])
           IN  /\ n \in Int /\ n >= 0
               /\ held' = held \cup {<<p, n>>}
               /\ entered' \in [ProductIds -> Nat] /\ released' \in [ProductIds -> Nat]
               /\ \A q \in ProductIds : entered'[q] >= entered[q] /\ released'[q] >= released[q]
               /\ n <= entered'[p] + released'[p]
  <1> DEFINE j == job[w]
             p == j.product
             n == NewStock(j)
  <1>1. j \in Jobs /\ JobSound(pc[w], j)
    BY DEF IInv, TypeOK, HandlerSound
  <1>2. p \in ProductIds /\ j.amount \in Int
    BY <1>1, JobParts
  <1>3. entered \in [ProductIds -> Nat] /\ released \in [ProductIds -> Nat]
    BY DEF IInv, TypeOK
  <1>4. /\ held' = held \cup {<<p, n>>}
        /\ entered' = IF j.op \in {"create", "set"} /\ j.amount > entered[p]
                      THEN [entered EXCEPT ![p] = j.amount] ELSE entered
        /\ released' = IF j.op = "release"
                       THEN [released EXCEPT ![p] = @ + j.amount] ELSE released
    BY DEF Record
  <1>5. CASE j.op \in {"create", "set"}
    <2>1. n = j.amount /\ j.amount \in Nat
      BY <1>1, <1>2, <1>5 DEF NewStock, JobSound
    <2>. QED BY <1>2, <1>3, <1>4, <1>5, <2>1
  <1>6. CASE j.op \in {"reserve", "release"}
    <2>1. pc[w] = "update" /\ j.row \in Rows /\ j.amount > 0
      BY <1>1, <1>6 DEF JobSound
    <2>2. j.row.stock \in Int /\ j.row.stock <= entered[p] + released[p]
      BY <2>1 DEF Rows, IInv, HandlerSound, Sound
    <2>3. n >= 0
      BY DEF Allowed
    <2>4. CASE j.op = "reserve"
      <3>1. n = j.row.stock - j.amount
        BY <2>4 DEF NewStock
      <3>. QED BY <1>2, <1>3, <1>4, <2>1, <2>2, <2>3, <2>4, <3>1
    <2>5. CASE j.op = "release"
      <3>1. n = j.row.stock + j.amount
        BY <2>5 DEF NewStock
      <3>. QED BY <1>2, <1>3, <1>4, <2>1, <2>2, <2>3, <2>5, <3>1
    <2>. QED BY <1>6, <2>4, <2>5
  <1>7. j.op \in {"create", "set", "reserve", "release"}
    BY <1>1 DEF JobSound
  <1>. QED BY <1>5, <1>6, <1>7

\* A handler that has committed a row and goes on to announce it.
LEMMA WriteIsSound ==
    ASSUME IInv, NEW w \in Workers, pc[w] \in {"insert", "update"}, Record(w), Allowed(job[w]),
           NEW m \in Moments \cup {None},
           m # None => images[m] = job[w].product /\ <<job[w].product, m>> \in objects,
           products' = [products EXCEPT ![job[w].product] =
                          [stock |-> NewStock(job[w]), image |-> m]],
           Goto(w, "publish"), UNCHANGED <<images, outside>>
    PROVE  IInv'
  <1> DEFINE j == job[w]
             p == j.product
             n == NewStock(j)
             r == [stock |-> n, image |-> m]
  <1>1. j \in Jobs /\ JobSound(pc[w], j) /\ p \in ProductIds
    BY JobParts DEF IInv, TypeOK, HandlerSound
  <1>2. /\ n \in Int /\ n >= 0
        /\ held' = held \cup {<<p, n>>}
        /\ entered' \in [ProductIds -> Nat] /\ released' \in [ProductIds -> Nat]
        /\ \A q \in ProductIds : entered'[q] >= entered[q] /\ released'[q] >= released[q]
        /\ n <= entered'[p] + released'[p]
    BY RecordKeepsCount
  <1>3. /\ pc' = [pc EXCEPT ![w] = "publish"] /\ job' = job
        /\ images' = images /\ objects' = objects /\ published' = published
    BY DEF Goto, outside
  <1>4. pc'[w] = "publish" /\ job'[w] = j /\ OthersWait(w)
    BY <1>3 DEF IInv, TypeOK, OthersWait
  <1>5. r \in Rows /\ products' = [products EXCEPT ![p] = r]
    BY <1>2 DEF Rows
  <1>6. TypeOK'
    <2> HIDE DEF n, r
    <2>1. products' \in [ProductIds -> Rows \cup {None}]
      BY <1>5 DEF IInv, TypeOK
    <2>2. held' \subseteq ProductIds \X Int
      BY <1>1, <1>2 DEF IInv, TypeOK
    <2>3. pc' \in [Workers -> Labels] /\ \A v \in Workers : pc'[v] = "idle" <=> job'[v] = None
      BY <1>3 DEF IInv, TypeOK, Labels
    <2>. QED BY <1>2, <1>3, <2>1, <2>2, <2>3 DEF IInv, TypeOK
  <1>7. Grows
    BY <1>2, <1>3 DEF Grows
  <1>8. ASSUME NEW q \in ProductIds, products'[q] # products[q]
        PROVE  Sound(q, products[q])'
    <2>1. q = p /\ products'[q] = r
      BY <1>5, <1>8 DEF IInv, TypeOK
    <2>2. r.stock = n /\ r.image = m
      OBVIOUS
    <2>. QED BY <1>2, <1>3, <2>1, <2>2 DEF Sound
  <1>9. HandlerSound(w)'
    <2>1. JobSound("publish", j)
      BY <1>1 DEF JobSound
    <2>2. <<job[w].product, NewStock(job[w])>>' = <<p, n>>
      BY <1>4 DEF NewStock
    <2>. QED BY <1>2, <1>4, <2>1, <2>2 DEF HandlerSound, JobSound
  <1>10. AnnouncedWasHeld'
    BY <1>2, <1>3 DEF IInv, AnnouncedWasHeld
  <1>. QED BY <1>4, <1>6, <1>7, <1>8, <1>9, <1>10, StepIsSound

LEMMA InsertIsSound ==
    ASSUME IInv, NEW w \in Workers, Insert(w)
    PROVE  IInv'
  <1>1. CASE Finish(w) /\ UNCHANGED <<products, ghosts>> /\ UNCHANGED <<images, outside>>
    BY <1>1, FinishIsSound DEF IInv, AnnouncedWasHeld, outside, tables
  <1>2. CASE /\ products' = [products EXCEPT ![job[w].product] =
                               [stock |-> NewStock(job[w]), image |-> None]]
             /\ Record(w) /\ Goto(w, "publish") /\ UNCHANGED <<images, outside>>
    <2>1. pc[w] = "insert" /\ job[w] \in Jobs /\ JobSound("insert", job[w])
      BY DEF Insert, IInv, TypeOK, HandlerSound
    <2>2. NewStock(job[w]) = job[w].amount /\ job[w].amount >= 0
      BY <2>1 DEF JobSound, NewStock
    <2>3. Allowed(job[w])
      BY <2>2 DEF Allowed
    <2>. QED BY <1>2, <2>1, <2>3, WriteIsSound
  <1>. QED BY <1>1, <1>2 DEF Insert

LEMMA UpdateRowIsSound ==
    ASSUME IInv, NEW w \in Workers, UpdateRow(w)
    PROVE  IInv'
  <1>1. CASE ~Allowed(job[w])
    BY <1>1, FinishIsSound DEF UpdateRow, IInv, AnnouncedWasHeld, outside, tables
  <1>2. CASE Allowed(job[w])
    <2> DEFINE r == job[w].row
    <2>1. /\ pc[w] = "update" /\ r \in Rows
          /\ Sound(job[w].product, r)
      BY DEF UpdateRow, IInv, HandlerSound, JobSound
    <2>2. NewRow(job[w]) = [stock |-> NewStock(job[w]), image |-> r.image]
      BY <2>1 DEF NewRow, Rows
    <2>3. r.image \in Moments \cup {None}
      BY <2>1 DEF Rows
    <2>4. r.image # None =>
             images[r.image] = job[w].product /\ <<job[w].product, r.image>> \in objects
      BY <2>1 DEF Sound
    <2>5. /\ products' = [products EXCEPT ![job[w].product] =
                            [stock |-> NewStock(job[w]), image |-> r.image]]
          /\ Record(w) /\ Goto(w, "publish") /\ UNCHANGED <<images, outside>>
      BY <1>2, <2>2 DEF UpdateRow
    <2> HIDE DEF r
    <2>. QED BY <1>2, <2>1, <2>3, <2>4, <2>5, WriteIsSound
  <1>. QED BY <1>1, <1>2

-----------------------------------------------------------------------------
(* Images *)

LEMMA SaveIsSound ==
    ASSUME IInv, NEW w \in Workers, SaveObject(w)
    PROVE  IInv'
  <1>1. /\ pc[w] = "save" /\ job[w] \in Jobs /\ JobSound("save", job[w])
        /\ job[w].product \in ProductIds /\ job[w].image \in Moments
    BY JobParts DEF SaveObject, IInv, TypeOK, HandlerSound, JobSound
  <1>2. /\ objects' = objects \cup {<<job[w].product, job[w].image>>}
        /\ pc' = [pc EXCEPT ![w] = "record"] /\ job' = job
        /\ UNCHANGED <<products, images, published, held, entered, released>>
    BY DEF SaveObject, Goto, tables, ghosts
  <1>3. pc'[w] = "record" /\ job'[w] = job[w] /\ OthersWait(w)
    BY <1>2 DEF IInv, TypeOK, OthersWait
  <1>4. TypeOK'
    BY <1>1, <1>2 DEF IInv, TypeOK, Labels
  <1>5. Grows
    <2>1. \A q \in ProductIds : entered[q] \in Nat /\ released[q] \in Nat
      BY DEF IInv, TypeOK
    <2>. QED BY <1>2, <2>1 DEF Grows
  <1>6. HandlerSound(w)'
    BY <1>1, <1>2, <1>3 DEF HandlerSound, JobSound
  <1>. QED BY <1>2, <1>3, <1>4, <1>5, <1>6, StepIsSound DEF IInv, AnnouncedWasHeld

LEMMA RecordImageIsSound ==
    ASSUME IInv, NEW w \in Workers, RecordImage(w)
    PROVE  IInv'
  <1> DEFINE p == job[w].product
             m == job[w].image
  <1>1. /\ pc[w] = "record" /\ p \in ProductIds /\ m \in Moments
        /\ <<p, m>> \in objects
    BY JobParts DEF RecordImage, IInv, TypeOK, HandlerSound, JobSound
  <1>2. CASE UNCHANGED tables
    BY <1>2, FinishIsSound DEF RecordImage, IInv, AnnouncedWasHeld, outside
  <1>3. CASE /\ products[p] # None /\ images[m] = None
             /\ images'   = [images EXCEPT ![m] = p]
             /\ products' = [products EXCEPT ![p].image = m]
    <2> DEFINE r == [products[p] EXCEPT !.image = m]
    <2>1. /\ pc' = [pc EXCEPT ![w] = "idle"] /\ job' = [job EXCEPT ![w] = None]
          /\ UNCHANGED <<objects, published, held, entered, released>>
      BY DEF RecordImage, Finish, outside, ghosts
    <2>2. pc'[w] = "idle" /\ job'[w] = None /\ OthersWait(w)
      BY <2>1 DEF IInv, TypeOK, OthersWait
    <2>3. products[p] \in Rows /\ Sound(p, products[p])
      BY <1>1, <1>3 DEF IInv, TypeOK, RowsSound
    <2>4. r \in Rows /\ r.stock = products[p].stock /\ r.image = m
      BY <1>1, <2>3 DEF Rows
    <2>5. products' = [products EXCEPT ![p] = r]
      BY <1>3
    <2> HIDE DEF r
    <2>6. TypeOK'
      BY <1>1, <1>3, <2>1, <2>4, <2>5 DEF IInv, TypeOK, Labels
    <2>7. Grows
      <3>1. \A q \in ProductIds : entered[q] \in Nat /\ released[q] \in Nat
        BY DEF IInv, TypeOK
      <3>2. \A k \in Moments : images[k] # None => images'[k] = images[k]
        BY <1>3 DEF IInv, TypeOK
      <3>. QED BY <2>1, <3>1, <3>2 DEF Grows
    <2>8. ASSUME NEW q \in ProductIds, products'[q] # products[q]
          PROVE  Sound(q, products[q])'
      <3>1. q = p /\ products'[q] = r
        BY <2>5, <2>8 DEF IInv, TypeOK
      <3>2. images'[m] = p
        BY <1>1, <1>3 DEF IInv, TypeOK
      <3>. QED BY <1>1, <2>1, <2>3, <2>4, <3>1, <3>2 DEF Sound
    <2>9. HandlerSound(w)'
      BY <2>2 DEF HandlerSound
    <2>. QED BY <2>1, <2>2, <2>6, <2>7, <2>8, <2>9, StepIsSound DEF IInv, AnnouncedWasHeld
  <1>. QED BY <1>2, <1>3 DEF RecordImage

-----------------------------------------------------------------------------

LEMMA InitIsSound == Init => IInv
  <1> SUFFICES ASSUME Init PROVE IInv
    OBVIOUS
  <1>1. TypeOK
    BY DEF Init, TypeOK, Labels
  <1>2. RowsSound
    BY DEF Init, RowsSound
  <1>3. \A w \in Workers : HandlerSound(w)
    BY DEF Init, HandlerSound
  <1>4. AnnouncedWasHeld
    BY DEF Init, AnnouncedWasHeld
  <1>. QED BY <1>1, <1>2, <1>3, <1>4 DEF IInv

LEMMA NextIsSound == IInv /\ [Next]_vars => IInv'
  <1> SUFFICES ASSUME IInv, [Next]_vars PROVE IInv'
    OBVIOUS
  <1>1. CASE UNCHANGED vars
    <2>1. UNCHANGED <<products, images, objects, published, held, entered, released, pc, job>>
      BY <1>1 DEF vars, tables, outside, ghosts, handlers
    <2>2. TypeOK'
      BY <2>1 DEF IInv, TypeOK
    <2>3. RowsSound'
      BY <2>1 DEF IInv, RowsSound, Sound
    <2>4. \A w \in Workers : HandlerSound(w)'
      <3> SUFFICES ASSUME NEW w \in Workers PROVE HandlerSound(w)'
        OBVIOUS
      <3>1. HandlerSound(w)
        BY DEF IInv
      <3>2. NewStock(job[w])' = NewStock(job[w])
        BY <2>1 DEF NewStock
      <3>3. JobSound(pc[w], job[w])' = JobSound(pc[w], job[w])
        BY <2>1 DEF JobSound
      <3>4. Sound(job[w].product, job[w].row)' = Sound(job[w].product, job[w].row)
        BY <2>1 DEF Sound
      <3>. QED BY <2>1, <3>1, <3>2, <3>3, <3>4 DEF HandlerSound
    <2>. QED BY <2>1, <2>2, <2>3, <2>4 DEF IInv, AnnouncedWasHeld
  <1>2. ASSUME NEW w \in Workers, Request(w) \/ Step(w) \/ Fail(w)
        PROVE  IInv'
    BY <1>2, RequestIsSound, InsertIsSound, ReadIsSound, UpdateRowIsSound, PublishIsSound,
       SaveIsSound, RecordImageIsSound, FailIsSound DEF Step
  <1>. QED BY <1>1, <1>2 DEF Next

LEMMA ServiceIsSound == Spec => []IInv
  BY InitIsSound, NextIsSound, PTL DEF Spec

\* The state keeps its shape.
THEOREM TypeCorrect == Spec => []TypeOK
  <1>1. IInv => TypeOK
    BY DEF IInv
  <1>. QED BY <1>1, ServiceIsSound, PTL

\* The check of ReserveStock is enough: the write that follows is never of a
\* negative stock, though the row may have changed since the check.
THEOREM ChecksSuffice == Spec => []ConstraintNeverFires
  <1>1. IInv => ConstraintNeverFires
    <2> SUFFICES ASSUME IInv, NEW w \in Workers, pc[w] = "update"
                 PROVE  Allowed(job[w])
      BY DEF ConstraintNeverFires
    <2> DEFINE j == job[w]
    <2>1. j \in Jobs /\ JobSound("update", j) /\ j.row.stock >= 0
      BY DEF IInv, TypeOK, HandlerSound, Sound
    <2>2. j.amount \in Int /\ j.row.stock \in Int
      BY <2>1, JobParts DEF JobSound, Rows
    <2>3. CASE j.op = "set"
      BY <2>1, <2>3 DEF JobSound, Allowed, NewStock
    <2>4. CASE j.op = "reserve"
      <3>1. NewStock(j) = j.row.stock - j.amount
        BY <2>4 DEF NewStock
      <3>. QED BY <2>1, <2>2, <2>4, <3>1 DEF JobSound, Allowed
    <2>5. CASE j.op = "release"
      <3>1. NewStock(j) = j.row.stock + j.amount
        BY <2>5 DEF NewStock
      <3>. QED BY <2>1, <2>2, <2>5, <3>1 DEF JobSound, Allowed
    <2>. QED BY <2>1, <2>3, <2>4, <2>5 DEF JobSound
  <1>. QED BY <1>1, ServiceIsSound, PTL

\* No interleaving makes stock up.
THEOREM StockIsNotMadeUp == Spec => []StockHasASource
  <1>1. IInv => StockHasASource
    BY DEF IInv, RowsSound, Sound, StockHasASource
  <1>. QED BY <1>1, ServiceIsSound, PTL

\* An event announces only stock that was committed.
THEOREM EventsAreTrue == Spec => []AnnouncedWasHeld
  <1>1. IInv => AnnouncedWasHeld
    BY DEF IInv
  <1>. QED BY <1>1, ServiceIsSound, PTL

\* The image a product shows can be fetched.
THEOREM ImagesAreStored == Spec => []ImageIsStored
  <1>1. IInv => ImageIsStored
    BY DEF IInv, RowsSound, Sound, ImageIsStored
  <1>. QED BY <1>1, ServiceIsSound, PTL

-----------------------------------------------------------------------------
(* Requests that come one at a time *)

OneHandler == \A v, w \in Workers : pc[v] # "idle" /\ pc[w] # "idle" => v = w

\* The copy a stock operation has read is the row.
CopyIsCurrent(w) == pc[w] = "update" => products[job[w].product] = job[w].row

AloneInv == OneHandler /\ \A w \in Workers : CopyIsCurrent(w)

LEMMA StepMovesOne ==
    ASSUME IInv, NEW w \in Workers, Step(w) \/ Fail(w)
    PROVE  pc[w] # "idle" /\ OthersWait(w)
  BY DEF Step, Fail, Insert, Read, UpdateRow, Publish, SaveObject, RecordImage, Goto, Finish,
         OthersWait, IInv, TypeOK

\* Only a handler that has just read goes on to write.
LEMMA CopyStaysCurrent ==
    ASSUME IInv, AloneInv, NEW w \in Workers, Step(w) \/ Fail(w)
    PROVE  AloneInv'
  <1>1. \A v \in Workers \ {w} : pc'[v] = "idle"
    BY StepMovesOne DEF AloneInv, OneHandler, OthersWait
  <1>2. CopyIsCurrent(w)'
    <2>1. CASE pc'[w] = "update"
      <3>1. Read(w) /\ ~ Finish(w)
        BY <2>1 DEF Step, Fail, Insert, Read, UpdateRow, Publish, SaveObject, RecordImage, Goto,
                    Finish, IInv, TypeOK
      <3>2. PICK row : row = products[job[w].product]
        OBVIOUS
      <3>3. job' = [job EXCEPT ![w].row = row] /\ UNCHANGED products /\ pc[w] = "read"
        BY <3>1, <3>2 DEF Read, tables
      <3>4. job'[w] = [job[w] EXCEPT !.row = row] /\ job[w] \in Jobs
        BY <3>3 DEF IInv, TypeOK
      <3>5. job'[w].product = job[w].product /\ job'[w].row = row
        BY <3>4 DEF Jobs
      <3>. QED BY <3>2, <3>3, <3>5 DEF CopyIsCurrent
    <2>. QED BY <2>1 DEF CopyIsCurrent
  <1>3. OneHandler' /\ \A v \in Workers : CopyIsCurrent(v)'
    BY <1>1, <1>2 DEF OneHandler, CopyIsCurrent
  <1>. QED BY <1>3 DEF AloneInv

LEMMA RequestStaysCurrent ==
    ASSUME IInv, NEW w \in Workers, Request(w), \A v \in Workers : pc[v] = "idle"
    PROVE  AloneInv'
  <1>1. PICK label \in {"insert", "read", "save"} : pc' = [pc EXCEPT ![w] = label]
    BY DEF Request, Create, UpdateStock, ReserveStock, ReleaseStock, AddImage, Start
  <1>2. pc'[w] = label /\ \A v \in Workers \ {w} : pc'[v] = "idle"
    BY <1>1 DEF IInv, TypeOK
  <1>. QED BY <1>2 DEF AloneInv, OneHandler, CopyIsCurrent

\* A write of a copy that is current moves the stock by the quantity.
LEMMA CurrentCopyMoves ==
    ASSUME IInv, AloneInv, Next
    PROVE  StockMoves
  <1> SUFFICES ASSUME NEW w \in Workers, pc[w] = "update", pc'[w] = "publish"
               PROVE  LET j   == job[w]
                          old == products[j.product]
                          new == products'[j.product]
                      IN  /\ j.op = "reserve" => new.stock = old.stock - j.amount
                          /\ j.op = "release" => new.stock = old.stock + j.amount
                          /\ new.image = old.image
    BY DEF StockMoves
  <1>1. PICK j, p, row : j = job[w] /\ p = j.product /\ row = j.row
    OBVIOUS
  <1>2. UpdateRow(w) /\ ~ Finish(w)
    <2>1. PICK v \in Workers : Request(v) \/ Step(v) \/ Fail(v)
      BY DEF Next
    <2>2. v = w
      BY <2>1 DEF Request, Create, UpdateStock, ReserveStock, ReleaseStock, AddImage, Start,
                  Step, Fail, Insert, Read, UpdateRow, Publish, SaveObject, RecordImage, Goto,
                  Finish, IInv, TypeOK
    <2>. QED BY <2>1, <2>2 DEF Request, Create, UpdateStock, ReserveStock, ReleaseStock, AddImage,
                  Start, Step, Fail, Insert, Read, UpdateRow, Publish, SaveObject, RecordImage,
                  Finish, IInv, TypeOK
  <1>3. products' = [products EXCEPT ![p] = NewRow(j)]
    BY <1>1, <1>2 DEF UpdateRow
  <1>4. p \in ProductIds /\ row \in Rows /\ products[p] = row
    <2>1. job[w] \in Jobs
      BY DEF IInv, TypeOK
    <2>2. JobSound("update", job[w]) /\ products[job[w].product] = job[w].row
      BY DEF IInv, HandlerSound, AloneInv, CopyIsCurrent
    <2>. QED BY <1>1, <2>1, <2>2, JobParts DEF JobSound
  <1>5. products'[p] = [row EXCEPT !.stock = NewStock(j)]
    BY <1>1, <1>3, <1>4 DEF NewRow, IInv, TypeOK
  <1>6. products'[p].stock = NewStock(j) /\ products'[p].image = row.image
    BY <1>4, <1>5 DEF Rows
  <1>7. /\ j.op = "reserve" => NewStock(j) = row.stock - j.amount
        /\ j.op = "release" => NewStock(j) = row.stock + j.amount
    BY <1>1 DEF NewStock
  <1>. QED BY <1>1, <1>4, <1>6, <1>7

\* While requests come one at a time, a reservation and a release move the
\* stock by their quantity, and no stock operation changes the image.
THEOREM StockMovesByQuantity == MCSpec => AloneMovesByQuantity
  <1> DEFINE Inv == IInv /\ (alone => AloneInv)
  <1>1. MCInit => Inv
    BY InitIsSound DEF MCInit, Init, AloneInv, OneHandler, CopyIsCurrent
  <1>2. Inv /\ [MCNext]_mcVars => [Next]_vars /\ UNCHANGED alone
    BY DEF MCNext, mcVars, Next
  <1>3. Inv /\ [MCNext]_mcVars => Inv'
    <2> SUFFICES ASSUME Inv, [MCNext]_mcVars PROVE Inv'
      OBVIOUS
    <2>1. IInv' /\ UNCHANGED alone
      BY <1>2, NextIsSound
    <2>2. CASE UNCHANGED vars
      BY <2>1, <2>2 DEF vars, tables, handlers, AloneInv, OneHandler, CopyIsCurrent
    <2>3. ASSUME NEW w \in Workers, Step(w) \/ Fail(w) PROVE Inv'
      BY <2>1, <2>3, CopyStaysCurrent
    <2>4. ASSUME NEW w \in Workers, Request(w), alone => \A v \in Workers : pc[v] = "idle"
          PROVE  Inv'
      BY <2>1, <2>4, RequestStaysCurrent
    <2>. QED BY <2>2, <2>3, <2>4 DEF MCNext, mcVars
  <1>4. Inv /\ [MCNext]_mcVars => [alone => [StockMoves]_vars]_mcVars
    BY <1>2, CurrentCopyMoves
  <1>. QED BY <1>1, <1>3, <1>4, PTL DEF MCSpec, AloneMovesByQuantity

=============================================================================
