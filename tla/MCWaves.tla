------------------------------- MODULE MCWaves -------------------------------
(***************************************************************************)
(* Two orders of one key, one of another; o1 names the product p twice and *)
(* q once.  p is reserved in two places, q in one without a warehouseId    *)
(* and in one with.                                                        *)
(***************************************************************************)
EXTENDS Waves, TLC

CONSTANTS o1, o2, o3, p, q, l1, l2, l3, a, b, c, d, w1, w2

MCKeyOf     == (o1 :> "k1") @@ (o2 :> "k1") @@ (o3 :> "k2")
MCLinesOf   == (o1 :> <<p, p, q>>) @@ (o2 :> <<p>>) @@ (o3 :> <<q>>)
MCProductOf == (a :> p) @@ (b :> p) @@ (c :> q) @@ (d :> q)
MCLocOf     == (a :> l1) @@ (b :> l2) @@ (c :> l2) @@ (d :> l3)
MCReserved  == (a :> 1) @@ (b :> 1) @@ (c :> 1) @@ (d :> 1)

\* START is at the origin; l1 and l2 are on both sides of it, l3 beyond l1.
Coord  == (Start :> 0) @@ (l1 :> 2) @@ (l2 :> -3) @@ (l3 :> 5)
MCDist == [m \in (Locs \cup {Start}) \X (Locs \cup {Start}) |->
             LET n == Coord[m[1]] - Coord[m[2]] IN IF n < 0 THEN -n ELSE n]

\* Jobs generate waves of o1 and o3 again and again, which get no tasks and paths; or
\* a request does, once, and they get them (no behaviour of which is a fair one), w1
\* making the waves and the tasks and w2 the paths of the waves that have tasks.
VARIABLE walking

Busy(kind) == \E w \in Handlers : step'[w] \in kind
Generating ==
  /\ orderStatus'[o2] = "DRAFT"
  /\ \A i \in 1..Len(waves) : waves'[i] = waves[i]
  /\ ~Busy({"consolidate", "walk"})
  /\ \A w \in Handlers : step'[w] = "group" => work'[w].job # "none"
Tasked == {tasks'[k].wave : k \in 1..Len(tasks')}
          \cup {work'[w].wave : w \in {v \in Handlers : step'[v] = "consolidate"}}
Walking ==
  /\ \A w \in Handlers : IF step'[w] = "walk" THEN w = w2 /\ work'[w].wave \in Tasked
                         ELSE step'[w] # "idle" => w = w1
  /\ queue' = queue /\ \A o \in OutboundOrders : orderStatus'[o] # "PICKED"
  /\ Busy({"group"}) => waves' = <<>> /\ \A o \in OutboundOrders : orderStatus[o] # "DRAFT"

\* Limits on what others do: each order is released in one way and one of them is
\* finished; one unit is picked, while a task is made; the first wave is assigned or
\* cancelled once, before it has tasks.
Outcome == (o1 :> "FULLY_ALLOCATED") @@ (o2 :> "PARTIALLY_ALLOCATED") @@ (o3 :> "RELEASED")
Limits ==
  /\ \A o \in OutboundOrders : orderStatus'[o] \in {"DRAFT", "PICKED", Outcome[o]}
  /\ Cardinality({o \in OutboundOrders : orderStatus'[o] = "PICKED"}) <= 1
  /\ Cardinality({r \in Rows : stock'[r] # Reserved[r]}) <= 1
  /\ stock' # stock => \E w \in Handlers : step[w] = "consolidate"
  /\ (waves # <<>> /\ waves'[1] # waves[1]) =>
       /\ tasks = <<>> /\ waves[1].status = "CREATED" /\ ~waves[1].picker
       /\ waves'[1].status \in {"CREATED", "CANCELLED"}

MCInit == WaveInit /\ walking \in BOOLEAN
MCNext == WaveNext /\ UNCHANGED walking /\ Limits /\ IF walking THEN Walking ELSE Generating
MCSpec == MCInit /\ [][MCNext]_<<waveVars, walking>> /\ WaveFairness
=============================================================================
