---------------------------- MODULE CountingProofs ----------------------------
(***************************************************************************)
(* A line of a cycle count is counted once, and only while its task is in  *)
(* progress, for any number of tasks, lines, cells and overlapping         *)
(* requests.  What a submission has checked before its transaction stays   *)
(* true until it commits, unless another request touches its task: then    *)
(* the task is disturbed.                                                  *)
(*                                                                         *)
(* On that rest the types, the agreement of stock, movements and           *)
(* adjustments (the layer LInv), and what a count leaves in its cell       *)
(* (the layer SInv).                                                       *)
(***************************************************************************)
EXTENDS Counting, SumLemmas

LineFields == {"task", "cell", "expected", "counted"}

\* A request at statement c with the locals t is at work on a submission.
Serving(c, t) ==
  \/ c \in {"pending", "find", "count", "remaining", "commit"}
  \/ c \in {"adjust", "store"} /\ t.task # NoTask

Shape ==
  /\ pc \in [Workers -> Control]
  /\ tx = [w \in Workers |-> tx[w]]
  /\ \A w \in Workers : DOMAIN tx[w] = DOMAIN NoTx /\ DOMAIN tx[w].cnt = LineIds
  /\ DOMAIN status = Tasks
  /\ lines = [i \in LineIds |-> [task |-> lines[i].task, cell |-> lines[i].cell,
                                 expected |-> lines[i].expected, counted |-> lines[i].counted]]

\* What a submission is about, and that it is one ...
Scoped(c, t) ==
  /\ Serving(c, t) => t.task \in Tasks /\ t.task # NoTask /\ t.task \in t.scope
  /\ c = "total" => t.task = NoTask
  /\ t.todo \subseteq LineIds
  /\ \A i \in LineIds : i \in t.todo \/ t.cnt[i] # None => Serving(c, t)
  /\ c = "count" => t.line \in t.todo

\* ... whose lines are the task's, and not counted by anyone else.
Fresh(c, t) ==
  /\ \A i \in LineIds : i \in t.todo \/ t.cnt[i] # None => lines[i].task = t.task
  /\ t.task \notin disturbed =>
       /\ Serving(c, t) => status[t.task] = "IN_PROGRESS"
       /\ c = "count" => lines[t.line].counted = None
       /\ \A i \in LineIds : t.cnt[i] # None => lines[i].counted = None

\* What two requests work on is disturbed.
Apart ==
  \A v, w \in Workers :
    v # w /\ pc[v] # "idle" /\ pc[w] # "idle" => tx[v].scope \cap tx[w].scope \subseteq disturbed

IInv ==
  /\ Shape
  /\ Apart
  /\ \A w \in Workers : Scoped(pc[w], tx[w]) /\ Fresh(pc[w], tx[w])

-----------------------------------------------------------------------------
LEMMA NoTxFields ==
  /\ NoTx.task = NoTask /\ NoTx.scope = {} /\ NoTx.todo = {}
  /\ NoTx.cnt = [i \in LineIds |-> None]
  /\ DOMAIN NoTx = {"task", "scope", "new", "todo", "diff", "line", "cell", "qty", "plus",
                    "kind", "prev", "dto", "cnt", "put", "log", "last"}
BY DEF NoTx

\* Locals that name no line, of a request that is at no submission.
LEMMA EmptyLocals ==
  ASSUME NEW c, NEW t, t.todo = {}, t.cnt = NoTx.cnt, ~Serving(c, t), c = "total" => t.task = NoTask
  PROVE  Scoped(c, t) /\ Fresh(c, t)
BY NoTxFields DEF Scoped, Fresh, Serving

LEMMA InitIInv == Init => IInv
<1> SUFFICES ASSUME Init PROVE IInv
  OBVIOUS
<1>1. Shape
  <2>1. lines = [i \in LineIds |-> [task |-> lines[i].task, cell |-> lines[i].cell,
                                    expected |-> lines[i].expected, counted |-> lines[i].counted]]
    BY DEF Init, FreeLine
  <2>2. \A w \in Workers : tx[w] = NoTx
    BY DEF Init
  <2>3. \A w \in Workers : DOMAIN tx[w] = DOMAIN NoTx /\ DOMAIN tx[w].cnt = LineIds
    BY <2>2, NoTxFields
  <2> QED
    BY <2>1, <2>3 DEF Init, Shape, Control
<1>2. \A w \in Workers : pc[w] = "idle" /\ tx[w] = NoTx
  BY DEF Init
<1>3. \A w \in Workers : Scoped(pc[w], tx[w]) /\ Fresh(pc[w], tx[w])
  <2>1. ~Serving("idle", NoTx)
    BY DEF Serving
  <2>2. Scoped("idle", NoTx) /\ Fresh("idle", NoTx)
    BY <2>1, NoTxFields, EmptyLocals
  <2> QED
    BY <1>2, <2>2
<1> QED
  BY <1>1, <1>2, <1>3 DEF IInv, Apart

-----------------------------------------------------------------------------
(***************************************************************************)
(* A step of w that leaves alone the task of every other submission, or    *)
(* disturbs it, keeps what that submission has checked.                    *)
(***************************************************************************)
LeavesAlone(t) ==
  /\ status'[t.task] = status[t.task]
  /\ \A i \in LineIds : lines[i].task = t.task => lines'[i].counted = lines[i].counted

RowsKept ==
  /\ disturbed \subseteq disturbed'
  /\ \A i \in LineIds : lines[i].task # NoTask => lines'[i].task = lines[i].task

LEMMA FreshKept ==
  ASSUME NEW c, NEW t, Scoped(c, t), Fresh(c, t), RowsKept,
         Serving(c, t) /\ t.task \notin disturbed' => LeavesAlone(t)
  PROVE  Fresh(c, t)'
<1>1. CASE Serving(c, t)
  <2>1. \A i \in LineIds : i \in t.todo \/ t.cnt[i] # None =>
          lines[i].task = t.task /\ lines'[i].task = t.task
    BY <1>1 DEF Scoped, Fresh, RowsKept
  <2>2. c = "count" => t.line \in LineIds /\ lines[t.line].task = t.task
    BY <2>1 DEF Scoped
  <2>3. t.task \notin disturbed' => t.task \notin disturbed /\ LeavesAlone(t)
    BY <1>1 DEF RowsKept
  <2>4. ASSUME t.task \notin disturbed'
        PROVE  /\ status'[t.task] = "IN_PROGRESS"
               /\ c = "count" => lines'[t.line].counted = None
               /\ \A i \in LineIds : t.cnt[i] # None => lines'[i].counted = None
    BY <1>1, <2>1, <2>2, <2>3, <2>4 DEF Fresh, LeavesAlone
  <2> QED
    BY <2>1, <2>4 DEF Fresh
<1>2. CASE ~Serving(c, t)
  <2>1. c # "count" /\ \A i \in LineIds : i \notin t.todo /\ t.cnt[i] = None
    BY <1>2 DEF Scoped, Serving
  <2> QED
    BY <1>2, <2>1 DEF Fresh, Serving
<1> QED
  BY <1>1, <1>2

\* The common part of all statements of a request w.
LEMMA GotoStep ==
  ASSUME IInv, NEW w \in Workers, NEW next \in Control, NEW t, Goto(w, next, t),
         DOMAIN t = DOMAIN NoTx, DOMAIN t.cnt = LineIds, Scoped(next, t), Fresh(next, t)',
         DOMAIN status' = Tasks,
         lines' = [i \in LineIds |-> [task |-> lines'[i].task, cell |-> lines'[i].cell,
                      expected |-> lines'[i].expected, counted |-> lines'[i].counted]],
         RowsKept,
         \A v \in Workers \ {w} : Serving(pc[v], tx[v]) /\ tx[v].task \notin disturbed'
                                    => LeavesAlone(tx[v]),
         \A v \in Workers \ {w} : pc[v] # "idle" /\ next # "idle"
                                    => tx[v].scope \cap t.scope \subseteq disturbed'
  PROVE  IInv'
<1>1. /\ pc' \in [Workers -> Control] /\ tx' = [v \in Workers |-> tx'[v]]
      /\ pc'[w] = next /\ tx'[w] = t
      /\ \A v \in Workers \ {w} : pc'[v] = pc[v] /\ tx'[v] = tx[v]
  <2>1. pc \in [Workers -> Control] /\ DOMAIN tx = Workers
    BY DEF IInv, Shape
  <2>2. tx' = [v \in Workers |-> IF v = w THEN t ELSE tx[v]]
    BY <2>1 DEF Goto
  <2>3. tx' = [v \in Workers |-> tx'[v]]
    BY <2>2
  <2> QED
    BY <2>1, <2>2, <2>3 DEF Goto
<1>2. Shape'
  <2>1. \A v \in Workers : DOMAIN tx'[v] = DOMAIN NoTx /\ DOMAIN tx'[v].cnt = LineIds
    BY <1>1 DEF IInv, Shape
  <2> QED
    BY <1>1, <2>1 DEF Shape
<1>3. Apart'
  <2>1. ASSUME NEW u \in Workers, NEW v \in Workers, u # v, pc'[u] # "idle", pc'[v] # "idle"
        PROVE  tx'[u].scope \cap tx'[v].scope \subseteq disturbed'
    <3>1. CASE u = w
      BY <1>1, <2>1, <3>1
    <3>2. CASE v = w
      BY <1>1, <2>1, <3>2
    <3>3. CASE u # w /\ v # w
      BY <1>1, <2>1, <3>3 DEF IInv, Apart, RowsKept
    <3> QED
      BY <3>1, <3>2, <3>3
  <2> QED
    BY <2>1 DEF Apart
<1>4. ASSUME NEW v \in Workers PROVE (Scoped(pc[v], tx[v]) /\ Fresh(pc[v], tx[v]))'
  <2>1. PICK c, x : c = pc'[v] /\ x = tx'[v]
    OBVIOUS
  <2>2. Scoped(c, x) /\ Fresh(c, x)'
    <3>1. CASE v = w
      BY <1>1, <2>1, <3>1
    <3>2. CASE v # w
      <4>1. c = pc[v] /\ x = tx[v]
        BY <1>1, <2>1, <3>2
      <4>2. Scoped(c, x) /\ Fresh(c, x)
        BY <4>1 DEF IInv
      <4>3. Serving(c, x) /\ x.task \notin disturbed' => LeavesAlone(x)
        BY <3>2, <4>1
      <4> QED
        BY <4>2, <4>3, FreshKept
    <3> QED
      BY <3>1, <3>2
  <2>3. Scoped(pc'[v], tx'[v])
    BY <2>1, <2>2
  <2>4. Fresh(pc[v], tx[v])'
    BY <2>1, <2>2 DEF Fresh, Serving
  <2> QED
    BY <2>3, <2>4 DEF Scoped, Serving
<1> QED
  BY <1>2, <1>3, <1>4 DEF IInv

\* The shape of the rows when a step leaves them.
LEMMA SameRows ==
  ASSUME IInv, lines' = lines, status' = status
  PROVE  /\ DOMAIN status' = Tasks
         /\ lines' = [i \in LineIds |-> [task |-> lines'[i].task, cell |-> lines'[i].cell,
                        expected |-> lines'[i].expected, counted |-> lines'[i].counted]]
         /\ \A v \in Workers : LeavesAlone(tx[v])
<1>1. DOMAIN status = Tasks
      /\ lines = [i \in LineIds |-> [task |-> lines[i].task, cell |-> lines[i].cell,
                    expected |-> lines[i].expected, counted |-> lines[i].counted]]
  BY DEF IInv, Shape
<1>2. \A v \in Workers : LeavesAlone(tx[v])
  BY DEF LeavesAlone
<1> QED
  BY <1>1, <1>2

\* The end of a request.
LEMMA IdleStep ==
  ASSUME IInv, NEW w \in Workers, Goto(w, "idle", NoTx), DOMAIN status' = Tasks,
         lines' = [i \in LineIds |-> [task |-> lines'[i].task, cell |-> lines'[i].cell,
                      expected |-> lines'[i].expected, counted |-> lines'[i].counted]],
         RowsKept,
         \A v \in Workers \ {w} : Serving(pc[v], tx[v]) /\ tx[v].task \notin disturbed'
                                    => LeavesAlone(tx[v])
  PROVE  IInv'
<1>1. Scoped("idle", NoTx) /\ Fresh("idle", NoTx)'
  BY NoTxFields DEF Scoped, Fresh, Serving
<1>2. "idle" \in Control /\ DOMAIN NoTx.cnt = LineIds
  BY NoTxFields DEF Control
<1> QED
  BY <1>1, <1>2, GotoStep

\* ... that changes neither a line nor a status.
LEMMA QuitStep ==
  ASSUME IInv, NEW w \in Workers, Goto(w, "idle", NoTx), lines' = lines, status' = status,
         disturbed \subseteq disturbed'
  PROVE  IInv'
BY SameRows, IdleStep DEF RowsKept

\* The beginning of one.
LEMMA BeginStep ==
  ASSUME IInv, NEW w \in Workers, NEW next \in Control, NEW t, Begin(w, next, t),
         DOMAIN t = DOMAIN NoTx, DOMAIN t.cnt = LineIds, Scoped(next, t), Fresh(next, t)
  PROVE  IInv'
<1>1. /\ Goto(w, next, t) /\ lines' = lines /\ status' = status
      /\ disturbed' = disturbed \cup Shared(w, t.scope)
  BY DEF Begin, rows
<1>2. RowsKept
  BY <1>1 DEF RowsKept
<1>3. Fresh(next, t)'
  BY <1>1, <1>2, SameRows, FreshKept DEF LeavesAlone
<1>4. ASSUME NEW v \in Workers \ {w}, pc[v] # "idle", next # "idle"
      PROVE  tx[v].scope \cap t.scope \subseteq disturbed'
  <2>1. tx[v].scope \cap t.scope \subseteq Shared(w, t.scope)
    BY <1>4 DEF Shared
  <2> QED
    BY <1>1, <2>1
<1> QED
  BY <1>1, <1>2, <1>3, <1>4, SameRows, GotoStep

\* A statement that commits nothing.
LEMMA InnerStep ==
  ASSUME IInv, NEW w \in Workers, NEW next \in Control, NEW t, Goto(w, next, t),
         lines' = lines, status' = status, disturbed' = disturbed, pc[w] # "idle",
         DOMAIN t = DOMAIN NoTx, DOMAIN t.cnt = LineIds, t.scope = tx[w].scope,
         Scoped(next, t), Fresh(next, t)
  PROVE  IInv'
<1>1. Fresh(next, t)'
  BY DEF Fresh, Serving
<1>2. RowsKept
  BY DEF RowsKept
<1>3. \A v \in Workers \ {w} : pc[v] # "idle" => tx[v].scope \cap t.scope \subseteq disturbed'
  BY DEF IInv, Apart
<1> QED
  BY <1>1, <1>2, <1>3, SameRows, GotoStep

\* The locals of a request that goes on with the same lines of the same task.
Keeps(w, t) ==
  /\ DOMAIN t = DOMAIN tx[w] /\ t.cnt = tx[w].cnt /\ t.todo = tx[w].todo
  /\ t.task = tx[w].task /\ t.scope = tx[w].scope

LEMMA KeepsStep ==
  ASSUME IInv, NEW w \in Workers, NEW next \in Control, NEW t, Goto(w, next, t), Keeps(w, t),
         lines' = lines, status' = status, disturbed' = disturbed,
         pc[w] # "idle", next \notin {"count", "total"},
         Serving(next, t) <=> Serving(pc[w], tx[w])
  PROVE  IInv'
<1>1. Scoped(pc[w], tx[w]) /\ Fresh(pc[w], tx[w])
  BY DEF IInv
<1>2. DOMAIN t = DOMAIN NoTx /\ DOMAIN t.cnt = LineIds
  BY DEF IInv, Shape, Keeps
<1>3. Scoped(next, t) /\ Fresh(next, t)
  BY <1>1 DEF Scoped, Fresh, Keeps
<1> QED
  BY <1>2, <1>3, InnerStep DEF Keeps

\* What is not a statement of a request.
LEMMA OutsideStep ==
  ASSUME IInv, UNCHANGED <<lines, pc, tx>>, disturbed \subseteq disturbed', DOMAIN status' = Tasks,
         \A v \in Workers : Serving(pc[v], tx[v]) /\ tx[v].task \notin disturbed'
                              => status'[tx[v].task] = status[tx[v].task]
  PROVE  IInv'
<1>1. lines' = lines /\ pc' = pc /\ tx' = tx
  OBVIOUS
<1>2. RowsKept
  BY <1>1 DEF RowsKept
<1>3. \A v \in Workers : Scoped(pc[v], tx[v])'
  BY <1>1 DEF IInv, Scoped, Serving
<1>4. \A v \in Workers : Fresh(pc[v], tx[v])'
  <2>1. ASSUME NEW v \in Workers PROVE Fresh(pc[v], tx[v])'
    <3>1. PICK c, x : c = pc[v] /\ x = tx[v]
      OBVIOUS
    <3>2. Serving(c, x) /\ x.task \notin disturbed' => LeavesAlone(x)
      BY <1>1, <3>1 DEF LeavesAlone
    <3>3. Fresh(c, x)'
      BY <1>2, <3>1, <3>2, FreshKept DEF IInv
    <3> QED
      BY <1>1, <3>1, <3>3 DEF Fresh, Serving
  <2> QED
    BY <2>1
<1>5. Apart'
  BY <1>1 DEF IInv, Apart
<1>6. Shape'
  BY <1>1 DEF IInv, Shape
<1> QED
  BY <1>3, <1>4, <1>5, <1>6 DEF IInv

-----------------------------------------------------------------------------
(* The operations in one step.                                             *)

LEMMA StockStep ==
  ASSUME IInv, NEW c \in Cells, Reserve(c) \/ Pick(c)
  PROVE  IInv'
<1>1. UNCHANGED <<lines, pc, tx>> /\ status' = status /\ disturbed \subseteq disturbed'
  BY DEF Reserve, Pick
<1> QED
  BY <1>1, SameRows, OutsideStep

LEMMA CreateTaskStep ==
  ASSUME IInv, NEW t \in Tasks, CreateTask(t)
  PROVE  IInv'
<1>1. UNCHANGED <<lines, pc, tx>> /\ disturbed' = disturbed /\ DOMAIN status' = DOMAIN status
      /\ status[t] = "NONE" /\ status' = [status EXCEPT ![t] = "PENDING"]
  BY DEF CreateTask
<1>2. \A v \in Workers : Serving(pc[v], tx[v]) /\ tx[v].task \notin disturbed'
        => status'[tx[v].task] = status[tx[v].task]
  <2>1. ASSUME NEW v \in Workers, Serving(pc[v], tx[v]), tx[v].task \notin disturbed
        PROVE  status'[tx[v].task] = status[tx[v].task]
    <3>1. status[tx[v].task] = "IN_PROGRESS"
      BY <2>1 DEF IInv, Fresh
    <3> QED
      BY <1>1, <3>1
  <2> QED
    BY <1>1, <2>1
<1> QED
  BY <1>1, <1>2, OutsideStep DEF IInv, Shape

LEMMA CancelStep ==
  ASSUME IInv, NEW t \in Tasks, Cancel(t)
  PROVE  IInv'
<1>1. /\ UNCHANGED <<lines, pc, tx>>
      /\ disturbed' = disturbed \cup UNION {{t} \cap tx[o].scope : o \in Workers}
      /\ status' = [status EXCEPT ![t] = "CANCELLED"]
  BY DEF Cancel
<1>2. \A v \in Workers : Serving(pc[v], tx[v]) /\ tx[v].task \notin disturbed'
        => status'[tx[v].task] = status[tx[v].task]
  <2>1. ASSUME NEW v \in Workers, Serving(pc[v], tx[v]), tx[v].task = t
        PROVE  t \in disturbed'
    <3>1. t \in tx[v].scope
      BY <2>1 DEF IInv, Scoped
    <3> QED
      BY <1>1, <3>1
  <2> QED
    BY <1>1, <2>1
<1>3. DOMAIN status' = Tasks /\ disturbed \subseteq disturbed'
  BY <1>1 DEF IInv, Shape
<1> QED
  BY <1>1, <1>2, <1>3, OutsideStep

-----------------------------------------------------------------------------
(* The beginnings.                                                         *)

LEMMA ReadRowsStep ==
  ASSUME IInv, NEW w \in Workers, NEW t \in Tasks, NEW cs, NEW suggested,
         ReadRows(w, t, cs, suggested)
  PROVE  IInv'
<1>1. PICK new : Begin(w, "create", [NoTx EXCEPT !.task = t, !.scope = {t}, !.new = new])
  BY DEF ReadRows
<1> DEFINE x == [NoTx EXCEPT !.task = t, !.scope = {t}, !.new = new]
<1>2. DOMAIN x = DOMAIN NoTx /\ x.cnt = NoTx.cnt /\ x.todo = {}
  BY NoTxFields
<1> HIDE DEF x
<1>3. Scoped("create", x) /\ Fresh("create", x)
  BY <1>2, EmptyLocals DEF Serving
<1> QED
  BY <1>1, <1>2, <1>3, NoTxFields, BeginStep DEF x, Control

LEMMA AddLineStep ==
  ASSUME IInv, NEW w \in Workers, NEW t \in Tasks, NEW c \in Cells, AddLine(w, t, c)
  PROVE  IInv'
<1> DEFINE x == [NoTx EXCEPT !.task = t, !.scope = {t}, !.cell = c]
<1>1. Begin(w, "expected", x)
  BY DEF AddLine
<1>2. DOMAIN x = DOMAIN NoTx /\ x.cnt = NoTx.cnt /\ x.todo = {}
  BY NoTxFields
<1> HIDE DEF x
<1>3. Scoped("expected", x) /\ Fresh("expected", x)
  BY <1>2, EmptyLocals DEF Serving
<1> QED
  BY <1>1, <1>2, <1>3, NoTxFields, BeginStep DEF Control

LEMMA ReadStartStep ==
  ASSUME IInv, NEW w \in Workers, NEW t \in Tasks, ReadStart(w, t)
  PROVE  IInv'
<1> DEFINE x == [NoTx EXCEPT !.task = t, !.scope = {t}]
<1>1. Begin(w, "start", x)
  BY DEF ReadStart
<1>2. DOMAIN x = DOMAIN NoTx /\ x.cnt = NoTx.cnt /\ x.todo = {}
  BY NoTxFields
<1> HIDE DEF x
<1>3. Scoped("start", x) /\ Fresh("start", x)
  BY <1>2, EmptyLocals DEF Serving
<1> QED
  BY <1>1, <1>2, <1>3, NoTxFields, BeginStep DEF Control

LEMMA AdjustStep ==
  ASSUME IInv, NEW w \in Workers, NEW c, NEW n, Adjust(w, c, n)
  PROVE  IInv'
<1> DEFINE x == [NoTx EXCEPT !.scope = {c}, !.cell = c, !.qty = n]
<1>1. Begin(w, "adjust", x)
  BY DEF Adjust
<1>2. DOMAIN x = DOMAIN NoTx /\ x.cnt = NoTx.cnt /\ x.todo = {} /\ x.task = NoTask
  BY NoTxFields
<1> HIDE DEF x
<1>3. Scoped("adjust", x) /\ Fresh("adjust", x)
  BY <1>2, EmptyLocals DEF Serving
<1> QED
  BY <1>1, <1>2, <1>3, NoTxFields, BeginStep DEF Control

LEMMA AdjustByStep ==
  ASSUME IInv, NEW w \in Workers, NEW c, NEW n, AdjustBy(w, c, n)
  PROVE  IInv'
<1> DEFINE x == [NoTx EXCEPT !.scope = {c}, !.cell = c, !.plus = n]
<1>1. Begin(w, "total", x)
  BY DEF AdjustBy
<1>2. DOMAIN x = DOMAIN NoTx /\ x.cnt = NoTx.cnt /\ x.todo = {} /\ x.task = NoTask
  BY NoTxFields
<1> HIDE DEF x
<1>3. Scoped("total", x) /\ Fresh("total", x)
  BY <1>2, EmptyLocals DEF Serving
<1> QED
  BY <1>1, <1>2, <1>3, NoTxFields, BeginStep DEF Control

\* A submission: all its lines are the task's.
LEMMA ReadTaskStep ==
  ASSUME IInv, NEW w \in Workers, NEW t \in Tasks, NEW ids, ReadTask(w, t, ids)
  PROVE  IInv'
<1>1. /\ status[t] = "IN_PROGRESS" /\ ids \subseteq LinesOf(t)
      /\ \E scope, dto : /\ t \in scope
                         /\ Begin(w, "pending", [NoTx EXCEPT !.task = t, !.scope = scope,
                                                   !.todo = ids, !.dto = dto])
  BY DEF ReadTask
<1>2. PICK scope, dto : /\ t \in scope
                        /\ Begin(w, "pending", [NoTx EXCEPT !.task = t, !.scope = scope,
                                                  !.todo = ids, !.dto = dto])
  BY <1>1
<1> DEFINE x == [NoTx EXCEPT !.task = t, !.scope = scope, !.todo = ids, !.dto = dto]
<1>3. /\ DOMAIN x = DOMAIN NoTx /\ x.cnt = NoTx.cnt
      /\ x.todo = ids /\ x.task = t /\ x.scope = scope
  BY NoTxFields
<1> HIDE DEF x
<1>4. t # NoTask
  BY CountingAssumption
<1>5. ids \subseteq LineIds /\ \A i \in ids : lines[i].task = t
  BY <1>1 DEF LinesOf
<1>6. Scoped("pending", x)
  BY <1>2, <1>3, <1>4, <1>5 DEF Scoped, Serving
<1>7. Fresh("pending", x)
  BY <1>1, <1>3, <1>5, NoTxFields DEF Fresh
<1> QED
  BY <1>2, <1>3, <1>6, <1>7, NoTxFields, BeginStep DEF x, Control

-----------------------------------------------------------------------------
(* The statements that write lines and statuses.                           *)

\* New lines take ids that were free.
LEMMA InsertKeeps ==
  ASSUME IInv, NEW new, NEW t, Insert(new, t)
  PROVE  /\ lines' = [i \in LineIds |-> [task |-> lines'[i].task, cell |-> lines'[i].cell,
                        expected |-> lines'[i].expected, counted |-> lines'[i].counted]]
         /\ \A i \in LineIds : lines[i].task # NoTask => lines'[i] = lines[i]
<1>0. PICK ids \in SUBSET LinesOf(NoTask) :
        \E f \in [ids -> new] :
          lines' = [i \in LineIds |->
            IF i \in ids THEN [task |-> t, cell |-> f[i].cell, expected |-> f[i].expected,
                               counted |-> None]
                         ELSE lines[i]]
  BY DEF Insert
<1>1. PICK f \in [ids -> new] :
        lines' = [i \in LineIds |->
          IF i \in ids THEN [task |-> t, cell |-> f[i].cell, expected |-> f[i].expected,
                             counted |-> None]
                       ELSE lines[i]]
  BY <1>0
<1>2. \A i \in ids : lines[i].task = NoTask
  BY DEF LinesOf
<1>3. \A i \in LineIds : lines[i].task # NoTask => lines'[i] = lines[i]
  BY <1>1, <1>2
<1>4. \A i \in LineIds :
        lines[i] = [task |-> lines[i].task, cell |-> lines[i].cell,
                    expected |-> lines[i].expected, counted |-> lines[i].counted]
  BY DEF IInv, Shape
<1>5. \A i \in LineIds :
        lines'[i] = [task |-> lines'[i].task, cell |-> lines'[i].cell,
                     expected |-> lines'[i].expected, counted |-> lines'[i].counted]
  <2>1. ASSUME NEW i \in LineIds, i \in ids
        PROVE  lines'[i] = [task |-> lines'[i].task, cell |-> lines'[i].cell,
                            expected |-> lines'[i].expected, counted |-> lines'[i].counted]
    <3>1. lines'[i] = [task |-> t, cell |-> f[i].cell, expected |-> f[i].expected, counted |-> None]
      BY <1>1, <2>1
    <3> QED
      BY <3>1
  <2>2. ASSUME NEW i \in LineIds, i \notin ids
        PROVE  lines'[i] = [task |-> lines'[i].task, cell |-> lines'[i].cell,
                            expected |-> lines'[i].expected, counted |-> lines'[i].counted]
    <3>1. lines'[i] = lines[i]
      BY <1>1, <2>2
    <3> QED
      BY <1>4, <3>1
  <2> QED
    BY <2>1, <2>2
<1>6. lines' = [i \in LineIds |-> lines'[i]]
  BY <1>1
<1> QED
  BY <1>3, <1>5, <1>6

LEMMA InsertTaskStep ==
  ASSUME IInv, NEW w \in Workers, InsertTask(w)
  PROVE  IInv'
<1>1. /\ Goto(w, "idle", NoTx) /\ disturbed' = disturbed
      /\ status[tx[w].task] = "NONE" /\ status' = [status EXCEPT ![tx[w].task] = "PENDING"]
      /\ Insert(tx[w].new, tx[w].task)
  BY DEF InsertTask
<1>2. /\ lines' = [i \in LineIds |-> [task |-> lines'[i].task, cell |-> lines'[i].cell,
                     expected |-> lines'[i].expected, counted |-> lines'[i].counted]]
      /\ \A i \in LineIds : lines[i].task # NoTask => lines'[i] = lines[i]
  BY <1>1, InsertKeeps
<1>3. RowsKept
  BY <1>1, <1>2 DEF RowsKept
<1>4. ASSUME NEW v \in Workers, Serving(pc[v], tx[v]), tx[v].task \notin disturbed
      PROVE  LeavesAlone(tx[v])
  <2>1. status[tx[v].task] = "IN_PROGRESS" /\ tx[v].task # NoTask
    BY <1>4 DEF IInv, Fresh, Scoped
  <2> QED
    BY <1>1, <1>2, <2>1 DEF LeavesAlone
<1> QED
  BY <1>1, <1>2, <1>3, <1>4, IdleStep DEF IInv, Shape

LEMMA InsertLineStep ==
  ASSUME IInv, NEW w \in Workers, InsertLine(w)
  PROVE  IInv'
<1>1. /\ Goto(w, "idle", NoTx) /\ disturbed' = disturbed /\ status' = status
      /\ Insert(tx[w].new, tx[w].task)
  BY DEF InsertLine
<1>2. /\ lines' = [i \in LineIds |-> [task |-> lines'[i].task, cell |-> lines'[i].cell,
                     expected |-> lines'[i].expected, counted |-> lines'[i].counted]]
      /\ \A i \in LineIds : lines[i].task # NoTask => lines'[i] = lines[i]
  BY <1>1, InsertKeeps
<1>3. RowsKept
  BY <1>1, <1>2 DEF RowsKept
<1>4. ASSUME NEW v \in Workers, Serving(pc[v], tx[v])
      PROVE  LeavesAlone(tx[v])
  BY <1>1, <1>2, <1>4 DEF LeavesAlone, IInv, Scoped
<1> QED
  BY <1>1, <1>2, <1>3, <1>4, IdleStep DEF IInv, Shape

LEMMA StartStep ==
  ASSUME IInv, NEW w \in Workers, Start(w)
  PROVE  IInv'
<1>1. /\ Goto(w, "idle", NoTx) /\ disturbed' = disturbed /\ lines' = lines
      /\ status' = [status EXCEPT ![tx[w].task] = "IN_PROGRESS"]
  BY DEF Start
<1>2. RowsKept
  BY <1>1 DEF RowsKept
<1>3. ASSUME NEW v \in Workers, Serving(pc[v], tx[v]), tx[v].task \notin disturbed
      PROVE  LeavesAlone(tx[v])
  <2>1. status[tx[v].task] = "IN_PROGRESS" /\ tx[v].task \in Tasks
    BY <1>3 DEF IInv, Fresh, Scoped
  <2> QED
    BY <1>1, <2>1 DEF LeavesAlone, IInv, Shape
<1>4. DOMAIN status' = Tasks
      /\ lines' = [i \in LineIds |-> [task |-> lines'[i].task, cell |-> lines'[i].cell,
                     expected |-> lines'[i].expected, counted |-> lines'[i].counted]]
  BY <1>1 DEF IInv, Shape
<1>5. ASSUME NEW v \in Workers \ {w}, Serving(pc[v], tx[v]), tx[v].task \notin disturbed'
      PROVE  LeavesAlone(tx[v])
  BY <1>1, <1>3, <1>5
<1> QED
  BY <1>1, <1>2, <1>4, <1>5, IdleStep

\* What w commits are counts of the lines of its task alone.
LEMMA CommitLines ==
  ASSUME IInv, NEW w \in Workers, Commit(w), NEW i \in LineIds
  PROVE  /\ lines'[i] = [task |-> lines[i].task, cell |-> lines[i].cell,
                         expected |-> lines[i].expected, counted |-> CountedIn(w, i)]
         /\ lines[i].task # tx[w].task => lines'[i] = lines[i]
         /\ tx[w].task \notin disturbed /\ lines'[i] # lines[i]
              => lines[i].counted = None /\ status[lines[i].task] = "IN_PROGRESS"
<1>1. lines[i] = [task |-> lines[i].task, cell |-> lines[i].cell,
                  expected |-> lines[i].expected, counted |-> lines[i].counted]
  BY DEF IInv, Shape
<1>2. lines'[i] = [task |-> lines[i].task, cell |-> lines[i].cell,
                   expected |-> lines[i].expected, counted |-> CountedIn(w, i)]
  <2>1. lines'[i] = [lines[i] EXCEPT !.counted = CountedIn(w, i)]
    BY DEF Commit
  <2> QED
    BY <1>1, <2>1
<1>3. Serving(pc[w], tx[w])
  BY DEF Commit, Serving
<1>4. CASE tx[w].cnt[i] = None
  <2>1. CountedIn(w, i) = lines[i].counted
    BY <1>4 DEF CountedIn
  <2> QED
    BY <1>1, <1>2, <2>1
<1>5. CASE tx[w].cnt[i] # None
  BY <1>2, <1>3, <1>5 DEF IInv, Scoped, Fresh
<1> QED
  BY <1>2, <1>4, <1>5

LEMMA CommitStep ==
  ASSUME IInv, NEW w \in Workers, Commit(w)
  PROVE  IInv'
<1>1. /\ Goto(w, "idle", NoTx) /\ disturbed' = disturbed
      /\ status' = IF tx[w].last THEN [status EXCEPT ![tx[w].task] = "COMPLETED"] ELSE status
      /\ pc[w] = "commit"
  BY DEF Commit
<1>2. Serving(pc[w], tx[w]) /\ tx[w].task \in tx[w].scope
  BY <1>1 DEF Serving, IInv, Scoped
<1>3. lines' = [i \in LineIds |-> [task |-> lines'[i].task, cell |-> lines'[i].cell,
                  expected |-> lines'[i].expected, counted |-> lines'[i].counted]]
  <2>1. lines' = [i \in LineIds |-> lines'[i]]
    BY DEF Commit
  <2>2. ASSUME NEW i \in LineIds
        PROVE  lines'[i] = [task |-> lines'[i].task, cell |-> lines'[i].cell,
                            expected |-> lines'[i].expected, counted |-> lines'[i].counted]
    <3>1. PICK a, b, c, d : lines'[i] = [task |-> a, cell |-> b, expected |-> c, counted |-> d]
      BY CommitLines
    <3> QED
      BY <3>1
  <2> QED
    BY <2>1, <2>2
<1>4. RowsKept
  <2>1. ASSUME NEW i \in LineIds PROVE lines'[i].task = lines[i].task
    <3>1. lines'[i] = [task |-> lines[i].task, cell |-> lines[i].cell,
                       expected |-> lines[i].expected, counted |-> CountedIn(w, i)]
      BY CommitLines
    <3> QED
      BY <3>1
  <2> QED
    BY <1>1, <2>1 DEF RowsKept
<1>5. ASSUME NEW v \in Workers \ {w}, Serving(pc[v], tx[v]), tx[v].task \notin disturbed
      PROVE  LeavesAlone(tx[v])
  <2>1. tx[v].task # tx[w].task
    <3>1. tx[v].task \in tx[v].scope
      BY <1>5 DEF IInv, Scoped
    <3>2. pc[v] # "idle" /\ pc[w] # "idle"
      BY <1>1, <1>5 DEF Serving
    <3>3. tx[v].scope \cap tx[w].scope \subseteq disturbed
      BY <3>2 DEF IInv, Apart
    <3> QED
      BY <1>2, <1>5, <3>1, <3>3
  <2>2. status'[tx[v].task] = status[tx[v].task]
    BY <1>1, <2>1
  <2> QED
    BY <2>1, <2>2, CommitLines DEF LeavesAlone
<1>6. DOMAIN status' = Tasks
  BY <1>1 DEF IInv, Shape
<1> QED
  BY <1>1, <1>3, <1>4, <1>5, <1>6, IdleStep

-----------------------------------------------------------------------------
(* The statements of a request that commit nothing.                        *)

LEMMA LocalKeeps ==
  ASSUME NEW w \in Workers, NEW next, NEW t, Local(w, next, t)
  PROVE  Goto(w, next, t) /\ lines' = lines /\ status' = status /\ disturbed' = disturbed
BY DEF Local, rows

LEMMA RefuseStep ==
  ASSUME IInv, NEW w \in Workers, Refuse(w)
  PROVE  IInv'
BY LocalKeeps, QuitStep DEF Refuse

LEMMA ReadExpectedStep ==
  ASSUME IInv, NEW w \in Workers, ReadExpected(w)
  PROVE  IInv'
<1> DEFINE t == [tx[w] EXCEPT !.new = {[cell |-> tx[w].cell, kind |-> "AVAILABLE", expected |-> Total(tx[w].cell)]}]
<1>1. pc[w] = "expected" /\ Local(w, "insert", t)
  BY DEF ReadExpected
<1>2. Keeps(w, t)
  BY NoTxFields DEF Keeps, IInv, Shape
<1> HIDE DEF t
<1> QED
  BY <1>1, <1>2, LocalKeeps, KeepsStep DEF Serving, Control

LEMMA ReadPendingStep ==
  ASSUME IInv, NEW w \in Workers, ReadPending(w)
  PROVE  IInv'
<1>1. PICK next \in {"find", "adjust"} : pc[w] = "pending" /\ (Local(w, next, tx[w]) \/ Refuse(w))
  BY DEF ReadPending
<1>2. Keeps(w, tx[w])
  BY DEF Keeps
<1>3. CASE Local(w, next, tx[w])
  <2>1. tx[w].task # NoTask
    BY <1>1 DEF IInv, Scoped, Serving
  <2>2. Serving(next, tx[w]) <=> Serving(pc[w], tx[w])
    BY <1>1, <2>1 DEF Serving
  <2> QED
    BY <1>1, <1>2, <1>3, <2>2, LocalKeeps, KeepsStep DEF Control
<1> QED
  BY <1>1, <1>3, RefuseStep

\* 'has already been counted' is what keeps a line of a calm task from a second count.
LEMMA FindLineStep ==
  ASSUME IInv, NEW w \in Workers, FindLine(w)
  PROVE  IInv'
<1>1. pc[w] = "find"
  BY DEF FindLine
<1>2. PICK i \in tx[w].todo :
        IF lines[i].counted = None THEN Local(w, "count", [tx[w] EXCEPT !.line = i]) ELSE Refuse(w)
  BY DEF FindLine
<1>3. CASE lines[i].counted # None
  BY <1>2, <1>3, RefuseStep
<1>4. CASE lines[i].counted = None
  <2> DEFINE t == [tx[w] EXCEPT !.line = i]
  <2>1. Goto(w, "count", t) /\ lines' = lines /\ status' = status /\ disturbed' = disturbed
    BY <1>2, <1>4, LocalKeeps
  <2>2. Keeps(w, t) /\ t.line = i
    BY NoTxFields DEF Keeps, IInv, Shape
  <2> HIDE DEF t
  <2>3. DOMAIN t = DOMAIN NoTx /\ DOMAIN t.cnt = LineIds
    BY <2>2 DEF Keeps, IInv, Shape
  <2>4. Scoped("find", tx[w]) /\ Fresh("find", tx[w])
    BY <1>1 DEF IInv
  <2>5. Scoped("count", t)
    BY <1>2, <2>2, <2>4 DEF Scoped, Serving, Keeps
  <2>6. Fresh("count", t)
    BY <1>4, <2>2, <2>4 DEF Fresh, Serving, Keeps
  <2> QED
    BY <1>1, <2>1, <2>2, <2>3, <2>5, <2>6, InnerStep DEF Control, Keeps
<1> QED
  BY <1>3, <1>4

LEMMA CountLineStep ==
  ASSUME IInv, NEW w \in Workers, CountLine(w)
  PROVE  IInv'
<1> DEFINE i == tx[w].line
           next == IF tx[w].todo = {i} THEN "adjust" ELSE "find"
<1>1. pc[w] = "count"
  BY DEF CountLine
<1>2. PICK diff : Local(w, next, [tx[w] EXCEPT !.todo = @ \ {i}, !.line = NoLine,
                                    !.cnt[i] = tx[w].dto[i], !.diff = diff])
  BY DEF CountLine
<1> DEFINE t == [tx[w] EXCEPT !.todo = @ \ {i}, !.line = NoLine,
                              !.cnt[i] = tx[w].dto[i], !.diff = diff]
<1>3. Goto(w, next, t) /\ lines' = lines /\ status' = status /\ disturbed' = disturbed
  BY <1>2, LocalKeeps
<1>4. /\ DOMAIN t = DOMAIN NoTx /\ t.todo = tx[w].todo \ {i}
      /\ t.cnt = [tx[w].cnt EXCEPT ![i] = tx[w].dto[i]]
      /\ t.task = tx[w].task /\ t.scope = tx[w].scope
  BY NoTxFields DEF IInv, Shape
<1> HIDE DEF t
<1>5. Scoped("count", tx[w]) /\ Fresh("count", tx[w])
  BY <1>1 DEF IInv
<1>6. i \in tx[w].todo /\ i \in LineIds /\ tx[w].task \in Tasks /\ tx[w].task # NoTask
  BY <1>5 DEF Scoped, Serving
<1>7. DOMAIN t.cnt = LineIds /\ \A j \in LineIds \ {i} : t.cnt[j] = tx[w].cnt[j]
  BY <1>4 DEF IInv, Shape
<1>8. next \in {"adjust", "find"} /\ Serving(next, t)
  BY <1>4, <1>6 DEF Serving
<1> HIDE DEF next
<1>9. Scoped(next, t)
  BY <1>4, <1>5, <1>6, <1>8 DEF Scoped, Serving
<1>10. Fresh(next, t)
  <2>1. lines[i].task = tx[w].task /\ (tx[w].task \notin disturbed => lines[i].counted = None)
    BY <1>5, <1>6 DEF Fresh
  <2>2. \A j \in LineIds : j \in t.todo \/ t.cnt[j] # None => lines[j].task = t.task
    BY <1>4, <1>5, <1>7, <2>1 DEF Fresh
  <2>3. tx[w].task \notin disturbed => status[tx[w].task] = "IN_PROGRESS"
    BY <1>5 DEF Fresh, Serving
  <2>4. tx[w].task \notin disturbed => \A j \in LineIds : t.cnt[j] # None => lines[j].counted = None
    BY <1>5, <1>7, <2>1 DEF Fresh
  <2> QED
    BY <1>4, <1>8, <2>2, <2>3, <2>4 DEF Fresh
<1> QED
  BY <1>1, <1>3, <1>4, <1>7, <1>8, <1>9, <1>10, InnerStep DEF Control

LEMMA LeaveLinesStep ==
  ASSUME IInv, NEW w \in Workers, LeaveLines(w)
  PROVE  IInv'
<1> DEFINE t == [tx[w] EXCEPT !.dto = NoTx.dto]
<1>1. pc[w] = "adjust" /\ tx[w].task # NoTask /\ Local(w, "remaining", t)
  BY DEF LeaveLines, InTask
<1>2. Keeps(w, t)
  BY NoTxFields DEF Keeps, IInv, Shape
<1> HIDE DEF t
<1> QED
  BY <1>1, <1>2, LocalKeeps, KeepsStep DEF Serving, Control

LEMMA ReadRemainingStep ==
  ASSUME IInv, NEW w \in Workers, ReadRemaining(w)
  PROVE  IInv'
<1>1. pc[w] = "remaining"
  BY DEF ReadRemaining
<1>2. PICK last : Local(w, "commit", [tx[w] EXCEPT !.last = last])
  BY DEF ReadRemaining
<1> DEFINE t == [tx[w] EXCEPT !.last = last]
<1>3. Keeps(w, t)
  BY NoTxFields DEF Keeps, IInv, Shape
<1> HIDE DEF t
<1> QED
  BY <1>1, <1>2, <1>3, LocalKeeps, KeepsStep DEF Serving, Control, t

LEMMA ReadTotalStep ==
  ASSUME IInv, NEW w \in Workers, ReadTotal(w)
  PROVE  IInv'
<1>1. pc[w] = "total"
  BY DEF ReadTotal
<1>2. PICK qty : Local(w, "adjust", [tx[w] EXCEPT !.qty = qty, !.plus = 0])
  BY DEF ReadTotal
<1> DEFINE t == [tx[w] EXCEPT !.qty = qty, !.plus = 0]
<1>3. Keeps(w, t)
  BY NoTxFields DEF Keeps, IInv, Shape
<1>4. tx[w].task = NoTask
  BY <1>1 DEF IInv, Scoped
<1> HIDE DEF t
<1>5. ~Serving("adjust", t) /\ ~Serving("total", tx[w])
  BY <1>3, <1>4 DEF Serving, Keeps
<1> QED
  BY <1>1, <1>2, <1>3, <1>5, LocalKeeps, KeepsStep DEF Control, t

\* For both kinds of adjustment: x is what the request holds when the row is right.
LEMMA ReadRowStep ==
  ASSUME IInv, NEW w \in Workers, pc[w] = "adjust", NEW c, NEW n, NEW x, Keeps(w, x),
         ReadRow(w, c, n, x)
  PROVE  IInv'
<1>1. PICK kind, prev :
        \/ Local(w, "store", [x EXCEPT !.cell = c, !.qty = n, !.kind = kind, !.prev = prev])
        \/ InTask(w) /\ Local(w, "adjust", x)
        \/ Refuse(w)
  BY DEF ReadRow
<1>2. CASE Local(w, "store", [x EXCEPT !.cell = c, !.qty = n, !.kind = kind, !.prev = prev])
  <2> DEFINE t == [x EXCEPT !.cell = c, !.qty = n, !.kind = kind, !.prev = prev]
  <2>1. Keeps(w, t)
    BY NoTxFields DEF Keeps, IInv, Shape
  <2> HIDE DEF t
  <2>2. Serving("store", t) <=> Serving("adjust", tx[w])
    BY <2>1 DEF Serving, Keeps
  <2> QED
    BY <1>2, <2>1, <2>2, LocalKeeps, KeepsStep DEF Control, t
<1>3. CASE Local(w, "adjust", x)
  <2>1. Serving("adjust", x) <=> Serving("adjust", tx[w])
    BY DEF Serving, Keeps
  <2> QED
    BY <1>3, <2>1, LocalKeeps, KeepsStep DEF Control
<1> QED
  BY <1>1, <1>2, <1>3, RefuseStep

LEMMA ReadForStep ==
  ASSUME IInv, NEW w \in Workers, ReadForLine(w) \/ ReadForCell(w)
  PROVE  IInv'
<1>1. CASE ReadForLine(w)
  <2>1. pc[w] = "adjust"
    BY <1>1 DEF ReadForLine
  <2>2. PICK i \in tx[w].diff :
          ReadRow(w, lines[i].cell, Wanted(w, i), [tx[w] EXCEPT !.diff = @ \ {i}, !.line = i])
    BY <1>1 DEF ReadForLine
  <2>3. PICK c, n, x : /\ c = lines[i].cell /\ n = Wanted(w, i)
                       /\ x = [tx[w] EXCEPT !.diff = @ \ {i}, !.line = i]
    OBVIOUS
  <2>4. Keeps(w, x)
    BY <2>3, NoTxFields DEF Keeps, IInv, Shape
  <2>5. ReadRow(w, c, n, x)
    BY <2>2, <2>3
  <2> QED
    BY <2>1, <2>4, <2>5, ReadRowStep
<1>2. CASE ReadForCell(w)
  <2>1. pc[w] = "adjust" /\ ReadRow(w, tx[w].cell, tx[w].qty, tx[w])
    BY <1>2 DEF ReadForCell
  <2>2. PICK c, n, x : c = tx[w].cell /\ n = tx[w].qty /\ x = tx[w]
    OBVIOUS
  <2>3. Keeps(w, x) /\ ReadRow(w, c, n, x)
    BY <2>1, <2>2 DEF Keeps
  <2> QED
    BY <2>1, <2>3, ReadRowStep
<1> QED
  BY <1>1, <1>2

LEMMA StoreCountedStep ==
  ASSUME IInv, NEW w \in Workers, StoreCounted(w)
  PROVE  IInv'
<1>1. pc[w] = "store" /\ tx[w].task # NoTask
  BY DEF StoreCounted, InTask
<1>2. PICK put, log :
        Local(w, "adjust", [tx[w] EXCEPT !.put = put, !.log = log, !.line = NoLine,
                              !.cell = NoTx.cell, !.qty = None, !.kind = "AVAILABLE", !.prev = 0])
  BY DEF StoreCounted
<1> DEFINE t == [tx[w] EXCEPT !.put = put, !.log = log, !.line = NoLine,
                   !.cell = NoTx.cell, !.qty = None, !.kind = "AVAILABLE", !.prev = 0]
<1>3. Keeps(w, t)
  BY NoTxFields DEF Keeps, IInv, Shape
<1> HIDE DEF t
<1>4. Serving("adjust", t) /\ Serving("store", tx[w])
  BY <1>1, <1>3 DEF Serving, Keeps
<1> QED
  BY <1>1, <1>2, <1>3, <1>4, LocalKeeps, KeepsStep DEF Control, t

\* An adjustment on its own writes no line and no status.
LEMMA AdjustmentStep ==
  ASSUME IInv, NEW w \in Workers, StoreRow(w) \/ LogMovement(w) \/ RecordAdjustment(w)
  PROVE  IInv'
<1>1. CASE StoreRow(w)
  <2>1. /\ pc[w] = "store" /\ tx[w].task = NoTask /\ Goto(w, "log", tx[w])
        /\ lines' = lines /\ status' = status /\ disturbed' = disturbed
    BY <1>1 DEF StoreRow, InTask
  <2> QED
    BY <2>1, KeepsStep DEF Keeps, Serving, Control
<1>2. CASE LogMovement(w)
  <2>1. /\ pc[w] = "log" /\ Goto(w, "record", tx[w])
        /\ lines' = lines /\ status' = status /\ disturbed' = disturbed
    BY <1>2 DEF LogMovement
  <2> QED
    BY <2>1, KeepsStep DEF Keeps, Serving, Control
<1>3. CASE RecordAdjustment(w)
  BY <1>3, QuitStep DEF RecordAdjustment
<1> QED
  BY <1>1, <1>2, <1>3

LEMMA FailStep ==
  ASSUME IInv, NEW w \in Workers, Fail(w)
  PROVE  IInv'
<1>1. Goto(w, "idle", NoTx) /\ lines' = lines /\ status' = status /\ disturbed \subseteq disturbed'
  BY DEF Fail, rows
<1> QED
  BY <1>1, QuitStep

-----------------------------------------------------------------------------
LEMMA StatementStep ==
  ASSUME IInv, NEW w \in Workers, Statement(w)
  PROVE  IInv'
<1>1. CASE InsertTask(w) \/ ReadExpected(w) \/ InsertLine(w) \/ Start(w)
  BY <1>1, InsertTaskStep, ReadExpectedStep, InsertLineStep, StartStep
<1>2. CASE ReadPending(w) \/ FindLine(w) \/ CountLine(w) \/ LeaveLines(w)
  BY <1>2, ReadPendingStep, FindLineStep, CountLineStep, LeaveLinesStep
<1>3. CASE ReadRemaining(w) \/ Commit(w) \/ ReadTotal(w) \/ ReadForLine(w) \/ ReadForCell(w)
  BY <1>3, ReadRemainingStep, CommitStep, ReadTotalStep, ReadForStep
<1>4. CASE StoreCounted(w) \/ StoreRow(w) \/ LogMovement(w) \/ RecordAdjustment(w)
  BY <1>4, StoreCountedStep, AdjustmentStep
<1> QED
  BY <1>1, <1>2, <1>3, <1>4 DEF Statement

LEMMA IInvStep == IInv /\ [Next]_vars => IInv'
<1> SUFFICES ASSUME IInv, [Next]_vars PROVE IInv'
  OBVIOUS
<1>1. CASE UNCHANGED vars
  <2>1. UNCHANGED <<lines, pc, tx>> /\ status' = status /\ disturbed' = disturbed
    BY <1>1 DEF vars, rows
  <2> QED
    BY <2>1, SameRows, OutsideStep
<1>2. ASSUME NEW c \in Cells, Reserve(c) \/ Pick(c) PROVE IInv'
  BY <1>2, StockStep
<1>3. ASSUME NEW t \in Tasks, CreateTask(t) \/ Cancel(t) PROVE IInv'
  BY <1>3, CreateTaskStep, CancelStep
<1>4. ASSUME NEW w \in Workers, NEW t \in Tasks,
             \/ \E cs \in Batches, suggested \in BOOLEAN : ReadRows(w, t, cs, suggested)
             \/ \E c \in Cells : AddLine(w, t, c)
             \/ ReadStart(w, t)
             \/ \E ids \in SUBSET LineIds : ReadTask(w, t, ids)
      PROVE  IInv'
  BY <1>4, ReadRowsStep, AddLineStep, ReadStartStep, ReadTaskStep
<1>5. ASSUME NEW w \in Workers,
             \/ \E p \in Targets : Adjust(w, p[1], p[2])
             \/ \E p \in Changes : AdjustBy(w, p[1], p[2])
      PROVE  IInv'
  BY <1>5, AdjustStep, AdjustByStep
<1>6. ASSUME NEW w \in Workers, Statement(w) \/ Fail(w) PROVE IInv'
  BY <1>6, StatementStep, FailStep
<1> QED
  BY <1>1, <1>2, <1>3, <1>4, <1>5, <1>6 DEF Next

\* One step of the property.
Final ==
  \A i \in LineIds : lines[i].task # NoTask /\ Calm(lines[i].task)
    => \/ lines'[i] = lines[i]
       \/ lines[i].counted = None /\ status[lines[i].task] = "IN_PROGRESS"

\* Only these three write lines.
LEMMA StatementWrites ==
  ASSUME NEW w \in Workers, Statement(w)
  PROVE  lines' = lines \/ InsertTask(w) \/ InsertLine(w) \/ Commit(w)
<1>1. CASE ReadExpected(w) \/ Start(w) \/ StoreRow(w) \/ LogMovement(w) \/ RecordAdjustment(w)
  BY <1>1 DEF ReadExpected, Start, StoreRow, LogMovement, RecordAdjustment, Local, rows
<1>2. CASE ReadPending(w) \/ FindLine(w) \/ CountLine(w) \/ LeaveLines(w) \/ ReadRemaining(w)
  BY <1>2 DEF ReadPending, FindLine, CountLine, LeaveLines, ReadRemaining, Refuse, Local, rows
<1>3. CASE ReadTotal(w) \/ ReadForLine(w) \/ ReadForCell(w) \/ StoreCounted(w)
  BY <1>3 DEF ReadTotal, ReadForLine, ReadForCell, ReadRow, StoreCounted, Refuse, Local, rows
<1> QED
  BY <1>1, <1>2, <1>3 DEF Statement

LEMMA NextWrites ==
  ASSUME [Next]_vars
  PROVE  \/ lines' = lines
         \/ \E w \in Workers : InsertTask(w) \/ InsertLine(w) \/ Commit(w)
<1>1. CASE UNCHANGED vars
  BY <1>1 DEF vars, rows
<1>2. ASSUME NEW c \in Cells, Reserve(c) \/ Pick(c) PROVE lines' = lines
  BY <1>2 DEF Reserve, Pick
<1>3. ASSUME NEW t \in Tasks, CreateTask(t) \/ Cancel(t) PROVE lines' = lines
  BY <1>3 DEF CreateTask, Cancel
<1>4. ASSUME NEW w \in Workers, NEW t \in Tasks,
             \/ \E cs \in Batches, suggested \in BOOLEAN : ReadRows(w, t, cs, suggested)
             \/ \E c \in Cells : AddLine(w, t, c)
             \/ ReadStart(w, t)
             \/ \E ids \in SUBSET LineIds : ReadTask(w, t, ids)
      PROVE  lines' = lines
  BY <1>4 DEF ReadRows, AddLine, ReadStart, ReadTask, Begin, rows
<1>5. ASSUME NEW w \in Workers,
             \/ \E p \in Targets : Adjust(w, p[1], p[2])
             \/ \E p \in Changes : AdjustBy(w, p[1], p[2])
      PROVE  lines' = lines
  BY <1>5 DEF Adjust, AdjustBy, Begin, rows
<1>6. ASSUME NEW w \in Workers, Fail(w) PROVE lines' = lines
  BY <1>6 DEF Fail, rows
<1> QED
  BY <1>1, <1>2, <1>3, <1>4, <1>5, <1>6, StatementWrites DEF Next

LEMMA FinalStep == IInv /\ [Next]_vars => Final
<1> SUFFICES ASSUME IInv, [Next]_vars PROVE Final
  OBVIOUS
<1>1. CASE lines' = lines
  BY <1>1 DEF Final
<1>2. CASE \E w \in Workers : InsertTask(w) \/ InsertLine(w)
  <2>1. PICK w \in Workers : Insert(tx[w].new, tx[w].task)
    BY <1>2 DEF InsertTask, InsertLine
  <2>2. PICK new, t : new = tx[w].new /\ t = tx[w].task
    OBVIOUS
  <2>3. \A i \in LineIds : lines[i].task # NoTask => lines'[i] = lines[i]
    BY <2>1, <2>2, InsertKeeps
  <2> QED
    BY <2>3 DEF Final
<1>3. CASE \E w \in Workers : Commit(w)
  <2>1. PICK w \in Workers : Commit(w)
    BY <1>3
  <2>2. ASSUME NEW i \in LineIds, lines[i].task \notin disturbed, lines'[i] # lines[i]
        PROVE  lines[i].counted = None /\ status[lines[i].task] = "IN_PROGRESS"
    <3>1. lines[i].task = tx[w].task
      BY <2>1, <2>2, CommitLines
    <3> QED
      BY <2>1, <2>2, <3>1, CommitLines
  <2> QED
    BY <2>2 DEF Final, Calm
<1>4. \/ lines' = lines
      \/ \E w \in Workers : InsertTask(w) \/ InsertLine(w) \/ Commit(w)
  BY NextWrites
<1> QED
  BY <1>1, <1>2, <1>3, <1>4

\* However requests overlap, fail or are repeated: a line of a task that no two requests
\* worked on at once changes only by its first count, and only while its task is in
\* progress.
THEOREM CountedOnce == Spec => CountIsFinal
<1>1. Init => IInv
  BY InitIInv
<1>2. IInv /\ [Next]_vars => IInv'
  BY IInvStep
<1>3. IInv /\ [Next]_vars => [Final]_<<lines>>
  BY FinalStep
<1>4. Spec => []IInv
  BY <1>1, <1>2, PTL DEF Spec
<1>5. Spec => [][Final]_<<lines>>
  BY <1>3, <1>4, PTL DEF Spec
<1> QED
  BY <1>5 DEF CountIsFinal, Final

-----------------------------------------------------------------------------
(***************************************************************************)
(* The types.  An adjustment that is not part of a count never stores a    *)
(* null quantity: the only field of which more than its type is needed.    *)
(***************************************************************************)
RowsTyped ==
  /\ status \in [Tasks -> Status]
  /\ lines \in [LineIds -> Line]
  /\ stock \in [Rows -> Nat]
  /\ logged \in [Cells -> Int] /\ adjusted \in [Cells -> Int]
  /\ shelf \in [Cells -> Nat]
  /\ disturbed \subseteq Tasks \cup Cells

Fits(c, t) ==
  /\ c = "idle" => t = NoTx
  /\ c \in {"adjust", "store"} /\ t.task = NoTask => t.qty \in Nat
  /\ c = "pending" => t.task # NoTask

TInv == TypeOK /\ \A w \in Workers : Fits(pc[w], tx[w])

LEMMA TypeOKParts ==
  TypeOK <=> /\ RowsTyped
             /\ pc \in [Workers -> Control]
             /\ DOMAIN tx = Workers /\ \A w \in Workers : tx[w] \in Tx
BY DEF TypeOK, RowsTyped

LEMMA NoTxTyped == NoTx \in Tx
<1>1. (CHOOSE c \in Cells : TRUE) \in Cells
  BY CountingAssumption
<1> QED
  BY <1>1 DEF NoTx, Tx, Qty, None, Kinds

LEMMA InitTInv == Init => TInv
<1> SUFFICES ASSUME Init PROVE TInv
  OBVIOUS
<1>1. FreeLine \in Line
  BY CountingAssumption DEF FreeLine, Line, Qty, None
<1>2. RowsTyped
  BY <1>1, CountingAssumption DEF Init, RowsTyped, Status
<1>3. pc \in [Workers -> Control] /\ DOMAIN tx = Workers
      /\ \A w \in Workers : pc[w] = "idle" /\ tx[w] = NoTx
  BY DEF Init, Control
<1>4. Fits("idle", NoTx)
  BY DEF Fits
<1> QED
  BY <1>2, <1>3, <1>4, NoTxTyped, TypeOKParts DEF TInv

\* The common part of all statements of a request w.
LEMMA TypedStep ==
  ASSUME TInv, NEW w \in Workers, NEW next \in Control, NEW t \in Tx, Goto(w, next, t),
         Fits(next, t), RowsTyped'
  PROVE  TInv'
<1>1. pc \in [Workers -> Control] /\ DOMAIN tx = Workers
      /\ \A v \in Workers : tx[v] \in Tx /\ Fits(pc[v], tx[v])
  BY DEF TInv, TypeOK
<1>2. pc' \in [Workers -> Control] /\ DOMAIN tx' = Workers
      /\ \A v \in Workers : IF v = w THEN pc'[v] = next /\ tx'[v] = t
                                     ELSE pc'[v] = pc[v] /\ tx'[v] = tx[v]
  BY <1>1 DEF Goto
<1>3. \A v \in Workers : tx'[v] \in Tx /\ Fits(pc'[v], tx'[v])
  BY <1>1, <1>2
<1>4. \A v \in Workers : Fits(pc[v], tx[v])'
  BY <1>3 DEF Fits
<1>5. TypeOK'
  BY <1>2, <1>3, TypeOKParts DEF TypeOK, RowsTyped
<1> QED
  BY <1>4, <1>5 DEF TInv

LEMMA TypedIdle ==
  ASSUME TInv, NEW w \in Workers, Goto(w, "idle", NoTx), RowsTyped'
  PROVE  TInv'
BY NoTxTyped, TypedStep DEF Fits, Control

LEMMA TypedLocal ==
  ASSUME TInv, NEW w \in Workers, NEW next \in Control, NEW t \in Tx, Local(w, next, t),
         Fits(next, t)
  PROVE  TInv'
<1>1. RowsTyped
  BY TypeOKParts DEF TInv
<1>2. UNCHANGED <<status, lines, stock, logged, adjusted, shelf, disturbed>> /\ Goto(w, next, t)
  BY DEF Local, rows
<1>3. RowsTyped'
  BY <1>1, <1>2 DEF RowsTyped
<1> QED
  BY <1>2, <1>3, TypedStep

LEMMA TypedRefuse ==
  ASSUME TInv, NEW w \in Workers, Refuse(w)
  PROVE  TInv'
BY NoTxTyped, TypedLocal DEF Refuse, Fits, Control

LEMMA TypedBegin ==
  ASSUME TInv, NEW w \in Workers, NEW next \in Control, NEW t \in Tx, Begin(w, next, t),
         Fits(next, t)
  PROVE  TInv'
<1>1. RowsTyped
  BY TypeOKParts DEF TInv
<1>2. /\ UNCHANGED <<status, lines, stock, logged, adjusted, shelf>> /\ Goto(w, next, t)
      /\ disturbed' = disturbed \cup Shared(w, t.scope)
  BY DEF Begin, rows
<1>3. Shared(w, t.scope) \subseteq t.scope /\ t.scope \subseteq Tasks \cup Cells
  BY DEF Shared, Tx
<1>4. RowsTyped'
  BY <1>1, <1>2, <1>3 DEF RowsTyped
<1> QED
  BY <1>2, <1>4, TypedStep

\* What a step that is not a request's leaves typed.
LEMMA TypedOutside ==
  ASSUME TInv, UNCHANGED <<pc, tx>>, RowsTyped'
  PROVE  TInv'
<1>1. pc' = pc /\ tx' = tx
  OBVIOUS
<1>2. TypeOK'
  BY <1>1, TypeOKParts DEF TInv, TypeOK, RowsTyped
<1> QED
  BY <1>1, <1>2 DEF TInv, Fits

-----------------------------------------------------------------------------
LEMMA TypedRows == TInv => RowsTyped
BY TypeOKParts DEF TInv

LEMMA TypedRowsNext == TInv' => RowsTyped'
BY TypedRows, PTL

LEMMA TypedStock ==
  ASSUME TInv, NEW c \in Cells, Reserve(c) \/ Pick(c)
  PROVE  TInv'
<1>1. RowsTyped
  BY TypedRows
<1>2. disturbed \cup UNION {{c} \cap tx[o].scope : o \in Workers} \subseteq Tasks \cup Cells
  BY <1>1 DEF RowsTyped
<1>3. CASE Reserve(c)
  <2>1. PICK from, to, n, m :
          /\ from = <<c, "AVAILABLE">> /\ to = <<c, "RESERVED">>
          /\ n = stock[from] - 1 /\ m = stock[to] + 1
    OBVIOUS
  <2>2. from \in Rows /\ to \in Rows /\ stock[from] > 0 /\ from # to
    BY <1>3, <2>1 DEF Reserve
  <2>3. n \in Nat /\ m \in Nat
    BY <1>1, <2>1, <2>2 DEF RowsTyped
  <2>4. stock' = [stock EXCEPT ![<<c, "AVAILABLE">>] = @ - 1, ![<<c, "RESERVED">>] = @ + 1]
    BY <1>3 DEF Reserve
  <2>5. stock' = [stock EXCEPT ![from] = n, ![to] = m]
    BY <2>1, <2>2, <2>4
  <2>6. stock' \in [Rows -> Nat]
    BY <1>1, <2>3, <2>5 DEF RowsTyped
  <2>7. /\ UNCHANGED <<status, lines, logged, adjusted, shelf, pc, tx>>
        /\ disturbed' = disturbed \cup UNION {{c} \cap tx[o].scope : o \in Workers}
    BY <1>3 DEF Reserve
  <2>8. RowsTyped'
    BY <1>1, <1>2, <2>6, <2>7 DEF RowsTyped
  <2> QED
    BY <2>7, <2>8, TypedOutside
<1>4. CASE Pick(c)
  <2>1. PICK row, n : row = <<c, "RESERVED">> /\ n = stock[row] - 1
    OBVIOUS
  <2>2. row \in Rows /\ stock[row] > 0 /\ shelf[c] > 0 /\ stock' = [stock EXCEPT ![row] = n]
        /\ logged' = [logged EXCEPT ![c] = @ - 1] /\ shelf' = [shelf EXCEPT ![c] = @ - 1]
    BY <1>4, <2>1 DEF Pick
  <2>3. n \in Nat /\ logged[c] - 1 \in Int /\ shelf[c] - 1 \in Nat
    BY <1>1, <2>1, <2>2 DEF RowsTyped
  <2>4. stock' \in [Rows -> Nat] /\ logged' \in [Cells -> Int] /\ shelf' \in [Cells -> Nat]
    BY <1>1, <2>2, <2>3 DEF RowsTyped
  <2>5. /\ UNCHANGED <<status, lines, adjusted, pc, tx>>
        /\ disturbed' = disturbed \cup UNION {{c} \cap tx[o].scope : o \in Workers}
    BY <1>4 DEF Pick
  <2>6. RowsTyped'
    BY <1>1, <1>2, <2>4, <2>5 DEF RowsTyped
  <2> QED
    BY <2>5, <2>6, TypedOutside
<1> QED
  BY <1>3, <1>4

LEMMA TypedStatus ==
  ASSUME TInv, NEW t \in Tasks, CreateTask(t) \/ Cancel(t)
  PROVE  TInv'
<1>1. RowsTyped
  BY TypedRows
<1>2. disturbed \cup UNION {{t} \cap tx[o].scope : o \in Workers} \subseteq Tasks \cup Cells
  BY <1>1 DEF RowsTyped
<1>3. /\ UNCHANGED <<lines, stock, logged, adjusted, shelf, pc, tx>>
      /\ disturbed' \subseteq Tasks \cup Cells
      /\ \E s \in Status : status' = [status EXCEPT ![t] = s]
  BY <1>1, <1>2 DEF CreateTask, Cancel, Status, RowsTyped
<1>4. RowsTyped'
  BY <1>1, <1>3 DEF RowsTyped
<1> QED
  BY <1>3, <1>4, TypedOutside

-----------------------------------------------------------------------------
LEMMA TotalNat ==
  ASSUME RowsTyped, NEW c
  PROVE  Total(c) \in Nat /\ IsFiniteSet(RowsOf(c))
<1>1. IsFiniteSet(RowsOf(c)) /\ RowsOf(c) \subseteq Rows
  BY CountingAssumption, FS_Subset DEF RowsOf
<1>2. \A r \in RowsOf(c) : stock[r] \in Nat
  BY <1>1 DEF RowsTyped
<1> QED
  BY <1>1, <1>2, SumNat DEF Total

LEMMA TypedReadRows ==
  ASSUME TInv, NEW w \in Workers, NEW t \in Tasks, NEW cs \in Batches, NEW suggested,
         ReadRows(w, t, cs, suggested)
  PROVE  TInv'
<1> DEFINE found == {r \in Rows : r[1] \in cs}
           new   == {[cell |-> r[1], kind |-> r[2], expected |-> stock[r]] : r \in found}
           x     == [NoTx EXCEPT !.task = t, !.scope = {t}, !.new = new]
<1>1. Begin(w, "create", x)
  BY DEF ReadRows
<1>2. new \subseteq [cell : Cells, kind : Kinds, expected : Nat]
  <2>1. \A r \in Rows : r[1] \in Cells /\ r[2] \in Kinds /\ stock[r] \in Nat
    BY TypedRows, CountingAssumption DEF RowsTyped
  <2> QED
    BY <2>1
<1>3. x \in Tx
  BY <1>2, NoTxTyped DEF Tx
<1> HIDE DEF x
<1> QED
  BY <1>1, <1>3, TypedBegin DEF Fits, Control

LEMMA TypedAddLine ==
  ASSUME TInv, NEW w \in Workers, NEW t \in Tasks, NEW c \in Cells, AddLine(w, t, c)
  PROVE  TInv'
<1> DEFINE x == [NoTx EXCEPT !.task = t, !.scope = {t}, !.cell = c]
<1>1. Begin(w, "expected", x)
  BY DEF AddLine
<1>2. x \in Tx
  BY NoTxTyped DEF Tx
<1> HIDE DEF x
<1> QED
  BY <1>1, <1>2, TypedBegin DEF Fits, Control

LEMMA TypedReadStart ==
  ASSUME TInv, NEW w \in Workers, NEW t \in Tasks, ReadStart(w, t)
  PROVE  TInv'
<1> DEFINE x == [NoTx EXCEPT !.task = t, !.scope = {t}]
<1>1. Begin(w, "start", x)
  BY DEF ReadStart
<1>2. x \in Tx
  BY NoTxTyped DEF Tx
<1> HIDE DEF x
<1> QED
  BY <1>1, <1>2, TypedBegin DEF Fits, Control

LEMMA TypedReadTask ==
  ASSUME TInv, NEW w \in Workers, NEW t \in Tasks, NEW ids \in SUBSET LineIds, ReadTask(w, t, ids)
  PROVE  TInv'
<1> DEFINE scope == {t} \cup {lines[i].cell : i \in ids}
           dto   == [i \in LineIds |-> IF i \in ids THEN shelf[lines[i].cell] ELSE None]
           x     == [NoTx EXCEPT !.task = t, !.scope = scope, !.todo = ids, !.dto = dto]
<1>1. Begin(w, "pending", x)
  BY DEF ReadTask
<1>2. \A i \in LineIds : lines[i].cell \in Cells /\ shelf[lines[i].cell] \in Nat
  BY TypedRows DEF RowsTyped, Line
<1>3. scope \subseteq Tasks \cup Cells /\ dto \in [LineIds -> Qty]
  BY <1>2 DEF Qty, None
<1> HIDE DEF scope, dto
<1>4. x \in Tx
  BY <1>3, NoTxTyped DEF Tx
<1>5. x.task # NoTask
  BY CountingAssumption DEF NoTx
<1> HIDE DEF x
<1> QED
  BY <1>1, <1>4, <1>5, TypedBegin DEF Fits, Control

LEMMA TypedAdjust ==
  ASSUME TInv, NEW w \in Workers, NEW c \in Cells, NEW n \in Nat, Adjust(w, c, n)
  PROVE  TInv'
<1> DEFINE x == [NoTx EXCEPT !.scope = {c}, !.cell = c, !.qty = n]
<1>1. Begin(w, "adjust", x)
  BY DEF Adjust
<1>2. x \in Tx
  BY NoTxTyped DEF Tx, Qty
<1>3. x.qty = n
  BY NoTxTyped DEF Tx
<1> HIDE DEF x
<1> QED
  BY <1>1, <1>2, <1>3, TypedBegin DEF Fits, Control

LEMMA TypedAdjustBy ==
  ASSUME TInv, NEW w \in Workers, NEW c \in Cells, NEW n \in Int, AdjustBy(w, c, n)
  PROVE  TInv'
<1> DEFINE x == [NoTx EXCEPT !.scope = {c}, !.cell = c, !.plus = n]
<1>1. Begin(w, "total", x)
  BY DEF AdjustBy
<1>2. x \in Tx
  BY NoTxTyped DEF Tx
<1> HIDE DEF x
<1> QED
  BY <1>1, <1>2, TypedBegin DEF Fits, Control

-----------------------------------------------------------------------------
\* The lines a request inserts are lines.
LEMMA TypedInsert ==
  ASSUME TInv, NEW w \in Workers, Insert(tx[w].new, tx[w].task)
  PROVE  lines' \in [LineIds -> Line]
<1>1. PICK new, t : new = tx[w].new /\ t = tx[w].task
  OBVIOUS
<1>2. new \subseteq [cell : Cells, kind : Kinds, expected : Nat] /\ t \in Tasks \cup {NoTask}
  BY <1>1 DEF TInv, TypeOK, Tx
<1>3. PICK ids \in SUBSET LinesOf(NoTask) : \E f \in [ids -> new] :
        lines' = [i \in LineIds |->
          IF i \in ids THEN [task |-> t, cell |-> f[i].cell, expected |-> f[i].expected,
                             counted |-> None]
                       ELSE lines[i]]
  BY <1>1 DEF Insert
<1>4. PICK f \in [ids -> new] :
        lines' = [i \in LineIds |->
          IF i \in ids THEN [task |-> t, cell |-> f[i].cell, expected |-> f[i].expected,
                             counted |-> None]
                       ELSE lines[i]]
  BY <1>3
<1>5. \A i \in LineIds : lines[i] \in Line
  BY TypedRows DEF RowsTyped
<1>6. \A i \in ids : [task |-> t, cell |-> f[i].cell, expected |-> f[i].expected,
                      counted |-> None] \in Line
  <2>1. ASSUME NEW i \in ids PROVE f[i].cell \in Cells /\ f[i].expected \in Nat
    <3>1. f[i] \in [cell : Cells, kind : Kinds, expected : Nat]
      BY <1>2
    <3> QED
      BY <3>1
  <2> QED
    BY <1>2, <2>1 DEF Line, Qty
<1> QED
  BY <1>4, <1>5, <1>6

LEMMA TypedRequests ==
  ASSUME TInv, NEW w \in Workers, InsertTask(w) \/ InsertLine(w) \/ Start(w)
  PROVE  TInv'
<1>1. RowsTyped
  BY TypedRows
<1>2. lines' \in [LineIds -> Line]
  BY <1>1, TypedInsert DEF InsertTask, InsertLine, Start, RowsTyped
<1>3. /\ Goto(w, "idle", NoTx) /\ UNCHANGED <<stock, logged, adjusted, shelf, disturbed>>
      /\ status' = status \/ \E s \in Status : status' = [status EXCEPT ![tx[w].task] = s]
  BY DEF InsertTask, InsertLine, Start, Status
<1>4. RowsTyped'
  BY <1>1, <1>2, <1>3 DEF RowsTyped
<1> QED
  BY <1>3, <1>4, TypedIdle

LEMMA TypedReads ==
  ASSUME TInv, NEW w \in Workers, ReadExpected(w) \/ ReadPending(w) \/ ReadRemaining(w) \/ LeaveLines(w)
  PROVE  TInv'
<1>1. tx[w] \in Tx /\ tx[w].cell \in Cells
  BY DEF TInv, TypeOK, Tx
<1>2. CASE ReadExpected(w)
  <2> DEFINE t == [tx[w] EXCEPT !.new = {[cell |-> tx[w].cell, kind |-> "AVAILABLE", expected |-> Total(tx[w].cell)]}]
  <2>1. {[cell |-> tx[w].cell, kind |-> "AVAILABLE", expected |-> Total(tx[w].cell)]} \subseteq [cell : Cells, kind : Kinds, expected : Nat]
    BY <1>1, TotalNat, TypedRows DEF Kinds
  <2>2. t \in Tx
    BY <1>1, <2>1 DEF Tx
  <2>3. Local(w, "insert", t)
    BY <1>2 DEF ReadExpected
  <2> HIDE DEF t
  <2> QED
    BY <2>2, <2>3, TypedLocal DEF Fits, Control
<1>3. CASE ReadPending(w)
  <2>1. PICK next \in {"find", "adjust"} : Local(w, next, tx[w]) \/ Refuse(w)
    BY <1>3 DEF ReadPending
  <2>2. tx[w].task # NoTask
    BY <1>3 DEF ReadPending, TInv, Fits
  <2> QED
    BY <1>1, <2>1, <2>2, TypedLocal, TypedRefuse DEF Fits, Control
<1>4. CASE ReadRemaining(w)
  <2>1. PICK last \in BOOLEAN : Local(w, "commit", [tx[w] EXCEPT !.last = last])
    BY <1>4 DEF ReadRemaining
  <2>2. [tx[w] EXCEPT !.last = last] \in Tx
    BY <1>1 DEF Tx
  <2> QED
    BY <2>1, <2>2, TypedLocal DEF Fits, Control
<1>5. CASE LeaveLines(w)
  <2>1. Local(w, "remaining", [tx[w] EXCEPT !.dto = NoTx.dto])
    BY <1>5 DEF LeaveLines
  <2>2. NoTx.dto \in [LineIds -> Qty]
    BY NoTxTyped DEF Tx
  <2>3. [tx[w] EXCEPT !.dto = NoTx.dto] \in Tx
    BY <1>1, <2>2 DEF Tx
  <2> QED
    BY <2>1, <2>3, TypedLocal DEF Fits, Control
<1> QED
  BY <1>2, <1>3, <1>4, <1>5

LEMMA TypedFindLine ==
  ASSUME TInv, IInv, NEW w \in Workers, FindLine(w)
  PROVE  TInv'
<1>1. pc[w] = "find" /\ tx[w] \in Tx /\ tx[w].todo \subseteq LineIds
  BY DEF FindLine, TInv, TypeOK, Tx
<1>2. PICK i \in tx[w].todo :
        Local(w, "count", [tx[w] EXCEPT !.line = i]) \/ Refuse(w)
  BY DEF FindLine
<1>3. [tx[w] EXCEPT !.line = i] \in Tx
  BY <1>1, <1>2 DEF Tx
<1> QED
  BY <1>2, <1>3, TypedLocal, TypedRefuse DEF Fits, Control

LEMMA TypedCountLine ==
  ASSUME TInv, IInv, NEW w \in Workers, CountLine(w)
  PROVE  TInv'
<1>1. pc[w] = "count" /\ tx[w] \in Tx
  BY DEF CountLine, TInv, TypeOK
<1>2. PICK i : i = tx[w].line
  OBVIOUS
<1>3. i \in tx[w].todo /\ i \in LineIds /\ tx[w].task # NoTask
  BY <1>1, <1>2 DEF IInv, Scoped, Serving
<1>4. PICK next \in {"adjust", "find"}, diff \in {tx[w].diff, tx[w].diff \cup {i}} :
        Local(w, next, [tx[w] EXCEPT !.todo = @ \ {tx[w].line}, !.line = NoLine,
                          !.cnt[tx[w].line] = tx[w].dto[tx[w].line], !.diff = diff])
  BY <1>2 DEF CountLine
<1>5. PICK todo, cnt : /\ todo = tx[w].todo \ {i}
                       /\ cnt = [tx[w].cnt EXCEPT ![i] = tx[w].dto[i]]
  OBVIOUS
<1> DEFINE t == [tx[w] EXCEPT !.todo = todo, !.line = NoLine, !.cnt = cnt, !.diff = diff]
<1>6. Local(w, next, t)
  BY <1>2, <1>4, <1>5
<1>7. todo \subseteq LineIds /\ diff \subseteq LineIds /\ cnt \in [LineIds -> Qty]
  BY <1>1, <1>3, <1>4, <1>5 DEF Tx
<1>8. t \in Tx /\ t.task = tx[w].task
  BY <1>1, <1>7 DEF Tx
<1> HIDE DEF t
<1>9. Fits(next, t)
  BY <1>3, <1>4, <1>8 DEF Fits
<1> QED
  BY <1>4, <1>6, <1>8, <1>9, TypedLocal DEF Control

LEMMA TypedCommit ==
  ASSUME TInv, NEW w \in Workers, Commit(w)
  PROVE  TInv'
<1>1. RowsTyped /\ tx[w] \in Tx
  BY TypedRows DEF TInv, TypeOK
<1>2. /\ tx[w].cnt \in [LineIds -> Qty] /\ tx[w].put \in [Rows -> Qty] /\ tx[w].log \in [Cells -> Int]
  BY <1>1 DEF Tx
<1>3. \A i \in LineIds : lines[i] \in Line /\ CountedIn(w, i) \in Qty
  BY <1>1, <1>2 DEF RowsTyped, CountedIn, Line
<1>4. lines' \in [LineIds -> Line]
  <2>1. \A i \in LineIds : [lines[i] EXCEPT !.counted = CountedIn(w, i)] \in Line
    BY <1>3 DEF Line
  <2> QED
    BY <2>1 DEF Commit
<1>5. stock' \in [Rows -> Nat]
  <2>1. \A r \in Rows : StockIn(w, r) \in Nat
    BY <1>1, <1>2 DEF RowsTyped, StockIn, Qty
  <2> QED
    BY <2>1 DEF Commit
<1>6. logged' \in [Cells -> Int] /\ adjusted' \in [Cells -> Int]
  <2>1. \A c \in Cells : logged[c] + tx[w].log[c] \in Int /\ adjusted[c] + tx[w].log[c] \in Int
    BY <1>1, <1>2 DEF RowsTyped
  <2> QED
    BY <2>1 DEF Commit
<1>7. status' \in [Tasks -> Status]
  BY <1>1 DEF Commit, RowsTyped, Status
<1>8. Goto(w, "idle", NoTx) /\ UNCHANGED <<shelf, disturbed>>
  BY DEF Commit
<1>9. RowsTyped'
  BY <1>1, <1>4, <1>5, <1>6, <1>7, <1>8 DEF RowsTyped
<1> QED
  BY <1>8, <1>9, TypedIdle

LEMMA TypedReadTotal ==
  ASSUME TInv, NEW w \in Workers, ReadTotal(w)
  PROVE  TInv'
<1>1. tx[w] \in Tx /\ Total(tx[w].cell) \in Nat /\ tx[w].plus \in Int
  BY TypedRows, TotalNat DEF TInv, TypeOK, Tx
<1>2. PICK n : n = Total(tx[w].cell) + tx[w].plus
  OBVIOUS
<1>3. PICK m : m = IF n < 0 THEN 0 ELSE n
  OBVIOUS
<1>4. m \in Nat
  BY <1>1, <1>2, <1>3
<1> DEFINE t == [tx[w] EXCEPT !.qty = m, !.plus = 0]
<1>5. Local(w, "adjust", t)
  BY <1>2, <1>3 DEF ReadTotal
<1>a. m \in Qty /\ 0 \in Int
  BY <1>4 DEF Qty
<1>6. t \in Tx /\ t.qty = m
  BY <1>1, <1>a DEF Tx
<1> HIDE DEF t
<1> QED
  BY <1>4, <1>5, <1>6, TypedLocal DEF Fits, Control

\* The row that is chosen is one of the cell.
LEMMA ChosenRow ==
  ASSUME RowsTyped, NEW w \in Workers, tx[w] \in Tx, NEW c \in Cells, NEW k \in StatusToAdjust(w, c)
  PROVE  k \in Kinds /\ <<c, k>> \in RowsOf(c) /\ StockIn(w, <<c, k>>) \in Nat
<1>1. PICK r \in RowsOf(c) : r[2] = k
  BY DEF StatusToAdjust
<1>2. r \in Rows /\ r[1] = c /\ r \in Cells \X Kinds
  BY <1>1, CountingAssumption DEF RowsOf
<1>3. r = <<c, k>> /\ k \in Kinds
  BY <1>1, <1>2
<1>4. StockIn(w, r) \in Nat
  BY <1>2 DEF StockIn, RowsTyped, Tx, Qty
<1> QED
  BY <1>1, <1>3, <1>4

LEMMA TypedReadRow ==
  ASSUME TInv, NEW w \in Workers, pc[w] = "adjust", NEW c \in Cells, NEW n \in Qty, NEW x \in Tx,
         x.task = tx[w].task, ~InTask(w) => n \in Nat, ReadRow(w, c, n, x)
  PROVE  TInv'
<1>1. PICK k \in StatusToAdjust(w, c) :
        LET q == StockIn(w, <<c, k>>)
        IN  IF q # n THEN Local(w, "store", [x EXCEPT !.cell = c, !.qty = n, !.kind = k, !.prev = q])
            ELSE IF InTask(w) THEN Local(w, "adjust", x) ELSE Refuse(w)
  BY DEF ReadRow
<1>2. PICK q : q = StockIn(w, <<c, k>>)
  OBVIOUS
<1>3. k \in Kinds /\ q \in Nat
  BY <1>2, ChosenRow, TypedRows DEF TInv, TypeOK
<1>4. CASE q # n
  <2> DEFINE t == [x EXCEPT !.cell = c, !.qty = n, !.kind = k, !.prev = q]
  <2>1. Local(w, "store", t)
    BY <1>1, <1>2, <1>4
  <2>2. t \in Tx /\ t.qty = n /\ t.task = tx[w].task
    BY <1>3 DEF Tx
  <2> HIDE DEF t
  <2> QED
    BY <2>1, <2>2, TypedLocal DEF Fits, Control, InTask
<1>5. CASE q = n
  <2>1. (InTask(w) /\ Local(w, "adjust", x)) \/ Refuse(w)
    BY <1>1, <1>2, <1>5
  <2> QED
    BY <2>1, TypedLocal, TypedRefuse DEF Fits, Control, InTask
<1> QED
  BY <1>4, <1>5

LEMMA TypedReadFor ==
  ASSUME TInv, NEW w \in Workers, ReadForLine(w) \/ ReadForCell(w)
  PROVE  TInv'
<1>1. pc[w] = "adjust" /\ tx[w] \in Tx /\ Fits(pc[w], tx[w])
  BY DEF ReadForLine, ReadForCell, TInv, TypeOK
<1>2. CASE ReadForLine(w)
  <2>1. InTask(w) /\ \E i \in tx[w].diff :
          ReadRow(w, lines[i].cell, Wanted(w, i), [tx[w] EXCEPT !.diff = @ \ {i}, !.line = i])
    BY <1>2 DEF ReadForLine
  <2>2. PICK i \in tx[w].diff :
          ReadRow(w, lines[i].cell, Wanted(w, i), [tx[w] EXCEPT !.diff = @ \ {i}, !.line = i])
    BY <2>1
  <2>3. PICK c, n, x : /\ c = lines[i].cell /\ n = Wanted(w, i)
                       /\ x = [tx[w] EXCEPT !.diff = tx[w].diff \ {i}, !.line = i]
    OBVIOUS
  <2>4. ReadRow(w, c, n, x)
    BY <2>2, <2>3
  <2>5. i \in LineIds /\ c \in Cells /\ n \in Qty
    BY <1>1, <2>3, TypedRows DEF Tx, Wanted, RowsTyped, Line
  <2>6. x \in Tx /\ x.task = tx[w].task
    BY <1>1, <2>3, <2>5 DEF Tx
  <2> QED
    BY <1>1, <2>1, <2>4, <2>5, <2>6, TypedReadRow
<1>3. CASE ReadForCell(w)
  <2>1. ~InTask(w) /\ ReadRow(w, tx[w].cell, tx[w].qty, tx[w])
    BY <1>3 DEF ReadForCell
  <2>2. tx[w].cell \in Cells /\ tx[w].qty \in Nat /\ tx[w].qty \in Qty
    BY <1>1, <2>1 DEF Tx, Fits, InTask, Qty
  <2> QED
    BY <1>1, <2>1, <2>2, TypedReadRow
<1> QED
  BY <1>2, <1>3

LEMMA TypedStoreCounted ==
  ASSUME TInv, NEW w \in Workers, StoreCounted(w)
  PROVE  TInv'
<1>1. PICK r, d : r = <<tx[w].cell, tx[w].kind>> /\ d = Difference(w)
  OBVIOUS
<1>2. Local(w, "adjust", [tx[w] EXCEPT !.put[r] = tx[w].qty, !.log[r[1]] = @ + d,
          !.line = NoLine, !.cell = NoTx.cell, !.qty = None, !.kind = "AVAILABLE", !.prev = 0])
  BY <1>1 DEF StoreCounted
<1>3. tx[w] \in Tx /\ tx[w].task # NoTask
  BY DEF TInv, TypeOK, StoreCounted, InTask
<1>4. PICK c \in Cells : c = r[1]
  BY <1>1, <1>3 DEF Tx
<1>5. PICK put, log : /\ put = [tx[w].put EXCEPT ![r] = tx[w].qty]
                      /\ log = [tx[w].log EXCEPT ![c] = tx[w].log[c] + d]
  OBVIOUS
<1>6. tx[w].put \in [Rows -> Qty] /\ tx[w].log \in [Cells -> Int] /\ tx[w].qty \in Qty
      /\ tx[w].qty \in Int /\ tx[w].prev \in Nat
  BY <1>3 DEF Tx, Qty, None
<1>7. d \in Int
  BY <1>1, <1>6 DEF Difference
<1>a. tx[w].log[c] + d \in Int
  BY <1>6, <1>7
<1>8. put \in [Rows -> Qty] /\ log \in [Cells -> Int]
  BY <1>5, <1>6, <1>a
<1> DEFINE t == [tx[w] EXCEPT !.put = put, !.log = log, !.line = NoLine, !.cell = NoTx.cell,
                              !.qty = None, !.kind = "AVAILABLE", !.prev = 0]
<1>9. Local(w, "adjust", t)
  BY <1>2, <1>4, <1>5
<1>10. NoTx.cell \in Cells /\ None \in Qty
  BY NoTxTyped DEF Tx, Qty
<1>11. t \in Tx /\ t.task = tx[w].task
  BY <1>3, <1>8, <1>10 DEF Tx, Kinds
<1> HIDE DEF t
<1> QED
  BY <1>3, <1>9, <1>11, TypedLocal DEF Fits, Control

LEMMA TypedAdjustment ==
  ASSUME TInv, NEW w \in Workers, StoreRow(w) \/ LogMovement(w) \/ RecordAdjustment(w)
  PROVE  TInv'
<1>1. RowsTyped /\ tx[w] \in Tx /\ Fits(pc[w], tx[w])
  BY TypedRows DEF TInv, TypeOK
<1>2. PICK d, c : d = Difference(w) /\ c = tx[w].cell /\ c \in Cells
  BY <1>1 DEF Tx
<1>3. d \in Int
  BY <1>1, <1>2 DEF Difference, Tx, Qty, None
<1>4. CASE StoreRow(w)
  <2>1. pc[w] = "store" /\ tx[w].task = NoTask
    BY <1>4 DEF StoreRow, InTask
  <2>2. tx[w].qty \in Nat
    BY <1>1, <2>1 DEF Fits
  <2>3. /\ stock' = [stock EXCEPT ![<<tx[w].cell, tx[w].kind>>] = tx[w].qty]
        /\ Goto(w, "log", tx[w])
        /\ UNCHANGED <<status, lines, logged, adjusted, shelf, disturbed>>
    BY <1>4 DEF StoreRow
  <2>4. RowsTyped'
    BY <1>1, <2>2, <2>3 DEF RowsTyped
  <2> QED
    BY <1>1, <2>3, <2>4, TypedStep DEF Fits, Control
<1>5. CASE LogMovement(w)
  <2>1. /\ logged' = [logged EXCEPT ![c] = logged[c] + d]
        /\ Goto(w, "record", tx[w])
        /\ UNCHANGED <<status, lines, stock, adjusted, shelf, disturbed>>
    BY <1>2, <1>5 DEF LogMovement
  <2>a. logged[c] + d \in Int
    BY <1>1, <1>2, <1>3 DEF RowsTyped
  <2>2. RowsTyped'
    BY <1>1, <2>1, <2>a DEF RowsTyped
  <2> QED
    BY <1>1, <2>1, <2>2, TypedStep DEF Fits, Control
<1>6. CASE RecordAdjustment(w)
  <2>1. /\ adjusted' = [adjusted EXCEPT ![c] = adjusted[c] + d]
        /\ Goto(w, "idle", NoTx)
        /\ UNCHANGED <<status, lines, stock, logged, shelf, disturbed>>
    BY <1>2, <1>6 DEF RecordAdjustment
  <2>a. adjusted[c] + d \in Int
    BY <1>1, <1>2, <1>3 DEF RowsTyped
  <2>2. RowsTyped'
    BY <1>1, <2>1, <2>a DEF RowsTyped
  <2> QED
    BY <2>1, <2>2, TypedIdle
<1> QED
  BY <1>4, <1>5, <1>6

LEMMA TypedFail ==
  ASSUME TInv, NEW w \in Workers, Fail(w)
  PROVE  TInv'
<1>1. RowsTyped /\ tx[w].cell \in Cells
  BY TypedRows DEF TInv, TypeOK, Tx
<1>2. /\ UNCHANGED <<status, lines, stock, logged, adjusted, shelf>> /\ Goto(w, "idle", NoTx)
      /\ disturbed' \subseteq disturbed \cup {tx[w].cell}
  BY DEF Fail, rows
<1>3. RowsTyped'
  BY <1>1, <1>2 DEF RowsTyped
<1> QED
  BY <1>2, <1>3, TypedIdle

LEMMA TypedStatement ==
  ASSUME TInv, IInv, NEW w \in Workers, Statement(w)
  PROVE  TInv'
<1>1. CASE InsertTask(w) \/ ReadExpected(w) \/ InsertLine(w) \/ Start(w)
  BY <1>1, TypedRequests, TypedReads
<1>2. CASE ReadPending(w) \/ FindLine(w) \/ CountLine(w) \/ LeaveLines(w)
  BY <1>2, TypedReads, TypedFindLine, TypedCountLine
<1>3. CASE ReadRemaining(w) \/ Commit(w) \/ ReadTotal(w) \/ ReadForLine(w) \/ ReadForCell(w)
  BY <1>3, TypedReads, TypedCommit, TypedReadTotal, TypedReadFor
<1>4. CASE StoreCounted(w) \/ StoreRow(w) \/ LogMovement(w) \/ RecordAdjustment(w)
  BY <1>4, TypedStoreCounted, TypedAdjustment
<1> QED
  BY <1>1, <1>2, <1>3, <1>4 DEF Statement

LEMMA TInvStep == IInv /\ TInv /\ [Next]_vars => TInv'
<1> SUFFICES ASSUME IInv, TInv, [Next]_vars PROVE TInv'
  OBVIOUS
<1>1. CASE UNCHANGED vars
  <2>1. UNCHANGED <<status, lines, stock, logged, adjusted, shelf, disturbed>> /\ UNCHANGED <<pc, tx>>
    BY <1>1 DEF vars, rows
  <2>2. RowsTyped'
    BY <2>1, TypedRows DEF RowsTyped
  <2> QED
    BY <2>1, <2>2, TypedOutside
<1>2. ASSUME NEW c \in Cells, Reserve(c) \/ Pick(c) PROVE TInv'
  BY <1>2, TypedStock
<1>3. ASSUME NEW t \in Tasks, CreateTask(t) \/ Cancel(t) PROVE TInv'
  BY <1>3, TypedStatus
<1>4. ASSUME NEW w \in Workers, NEW t \in Tasks,
             \/ \E cs \in Batches, suggested \in BOOLEAN : ReadRows(w, t, cs, suggested)
             \/ \E c \in Cells : AddLine(w, t, c)
             \/ ReadStart(w, t)
             \/ \E ids \in SUBSET LineIds : ReadTask(w, t, ids)
      PROVE  TInv'
  BY <1>4, TypedReadRows, TypedAddLine, TypedReadStart, TypedReadTask
<1>5. ASSUME NEW w \in Workers,
             \/ \E p \in Targets : Adjust(w, p[1], p[2])
             \/ \E p \in Changes : AdjustBy(w, p[1], p[2])
      PROVE  TInv'
  <2>1. (\A p \in Targets : p[1] \in Cells /\ p[2] \in Nat)
        /\ (\A p \in Changes : p[1] \in Cells /\ p[2] \in Int)
    BY CountingAssumption
  <2> QED
    BY <1>5, <2>1, TypedAdjust, TypedAdjustBy
<1>6. ASSUME NEW w \in Workers, Statement(w) \/ Fail(w) PROVE TInv'
  BY <1>6, TypedStatement, TypedFail
<1> QED
  BY <1>1, <1>2, <1>3, <1>4, <1>5, <1>6 DEF Next

LEMMA Inductive == Spec => [](IInv /\ TInv)
<1>1. Init => IInv /\ TInv
  BY InitIInv, InitTInv
<1>2. IInv /\ TInv /\ [Next]_vars => IInv' /\ TInv'
  BY IInvStep, TInvStep
<1> QED
  BY <1>1, <1>2, PTL DEF Spec

\* Every row, every request's locals and the history keep their types, for any number of
\* tasks, lines, cells and requests: no quantity of stock, and nothing on the shelf, ever
\* becomes negative.
THEOREM TypeCorrect == Spec => []TypeOK
<1>1. TInv => TypeOK
  BY DEF TInv
<1> QED
  BY <1>1, Inductive, PTL

-----------------------------------------------------------------------------
(***************************************************************************)
(* The stock of a cell and its movements.  No step but those that disturb  *)
(* a cell changes the stock that a request has read; what a submission     *)
(* will commit is the stock it sees; an adjustment on its own owes its     *)
(* movement after the row and its record after the movement.               *)
(***************************************************************************)
Start0(c) == SumFunctionOnSet(InitStock, RowsOf(c))

\* A row, and the rows of a cell, as a request with the locals t sees them.
Seen(st, t, r) == IF t.put[r] # None THEN t.put[r] ELSE st[r]
View(st, t, c) == SumFunctionOnSet([r \in Rows |-> Seen(st, t, r)], RowsOf(c))

\* The stock of c is d ahead of its movements, and they are e ahead of its adjustments.
Even(c, d, e) ==
  /\ Total(c) = Start0(c) + logged[c] + d
  /\ adjusted[c] + (shelf[c] - Shelf[c]) = logged[c] - e

ToLog(p, t)    == IF p = "log" THEN t.qty - t.prev ELSE 0
ToRecord(p, t) == IF p = "record" THEN t.qty - t.prev ELSE 0

\* A request at p with the locals t is the only one at work on c.
Held(c, p, t) ==
  /\ Even(c, ToLog(p, t), ToRecord(p, t))
  /\ View(stock, t, c) = Total(c) + t.log[c]
  /\ p = "store" /\ t.cell = c => t.prev = Seen(stock, t, <<c, t.kind>>)

\* It writes only to what it works on.
Writes(p, t) ==
  /\ \A r \in Rows : t.put[r] # None => t.task # NoTask /\ r[1] \in t.scope
  /\ \A c \in Cells : t.log[c] # 0 => c \in t.scope
  /\ p = "store" => <<t.cell, t.kind>> \in Rows /\ t.cell \in t.scope /\ t.qty \in Nat
  /\ p \in {"total", "adjust", "store", "log", "record"} /\ t.task = NoTask => t.scope = {t.cell}
  /\ p \in {"log", "record"} => t.task = NoTask
  /\ p \notin {"pending", "find", "count"} => t.todo = {}

\* The lines it has still to deal with.
Submits(t) ==
  \A i \in t.todo \cup t.diff :
    /\ t.task # NoTask /\ lines[i].task = t.task
    /\ lines[i].cell \in t.scope /\ t.dto[i] \in Nat

Ledger(c) ==
  /\ (\A w \in Workers : c \notin tx[w].scope) => Even(c, 0, 0)
  /\ \A w \in Workers : c \in tx[w].scope => Held(c, pc[w], tx[w])

LInv ==
  /\ \A w \in Workers : Writes(pc[w], tx[w]) /\ Submits(tx[w])
  /\ \A c \in Cells : c \notin disturbed => Ledger(c)

LEMMA Start0Is == \A c \in Cells : Start0(c) \in Nat
<1>1. SUFFICES ASSUME NEW c \in Cells PROVE Start0(c) \in Nat
  OBVIOUS
<1>2. IsFiniteSet(RowsOf(c)) /\ RowsOf(c) \subseteq Rows
  BY CountingAssumption, FS_Subset DEF RowsOf
<1>3. \A r \in RowsOf(c) : InitStock[r] \in Nat
  BY <1>2, CountingAssumption
<1> QED
  BY <1>2, <1>3, SumNat DEF Start0

LEMMA InitLInv == Init => LInv
<1> SUFFICES ASSUME Init PROVE LInv
  OBVIOUS
<1>1. \A w \in Workers : pc[w] = "idle" /\ tx[w] = NoTx
  BY DEF Init
<1>2. Writes("idle", NoTx) /\ Submits(NoTx)
  BY DEF Writes, Submits, NoTx
<1>3. NoTx.scope = {}
  BY NoTxFields
<1>4. ASSUME NEW c \in Cells PROVE Even(c, 0, 0)
  <2>1. Total(c) = Start0(c) /\ logged[c] = 0 /\ adjusted[c] = 0 /\ shelf[c] = Shelf[c]
    BY DEF Init, Total, Start0
  <2>2. Start0(c) \in Nat /\ Shelf[c] \in Nat
    BY Start0Is, CountingAssumption
  <2> QED
    BY <2>1, <2>2 DEF Even
<1> QED
  BY <1>1, <1>2, <1>3, <1>4 DEF LInv, Ledger

-----------------------------------------------------------------------------
\* A step that does not touch c.
Untouched(c) ==
  /\ \A r \in RowsOf(c) : stock'[r] = stock[r]
  /\ logged'[c] = logged[c] /\ adjusted'[c] = adjusted[c] /\ shelf'[c] = shelf[c]

LEMMA ViewInt ==
  ASSUME NEW st \in [Rows -> Nat], NEW t \in Tx, NEW c \in Cells
  PROVE  /\ IsFiniteSet(RowsOf(c)) /\ RowsOf(c) \subseteq Rows
         /\ \A r \in Rows : Seen(st, t, r) \in Nat
         /\ View(st, t, c) \in Nat
<1>1. IsFiniteSet(RowsOf(c)) /\ RowsOf(c) \subseteq Rows
  BY CountingAssumption, FS_Subset DEF RowsOf
<1>2. \A r \in Rows : Seen(st, t, r) \in Nat
  BY DEF Seen, Tx, Qty
<1>3. PICK f : f = [r \in Rows |-> Seen(st, t, r)]
  OBVIOUS
<1>4. \A r \in RowsOf(c) : f[r] \in Nat
  BY <1>1, <1>2, <1>3
<1>5. SumFunctionOnSet(f, RowsOf(c)) \in Nat
  BY <1>1, <1>4, SumNat
<1> QED
  BY <1>1, <1>2, <1>3, <1>5 DEF View

LEMMA ViewKept ==
  ASSUME NEW a \in [Rows -> Nat], NEW b \in [Rows -> Nat], NEW s \in Tx, NEW t \in Tx,
         NEW c \in Cells, \A r \in RowsOf(c) : Seen(a, s, r) = Seen(b, t, r)
  PROVE  View(a, s, c) = View(b, t, c)
<1>1. IsFiniteSet(RowsOf(c)) /\ RowsOf(c) \subseteq Rows
  BY ViewInt
<1>2. PICK f, g : f = [r \in Rows |-> Seen(a, s, r)] /\ g = [r \in Rows |-> Seen(b, t, r)]
  OBVIOUS
<1>3. \A r \in RowsOf(c) : f[r] = g[r]
  BY <1>1, <1>2
<1> QED
  BY <1>1, <1>2, <1>3, SumAgree DEF View

LEMMA TotalKept ==
  ASSUME RowsTyped, NEW c \in Cells, Untouched(c)
  PROVE  Total(c)' = Total(c)
<1>1. IsFiniteSet(RowsOf(c))
  BY TotalNat
<1>2. PICK f, g : f = stock' /\ g = stock
  OBVIOUS
<1>3. \A r \in RowsOf(c) : f[r] = g[r]
  BY <1>2 DEF Untouched
<1>4. SumFunctionOnSet(f, RowsOf(c)) = SumFunctionOnSet(g, RowsOf(c))
  BY <1>1, <1>3, SumAgree
<1> QED
  BY <1>2, <1>4 DEF Total, RowsOf

LEMMA EvenKept ==
  ASSUME RowsTyped, NEW c \in Cells, Untouched(c), NEW d, NEW e, Even(c, d, e)
  PROVE  Even(c, d, e)'
<1>1. Total(c)' = Total(c)
  BY TotalKept
<1> QED
  BY <1>1 DEF Even, Untouched, Start0, RowsOf

LEMMA HeldKept ==
  ASSUME RowsTyped, RowsTyped', NEW c \in Cells, Untouched(c), NEW p, NEW t \in Tx, Held(c, p, t),
         p = "store" /\ t.cell = c => <<c, t.kind>> \in Rows
  PROVE  Held(c, p, t)'
<1>1. Total(c)' = Total(c)
  BY TotalKept
<1>2. stock \in [Rows -> Nat] /\ stock' \in [Rows -> Nat]
  BY DEF RowsTyped
<1>3. \A r \in RowsOf(c) : Seen(stock, t, r) = Seen(stock', t, r)
  BY DEF Seen, Untouched
<1>4. View(stock, t, c) = View(stock', t, c)
  BY <1>2, <1>3, ViewKept
<1>5. PICK d, e : d = ToLog(p, t) /\ e = ToRecord(p, t)
  OBVIOUS
<1>6. Even(c, d, e)'
  BY <1>5, EvenKept DEF Held
<1>7. Even(c, ToLog(p, t), ToRecord(p, t))'
  BY <1>5, <1>6 DEF Even, ToLog, ToRecord
<1>8. p = "store" /\ t.cell = c => t.prev = Seen(stock', t, <<c, t.kind>>)
  BY <1>3 DEF Held, RowsOf
<1>9. View(stock', t, c) = Total(c)' + t.log[c]
  BY <1>1, <1>4 DEF Held
<1> QED
  BY <1>7, <1>8, <1>9 DEF Held, View, Seen, RowsOf

-----------------------------------------------------------------------------
\* Lines that belong to a task stay its lines, for the same cells.
CellsKept ==
  \A i \in LineIds : lines[i].task # NoTask =>
    lines'[i].task = lines[i].task /\ lines'[i].cell = lines[i].cell

LEMMA SubmitsKept ==
  ASSUME NEW t \in Tx, Submits(t), CellsKept
  PROVE  Submits(t)'
<1>1. t.todo \cup t.diff \subseteq LineIds
  BY DEF Tx
<1>2. \A i \in t.todo \cup t.diff :
        /\ t.task # NoTask /\ lines'[i].task = t.task
        /\ lines'[i].cell \in t.scope /\ t.dto[i] \in Nat
  BY <1>1 DEF Submits, CellsKept
<1> QED
  BY <1>2 DEF Submits

\* What holds of a request that is at no statement.
LEMMA IdleLocals ==
  ASSUME TInv, NEW w \in Workers, pc[w] = "idle"
  PROVE  tx[w].scope = {}
BY NoTxFields DEF TInv, Fits

\* The common part of all statements of a request w.
LEMMA LedgerStep ==
  ASSUME IInv', TInv, TInv', LInv, NEW w \in Workers, NEW next, NEW t \in Tx, Goto(w, next, t),
         Writes(next, t), Submits(t)', CellsKept, disturbed \subseteq disturbed',
         \A c \in Cells : c \notin disturbed' =>
           IF c \in t.scope THEN Held(c, next, t)'
           ELSE IF c \in tx[w].scope THEN Even(c, 0, 0)'
           ELSE Untouched(c),
         \A c \in Cells : c \notin disturbed' /\ c \in tx[w].scope =>
           \A v \in Workers \ {w} : c \notin tx[v].scope
  PROVE  LInv'
<1>1. /\ pc'[w] = next /\ tx'[w] = t
      /\ \A v \in Workers \ {w} : pc'[v] = pc[v] /\ tx'[v] = tx[v]
  BY DEF Goto, TInv, TypeOK
<1>2. RowsTyped /\ RowsTyped' /\ \A v \in Workers : tx[v] \in Tx
  BY TypedRows, TypedRowsNext, TypeOKParts DEF TInv
<1>3. ASSUME NEW v \in Workers PROVE (Writes(pc[v], tx[v]) /\ Submits(tx[v]))'
  <2>1. PICK p, x : p = pc'[v] /\ x = tx'[v]
    OBVIOUS
  <2>2. Writes(p, x) /\ Submits(x)'
    <3>1. CASE v = w
      BY <1>1, <2>1, <3>1
    <3>2. CASE v # w
      <4>1. Writes(p, x) /\ Submits(x) /\ x \in Tx
        BY <1>1, <1>2, <2>1, <3>2 DEF LInv
      <4> QED
        BY <4>1, SubmitsKept
    <3> QED
      BY <3>1, <3>2
  <2>3. Submits(tx[v])'
    BY <2>1, <2>2 DEF Submits
  <2>4. Writes(pc'[v], tx'[v])
    BY <2>1, <2>2
  <2> QED
    BY <2>3, <2>4 DEF Writes
<1>4. ASSUME NEW c \in Cells, c \notin disturbed' PROVE Ledger(c)'
  <2>0. Ledger(c)
    BY <1>4 DEF LInv
  \* No other request has c if w has it afterwards.
  <2>1. ASSUME c \in t.scope, NEW v \in Workers \ {w} PROVE c \notin tx'[v].scope
    <3>1. SUFFICES ASSUME c \in tx'[v].scope PROVE FALSE
      OBVIOUS
    <3>2. pc'[v] # "idle" /\ pc'[w] # "idle"
      BY <1>1, <2>1, <3>1, NoTxFields DEF TInv, Fits
    <3>3. tx'[v].scope \cap tx'[w].scope \subseteq disturbed'
      BY <3>2 DEF IInv, Apart
    <3> QED
      BY <1>1, <1>4, <2>1, <3>1, <3>3
  <2>2. CASE c \in t.scope
    <3>1. Held(c, next, t)'
      BY <1>4, <2>2
    <3>2. Held(c, pc[w], tx[w])'
      BY <1>1, <3>1 DEF Held, Even, Total, Start0, View, Seen, RowsOf, ToLog, ToRecord
    <3> QED
      BY <1>1, <2>1, <2>2, <3>2 DEF Ledger
  <2>3. CASE c \notin t.scope /\ c \in tx[w].scope
    <3>1. Even(c, 0, 0)'
      BY <1>4, <2>3
    <3>2. \A v \in Workers : c \notin tx'[v].scope
      BY <1>1, <1>4, <2>3
    <3> QED
      BY <3>1, <3>2 DEF Ledger
  <2>4. CASE c \notin t.scope /\ c \notin tx[w].scope
    <3>1. Untouched(c)
      BY <1>4, <2>4
    <3>2. (\A v \in Workers : c \notin tx'[v].scope) => Even(c, 0, 0)'
      <4>1. SUFFICES ASSUME \A v \in Workers : c \notin tx'[v].scope PROVE Even(c, 0, 0)'
        OBVIOUS
      <4>2. \A v \in Workers : c \notin tx[v].scope
        BY <1>1, <2>4, <4>1
      <4> QED
        BY <1>2, <2>0, <3>1, <4>2, EvenKept DEF Ledger
    <3>3. ASSUME NEW v \in Workers, c \in tx'[v].scope PROVE Held(c, pc[v], tx[v])'
      <4>1. v # w
        BY <1>1, <2>4, <3>3
      <4>2. PICK p, x : p = pc[v] /\ x = tx[v]
        OBVIOUS
      <4>3. Held(c, p, x) /\ Writes(p, x) /\ x \in Tx
        BY <1>1, <1>2, <2>0, <3>3, <4>1, <4>2 DEF Ledger, LInv
      <4>4. p = "store" /\ x.cell = c => <<c, x.kind>> \in Rows
        BY <4>3 DEF Writes
      <4>5. Held(c, p, x)'
        BY <1>2, <3>1, <4>3, <4>4, HeldKept
      <4>6. p = pc'[v] /\ x = tx'[v]
        BY <1>1, <4>1, <4>2
      <4> QED
        BY <4>5, <4>6 DEF Held, Even, Total, Start0, View, Seen, RowsOf, ToLog, ToRecord
    <3> QED
      BY <3>2, <3>3 DEF Ledger
  <2> QED
    BY <2>2, <2>3, <2>4
<1> QED
  BY <1>3, <1>4 DEF LInv

\* What a request works on, no other does unless it is disturbed.
LEMMA Alone ==
  ASSUME IInv, TInv, NEW w \in Workers, NEW c, c \in tx[w].scope, c \notin disturbed,
         NEW v \in Workers \ {w}
  PROVE  c \notin tx[v].scope
<1>1. SUFFICES ASSUME c \in tx[v].scope PROVE FALSE
  OBVIOUS
<1>2. pc[v] # "idle" /\ pc[w] # "idle"
  BY <1>1, IdleLocals
<1>3. tx[v].scope \cap tx[w].scope \subseteq disturbed
  BY <1>2 DEF IInv, Apart
<1> QED
  BY <1>1, <1>3

\* The end of a request.
LEMMA LedgerIdle ==
  ASSUME IInv, IInv', TInv, TInv', LInv, NEW w \in Workers, Goto(w, "idle", NoTx),
         CellsKept, disturbed \subseteq disturbed',
         \A c \in Cells : c \notin disturbed' =>
           IF c \in tx[w].scope THEN Even(c, 0, 0)' ELSE Untouched(c)
  PROVE  LInv'
<1>1. Writes("idle", NoTx) /\ Submits(NoTx)'
  BY DEF Writes, Submits, NoTx
<1>2. NoTx.scope = {} /\ NoTx \in Tx
  BY NoTxFields, NoTxTyped
<1>3. \A c \in Cells : c \notin disturbed' =>
        IF c \in NoTx.scope THEN Held(c, "idle", NoTx)'
        ELSE IF c \in tx[w].scope THEN Even(c, 0, 0)'
        ELSE Untouched(c)
  BY <1>2
<1>4. \A c \in Cells : c \notin disturbed' /\ c \in tx[w].scope =>
           \A v \in Workers \ {w} : c \notin tx[v].scope
  BY Alone
<1> QED
  BY <1>1, <1>2, <1>3, <1>4, LedgerStep

\* Nothing in a request that has neither stored nor recorded a part of an adjustment
\* is lost when it ends.
LEMMA LedgerQuit ==
  ASSUME IInv, IInv', TInv, TInv', LInv, NEW w \in Workers, Goto(w, "idle", NoTx),
         CellsKept, disturbed \subseteq disturbed', \A c \in Cells : Untouched(c),
         pc[w] \in {"log", "record"} => tx[w].scope \subseteq disturbed'
  PROVE  LInv'
<1>1. ASSUME NEW c \in Cells, c \notin disturbed', c \in tx[w].scope PROVE Even(c, 0, 0)'
  <2>1. Held(c, pc[w], tx[w])
    BY <1>1 DEF LInv, Ledger
  <2>2. pc[w] \notin {"log", "record"}
    BY <1>1
  <2>3. Even(c, 0, 0)
    BY <2>1, <2>2 DEF Held, ToLog, ToRecord
  <2> QED
    BY <2>3, TypedRows, EvenKept
<1> QED
  BY <1>1, LedgerIdle

\* The beginning of one.
LEMMA LedgerBegin ==
  ASSUME IInv, IInv', TInv, TInv', LInv, NEW w \in Workers, NEW next, NEW t \in Tx,
         Begin(w, next, t), Writes(next, t), Submits(t), t.put = NoTx.put, t.log = NoTx.log,
         next \notin {"store", "log", "record"}
  PROVE  LInv'
<1>1. /\ Goto(w, next, t) /\ disturbed' = disturbed \cup Shared(w, t.scope) /\ pc[w] = "idle"
      /\ UNCHANGED <<lines, stock, logged, adjusted, shelf>>
  BY DEF Begin, rows
<1>2. CellsKept /\ \A c \in Cells : Untouched(c)
  BY <1>1 DEF CellsKept, Untouched
<1>3. Submits(t)'
  BY <1>2, SubmitsKept
<1>4. tx[w].scope = {}
  BY <1>1, IdleLocals
<1>5. ASSUME NEW c \in Cells, c \notin disturbed', c \in t.scope PROVE Held(c, next, t)'
  <2>1. \A v \in Workers : c \notin tx[v].scope
    <3>1. ASSUME NEW v \in Workers, c \in tx[v].scope PROVE FALSE
      <4>1. v # w /\ pc[v] # "idle"
        BY <1>4, <3>1, IdleLocals
      <4>2. c \in Shared(w, t.scope)
        BY <1>5, <3>1, <4>1 DEF Shared
      <4> QED
        BY <1>1, <1>5, <4>2
    <3> QED
      BY <3>1
  <2>2. Even(c, 0, 0)
    BY <1>1, <1>5, <2>1 DEF LInv, Ledger
  <2>3. \A r \in Rows : t.put[r] = None
    BY DEF NoTx
  <2>4. t.log[c] = 0
    BY DEF NoTx
  <2>5. View(stock, t, c) = Total(c) /\ Total(c) \in Nat
    <3>1. IsFiniteSet(RowsOf(c)) /\ RowsOf(c) \subseteq Rows /\ stock \in [Rows -> Nat]
      BY TotalNat, TypedRows DEF RowsOf, RowsTyped
    <3>2. PICK f, g : f = [r \in Rows |-> Seen(stock, t, r)] /\ g = stock
      OBVIOUS
    <3>3. \A r \in RowsOf(c) : f[r] = g[r]
      BY <2>3, <3>1, <3>2 DEF Seen
    <3>4. SumFunctionOnSet(f, RowsOf(c)) = SumFunctionOnSet(g, RowsOf(c))
      BY <3>1, <3>3, SumAgree
    <3> QED
      BY <3>2, <3>4, TotalNat, TypedRows DEF View, Total
  <2>6. Held(c, next, t)
    BY <2>2, <2>4, <2>5 DEF Held, ToLog, ToRecord
  <2> QED
    BY <1>2, <2>6, TypedRows, TypedRowsNext, HeldKept
<1>6. \A c \in Cells : c \notin disturbed' =>
           IF c \in t.scope THEN Held(c, next, t)'
           ELSE IF c \in tx[w].scope THEN Even(c, 0, 0)'
           ELSE Untouched(c)
  BY <1>2, <1>4, <1>5
<1> QED
  BY <1>1, <1>2, <1>3, <1>4, <1>6, LedgerStep

-----------------------------------------------------------------------------
\* A statement that writes nothing that another request sees.
LEMMA LedgerLocal ==
  ASSUME IInv, IInv', TInv, TInv', LInv, NEW w \in Workers, NEW next, NEW t \in Tx,
         Local(w, next, t), t.scope = tx[w].scope, Writes(next, t), Submits(t),
         {pc[w], next} \cap {"log", "record"} = {},
         \A c \in Cells : c \notin disturbed /\ c \in t.scope =>
           /\ View(stock, t, c) = Total(c) + t.log[c]
           /\ next = "store" /\ t.cell = c => t.prev = Seen(stock, t, <<c, t.kind>>)
  PROVE  LInv'
<1>1. /\ Goto(w, next, t) /\ disturbed' = disturbed
      /\ UNCHANGED <<lines, stock, logged, adjusted, shelf>>
  BY DEF Local, rows
<1>2. CellsKept /\ \A c \in Cells : Untouched(c)
  BY <1>1 DEF CellsKept, Untouched
<1>3. Submits(t)'
  BY <1>2, SubmitsKept
<1>4. ASSUME NEW c \in Cells, c \notin disturbed', c \in t.scope PROVE Held(c, next, t)'
  <2>1. Held(c, pc[w], tx[w])
    BY <1>1, <1>4 DEF LInv, Ledger
  <2>2. Even(c, 0, 0)
    BY <2>1 DEF Held, ToLog, ToRecord
  <2>3. Held(c, next, t)
    BY <1>1, <1>4, <2>2 DEF Held, ToLog, ToRecord
  <2>4. next = "store" /\ t.cell = c => <<c, t.kind>> \in Rows
    BY DEF Writes
  <2> QED
    BY <1>2, <2>3, <2>4, TypedRows, TypedRowsNext, HeldKept
<1>5. \A c \in Cells : c \notin disturbed' =>
           IF c \in t.scope THEN Held(c, next, t)'
           ELSE IF c \in tx[w].scope THEN Even(c, 0, 0)'
           ELSE Untouched(c)
  BY <1>2, <1>4
<1>6. \A c \in Cells : c \notin disturbed' /\ c \in tx[w].scope =>
           \A v \in Workers \ {w} : c \notin tx[v].scope
  BY <1>1, Alone
<1> QED
  BY <1>1, <1>2, <1>3, <1>5, <1>6, LedgerStep

\* The locals of a request that has found nothing to change.
Carries(w, t) ==
  /\ t.task = tx[w].task /\ t.scope = tx[w].scope
  /\ t.put = tx[w].put /\ t.log = tx[w].log

LEMMA LedgerCarries ==
  ASSUME IInv, IInv', TInv, TInv', LInv, NEW w \in Workers, NEW next, NEW t \in Tx,
         Local(w, next, t), Carries(w, t), Writes(next, t), Submits(t),
         {pc[w], next} \cap {"log", "record"} = {},
         \A c \in Cells : c \notin disturbed /\ next = "store" /\ t.cell = c
           => t.prev = Seen(stock, t, <<c, t.kind>>)
  PROVE  LInv'
<1>1. ASSUME NEW c \in Cells, c \notin disturbed, c \in t.scope
      PROVE  View(stock, t, c) = Total(c) + t.log[c]
  <2>1. Held(c, pc[w], tx[w])
    BY <1>1 DEF LInv, Ledger, Carries
  <2>2. tx[w] \in Tx /\ stock \in [Rows -> Nat]
    BY DEF TInv, TypeOK
  <2>3. PICK x \in Tx : x = tx[w]
    BY <2>2
  <2>4. \A r \in RowsOf(c) : Seen(stock, t, r) = Seen(stock, x, r)
    BY <2>3 DEF Seen, Carries
  <2>5. View(stock, t, c) = View(stock, x, c)
    BY <2>2, <2>4, ViewKept
  <2> QED
    BY <2>1, <2>3, <2>5 DEF Held, Carries
<1> QED
  BY <1>1, LedgerLocal DEF Carries

LEMMA LedgerRefuse ==
  ASSUME IInv, IInv', TInv, TInv', LInv, NEW w \in Workers, Refuse(w),
         pc[w] \notin {"log", "record"}
  PROVE  LInv'
<1>1. /\ Goto(w, "idle", NoTx) /\ disturbed' = disturbed
      /\ UNCHANGED <<lines, stock, logged, adjusted, shelf>>
  BY DEF Refuse, Local, rows
<1>2. CellsKept /\ \A c \in Cells : Untouched(c)
  BY <1>1 DEF CellsKept, Untouched
<1> QED
  BY <1>1, <1>2, LedgerQuit

\* What is not a statement of a request.
LEMMA LedgerOutside ==
  ASSUME TInv, TInv', LInv, UNCHANGED <<lines, pc, tx>>, disturbed \subseteq disturbed',
         \A c \in Cells : c \notin disturbed' =>
           \/ Untouched(c)
           \/ (\A v \in Workers : c \notin tx[v].scope) /\ (Even(c, 0, 0) => Even(c, 0, 0)')
  PROVE  LInv'
<1>1. lines' = lines /\ pc' = pc /\ tx' = tx
  OBVIOUS
<1>2. \A v \in Workers : (Writes(pc[v], tx[v]) /\ Submits(tx[v]))'
  BY <1>1 DEF LInv, Writes, Submits
<1>3. ASSUME NEW c \in Cells, c \notin disturbed' PROVE Ledger(c)'
  <2>0. Ledger(c)
    BY <1>3 DEF LInv
  <2>1. CASE Untouched(c)
    <3>1. (\A v \in Workers : c \notin tx'[v].scope) => Even(c, 0, 0)'
      BY <1>1, <2>0, <2>1, TypedRows, EvenKept DEF Ledger
    <3>2. ASSUME NEW v \in Workers, c \in tx'[v].scope PROVE Held(c, pc[v], tx[v])'
      <4>1. PICK p, x : p = pc[v] /\ x = tx[v]
        OBVIOUS
      <4>2. Held(c, p, x) /\ Writes(p, x) /\ x \in Tx
        BY <1>1, <2>0, <3>2, <4>1 DEF Ledger, LInv, TInv, TypeOK
      <4>3. p = "store" /\ x.cell = c => <<c, x.kind>> \in Rows
        BY <4>2 DEF Writes
      <4>4. Held(c, p, x)'
        BY <2>1, <4>2, <4>3, TypedRows, TypedRowsNext, HeldKept
      <4> QED
        BY <1>1, <4>1, <4>4 DEF Held, Even, Total, Start0, View, Seen, RowsOf, ToLog, ToRecord
    <3> QED
      BY <3>1, <3>2 DEF Ledger
  <2>2. CASE (\A v \in Workers : c \notin tx[v].scope) /\ (Even(c, 0, 0) => Even(c, 0, 0)')
    BY <1>1, <2>0, <2>2 DEF Ledger
  <2> QED
    BY <1>3, <2>1, <2>2
<1> QED
  BY <1>2, <1>3 DEF LInv

-----------------------------------------------------------------------------
(* The operations in one step.                                             *)

\* No row of another cell is touched.
LEMMA StockTouches ==
  ASSUME RowsTyped, NEW c \in Cells, Reserve(c) \/ Pick(c), NEW d \in Cells \ {c}
  PROVE  Untouched(d)
<1>1. PICK from, to : from = <<c, "AVAILABLE">> /\ to = <<c, "RESERVED">>
  OBVIOUS
<1>2. \A r \in RowsOf(d) : r \in Rows /\ r # from /\ r # to
  BY <1>1 DEF RowsOf
<1>3. CASE Reserve(c)
  <2>1. PICK n, m : stock' = [stock EXCEPT ![from] = n, ![to] = m]
    BY <1>1, <1>3 DEF Reserve
  <2> QED
    BY <1>2, <1>3, <2>1 DEF Reserve, Untouched, RowsTyped
<1>4. CASE Pick(c)
  <2>1. PICK n : stock' = [stock EXCEPT ![to] = n]
    BY <1>1, <1>4 DEF Pick
  <2>2. logged'[d] = logged[d] /\ shelf'[d] = shelf[d] /\ adjusted' = adjusted
    BY <1>4 DEF Pick, RowsTyped
  <2> QED
    BY <1>2, <2>1, <2>2 DEF Untouched, RowsTyped
<1> QED
  BY <1>3, <1>4

\* Reserving moves a unit between two rows of one cell; a pick is logged.
LEMMA LedgerStock ==
  ASSUME IInv, IInv', TInv, TInv', LInv, NEW c \in Cells, Reserve(c) \/ Pick(c)
  PROVE  LInv'
<1>1. /\ UNCHANGED <<lines, adjusted, pc, tx>> /\ RowsTyped
      /\ disturbed' = disturbed \cup UNION {{c} \cap tx[o].scope : o \in Workers}
  BY TypedRows DEF Reserve, Pick
<1>2. IsFiniteSet(RowsOf(c)) /\ RowsOf(c) \subseteq Rows /\ Total(c) \in Nat
  BY <1>1, TotalNat DEF RowsOf
<1>3. PICK from, to : from = <<c, "AVAILABLE">> /\ to = <<c, "RESERVED">>
  OBVIOUS
<1>4. from # to /\ (from \in Rows => from \in RowsOf(c)) /\ (to \in Rows => to \in RowsOf(c))
  BY <1>3 DEF RowsOf
<1>5. \A d \in Cells \ {c} : Untouched(d)
  BY <1>1, StockTouches
<1>6. PICK st : st = stock'
  OBVIOUS
<1>7. ASSUME Even(c, 0, 0) PROVE Even(c, 0, 0)'
  <2>1. CASE Reserve(c)
    <3>1. PICK n, m : /\ n = stock[from] - 1 /\ m = stock[to] + 1
      OBVIOUS
    <3>2. {from, to} \subseteq Rows
          /\ stock' = [stock EXCEPT ![<<c, "AVAILABLE">>] = @ - 1, ![<<c, "RESERVED">>] = @ + 1]
      BY <1>3, <2>1 DEF Reserve
    <3>3. st = [stock EXCEPT ![from] = n, ![to] = m]
      BY <1>1, <1>3, <1>4, <1>6, <3>1, <3>2 DEF RowsTyped
    <3>4. PICK mid : mid = [stock EXCEPT ![from] = n]
      OBVIOUS
    <3>5. /\ \A r \in RowsOf(c) : stock[r] \in Int /\ mid[r] \in Int /\ st[r] \in Int
          /\ \A r \in RowsOf(c) \ {from} : stock[r] = mid[r]
          /\ \A r \in RowsOf(c) \ {to} : mid[r] = st[r]
          /\ mid[from] = stock[from] - 1 /\ st[to] = mid[to] + 1
      BY <1>1, <1>2, <1>4, <3>1, <3>2, <3>3, <3>4 DEF RowsTyped
    <3>6. SumFunctionOnSet(mid, RowsOf(c)) = SumFunctionOnSet(stock, RowsOf(c)) - stock[from] + mid[from]
      BY <1>2, <1>4, <3>2, <3>5, SumUpdate
    <3>7. SumFunctionOnSet(st, RowsOf(c)) = SumFunctionOnSet(mid, RowsOf(c)) - mid[to] + st[to]
      BY <1>2, <1>4, <3>2, <3>5, SumUpdate
    <3>8. Total(c)' = SumFunctionOnSet(st, RowsOf(c))
      BY <1>6 DEF Total, RowsOf
    <3>9. stock[from] \in Int /\ mid[to] \in Int
      BY <1>4, <3>2, <3>5
    <3>10. Total(c)' = Total(c)
      BY <1>2, <3>5, <3>6, <3>7, <3>8, <3>9 DEF Total
    <3> QED
      BY <1>1, <1>7, <2>1, <3>10 DEF Even, Reserve, Start0, RowsOf
  <2>2. CASE Pick(c)
    <3>1. PICK n : n = stock[to] - 1
      OBVIOUS
    <3>2. to \in Rows /\ st = [stock EXCEPT ![to] = n]
      BY <1>3, <1>6, <2>2, <3>1 DEF Pick
    <3>3. /\ \A r \in RowsOf(c) : stock[r] \in Int /\ st[r] \in Int
          /\ \A r \in RowsOf(c) \ {to} : stock[r] = st[r]
          /\ st[to] = stock[to] - 1
      BY <1>1, <1>2, <3>1, <3>2 DEF RowsTyped
    <3>a. to \in RowsOf(c) /\ IsFiniteSet(RowsOf(c))
      BY <1>2, <1>4, <3>2
    <3>4. SumFunctionOnSet(st, RowsOf(c)) = SumFunctionOnSet(stock, RowsOf(c)) - stock[to] + st[to]
      BY <3>3, <3>a, SumUpdate
    <3>5. Total(c)' = SumFunctionOnSet(st, RowsOf(c))
      BY <1>6 DEF Total, RowsOf
    <3>6. Total(c)' = Total(c) - 1
      BY <1>2, <1>4, <3>2, <3>3, <3>4, <3>5 DEF Total
    <3>7. logged'[c] = logged[c] - 1 /\ shelf'[c] = shelf[c] - 1 /\ logged[c] \in Int /\ shelf[c] \in Nat
          /\ Shelf[c] \in Nat /\ adjusted[c] \in Int /\ Start0(c) \in Nat
      BY <1>1, <2>2, Start0Is, CountingAssumption DEF Pick, RowsTyped
    <3>8. /\ Total(c) = Start0(c) + logged[c]
          /\ adjusted[c] + (shelf[c] - Shelf[c]) = logged[c]
      BY <1>7, <3>7 DEF Even
    <3>9. /\ Total(c)' = Start0(c) + logged'[c] + 0
          /\ adjusted'[c] + (shelf'[c] - Shelf[c]) = logged'[c] - 0
      BY <1>1, <1>2, <3>6, <3>7, <3>8
    <3> QED
      BY <3>9 DEF Even, Start0, RowsOf
  <2> QED
    BY <2>1, <2>2
<1>8. c \notin disturbed' => \A v \in Workers : c \notin tx[v].scope
  BY <1>1
<1> QED
  BY <1>1, <1>5, <1>7, <1>8, LedgerOutside

LEMMA LedgerStatus ==
  ASSUME IInv, IInv', TInv, TInv', LInv, NEW t \in Tasks, CreateTask(t) \/ Cancel(t)
  PROVE  LInv'
<1>1. /\ UNCHANGED <<lines, pc, tx>> /\ disturbed \subseteq disturbed'
      /\ UNCHANGED <<stock, logged, adjusted, shelf>>
  BY DEF CreateTask, Cancel
<1>2. \A c \in Cells : Untouched(c)
  BY <1>1 DEF Untouched
<1> QED
  BY <1>1, <1>2, LedgerOutside

-----------------------------------------------------------------------------
(* The beginnings.                                                         *)

\* Locals of a request that has no line yet.
LEMMA NewLocals ==
  ASSUME NEW next, NEW t, t.put = NoTx.put, t.log = NoTx.log, t.todo = {}, t.diff = {},
         next \in {"create", "expected", "start", "adjust", "total"},
         next \in {"adjust", "total"} => t.scope = {t.cell}
  PROVE  Writes(next, t) /\ Submits(t)
BY DEF Writes, Submits, NoTx

LEMMA LedgerBeginnings ==
  ASSUME IInv, IInv', TInv, TInv', LInv, NEW w \in Workers, NEW t \in Tasks,
         \/ \E cs \in Batches, suggested \in BOOLEAN : ReadRows(w, t, cs, suggested)
         \/ \E c \in Cells : AddLine(w, t, c)
         \/ ReadStart(w, t)
  PROVE  LInv'
<1>0. tx'[w] \in Tx /\ \A next, x : Begin(w, next, x) => tx'[w] = x
  BY DEF TInv, TypeOK, Begin, Goto
<1>1. CASE \E cs \in Batches, suggested \in BOOLEAN : ReadRows(w, t, cs, suggested)
  <2>1. PICK new : Begin(w, "create", [NoTx EXCEPT !.task = t, !.scope = {t}, !.new = new])
    BY <1>1 DEF ReadRows
  <2> DEFINE x == [NoTx EXCEPT !.task = t, !.scope = {t}, !.new = new]
  <2>2. x.put = NoTx.put /\ x.log = NoTx.log /\ x.todo = {} /\ x.diff = {}
    BY DEF NoTx
  <2>3. x \in Tx /\ Begin(w, "create", x)
    BY <1>0, <2>1
  <2> HIDE DEF x
  <2>4. Writes("create", x) /\ Submits(x)
    BY <2>2, NewLocals
  <2> QED
    BY <2>1, <2>2, <2>3, <2>4, LedgerBegin
<1>2. CASE \E c \in Cells : AddLine(w, t, c)
  <2>1. PICK c \in Cells : Begin(w, "expected", [NoTx EXCEPT !.task = t, !.scope = {t}, !.cell = c])
    BY <1>2 DEF AddLine
  <2> DEFINE x == [NoTx EXCEPT !.task = t, !.scope = {t}, !.cell = c]
  <2>2. x.put = NoTx.put /\ x.log = NoTx.log /\ x.todo = {} /\ x.diff = {}
    BY DEF NoTx
  <2>3. x \in Tx /\ Begin(w, "expected", x)
    BY <1>0, <2>1
  <2> HIDE DEF x
  <2>4. Writes("expected", x) /\ Submits(x)
    BY <2>2, NewLocals
  <2> QED
    BY <2>1, <2>2, <2>3, <2>4, LedgerBegin
<1>3. CASE ReadStart(w, t)
  <2>1. Begin(w, "start", [NoTx EXCEPT !.task = t, !.scope = {t}])
    BY <1>3 DEF ReadStart
  <2> DEFINE x == [NoTx EXCEPT !.task = t, !.scope = {t}]
  <2>2. x.put = NoTx.put /\ x.log = NoTx.log /\ x.todo = {} /\ x.diff = {}
    BY DEF NoTx
  <2>3. x \in Tx /\ Begin(w, "start", x)
    BY <1>0, <2>1
  <2> HIDE DEF x
  <2>4. Writes("start", x) /\ Submits(x)
    BY <2>2, NewLocals
  <2> QED
    BY <2>1, <2>2, <2>3, <2>4, LedgerBegin
<1> QED
  BY <1>1, <1>2, <1>3

LEMMA LedgerReadTask ==
  ASSUME IInv, IInv', TInv, TInv', LInv, NEW w \in Workers, NEW t \in Tasks,
         NEW ids \in SUBSET LineIds, ReadTask(w, t, ids)
  PROVE  LInv'
<1>0. tx'[w] \in Tx /\ \A next, x : Begin(w, next, x) => tx'[w] = x
  BY DEF TInv, TypeOK, Begin, Goto
<1> DEFINE scope == {t} \cup {lines[i].cell : i \in ids}
           dto   == [i \in LineIds |-> IF i \in ids THEN shelf[lines[i].cell] ELSE None]
           x     == [NoTx EXCEPT !.task = t, !.scope = scope, !.todo = ids, !.dto = dto]
<1>1. Begin(w, "pending", x) /\ ids \subseteq LinesOf(t)
  BY DEF ReadTask
<1>2. x \in Tx
  BY <1>0, <1>1
<1>3. \A i \in ids : lines[i].task = t /\ lines[i].cell \in scope /\ dto[i] \in Nat
  <2>1. \A i \in LineIds : lines[i].cell \in Cells /\ shelf[lines[i].cell] \in Nat
    BY TypedRows DEF RowsTyped, Line
  <2> QED
    BY <1>1, <2>1 DEF LinesOf
<1> HIDE DEF scope, dto
<1>4. /\ x.put = NoTx.put /\ x.log = NoTx.log /\ x.todo = ids /\ x.diff = {}
      /\ x.task = t /\ x.scope = scope /\ x.dto = dto
  BY DEF NoTx
<1> HIDE DEF x
<1>5. t # NoTask
  BY CountingAssumption
<1>6. Submits(x)
  BY <1>3, <1>4, <1>5 DEF Submits
<1>7. Writes("pending", x)
  BY <1>4 DEF Writes, NoTx
<1> QED
  BY <1>1, <1>2, <1>4, <1>6, <1>7, LedgerBegin

LEMMA LedgerAdjusts ==
  ASSUME IInv, IInv', TInv, TInv', LInv, NEW w \in Workers, NEW c, NEW n,
         Adjust(w, c, n) \/ AdjustBy(w, c, n)
  PROVE  LInv'
<1>0. tx'[w] \in Tx /\ \A next, x : Begin(w, next, x) => tx'[w] = x
  BY DEF TInv, TypeOK, Begin, Goto
<1>1. CASE Adjust(w, c, n)
  <2> DEFINE x == [NoTx EXCEPT !.scope = {c}, !.cell = c, !.qty = n]
  <2>1. Begin(w, "adjust", x)
    BY <1>1 DEF Adjust
  <2>2. x.put = NoTx.put /\ x.log = NoTx.log /\ x.todo = {} /\ x.diff = {} /\ x.scope = {x.cell}
    BY DEF NoTx
  <2>3. x \in Tx
    BY <1>0, <2>1
  <2> HIDE DEF x
  <2>4. Writes("adjust", x) /\ Submits(x)
    BY <2>2, NewLocals
  <2> QED
    BY <2>1, <2>2, <2>3, <2>4, LedgerBegin
<1>2. CASE AdjustBy(w, c, n)
  <2> DEFINE x == [NoTx EXCEPT !.scope = {c}, !.cell = c, !.plus = n]
  <2>1. Begin(w, "total", x)
    BY <1>2 DEF AdjustBy
  <2>2. x.put = NoTx.put /\ x.log = NoTx.log /\ x.todo = {} /\ x.diff = {} /\ x.scope = {x.cell}
    BY DEF NoTx
  <2>3. x \in Tx
    BY <1>0, <2>1
  <2> HIDE DEF x
  <2>4. Writes("total", x) /\ Submits(x)
    BY <2>2, NewLocals
  <2> QED
    BY <2>1, <2>2, <2>3, <2>4, LedgerBegin
<1> QED
  BY <1>1, <1>2

-----------------------------------------------------------------------------
(* The statements.                                                         *)

LEMMA LocalTyped ==
  ASSUME TInv, TInv', NEW w \in Workers, NEW next, NEW t, Local(w, next, t)
  PROVE  t \in Tx
BY DEF TInv, TypeOK, Local, Goto

\* A request that goes on with some of its lines.
GoesOn(w, next, t) ==
  /\ Carries(w, t)
  /\ \/ next \in {"insert", "find", "count", "remaining", "commit"}
     \/ next = "adjust" /\ tx[w].task # NoTask
  /\ t.todo = {} \/ next \in {"find", "count"}
  /\ \/ t.todo \cup t.diff = {}
     \/ t.dto = tx[w].dto /\ t.todo \cup t.diff \subseteq tx[w].todo \cup tx[w].diff

LEMMA CarriesOn ==
  ASSUME LInv, NEW w \in Workers, NEW next, NEW t, GoesOn(w, next, t)
  PROVE  Writes(next, t) /\ Submits(t)
<1>1. Writes(pc[w], tx[w]) /\ Submits(tx[w])
  BY DEF LInv
<1>2. Writes(next, t)
  BY <1>1 DEF Writes, Carries, GoesOn
<1>3. Submits(t)
  BY <1>1 DEF Submits, Carries, GoesOn
<1> QED
  BY <1>2, <1>3

LEMMA LedgerRequests ==
  ASSUME IInv, IInv', TInv, TInv', LInv, NEW w \in Workers,
         InsertTask(w) \/ InsertLine(w) \/ Start(w)
  PROVE  LInv'
<1>1. /\ Goto(w, "idle", NoTx) /\ disturbed' = disturbed
      /\ UNCHANGED <<stock, logged, adjusted, shelf>>
      /\ pc[w] \notin {"log", "record"}
      /\ Insert(tx[w].new, tx[w].task) \/ lines' = lines
  BY DEF InsertTask, InsertLine, Start
<1>2. \A c \in Cells : Untouched(c)
  BY <1>1 DEF Untouched
<1>3. PICK new, t : new = tx[w].new /\ t = tx[w].task
  OBVIOUS
<1>4. CellsKept
  BY <1>1, <1>3, InsertKeeps DEF CellsKept
<1> QED
  BY <1>1, <1>2, <1>4, LedgerQuit

LEMMA LedgerReads ==
  ASSUME IInv, IInv', TInv, TInv', LInv, NEW w \in Workers,
         ReadExpected(w) \/ ReadPending(w) \/ ReadRemaining(w) \/ LeaveLines(w)
  PROVE  LInv'
<1>0. tx[w] \in Tx /\ Writes(pc[w], tx[w]) /\ \A next, x : Local(w, next, x) => x \in Tx
  BY LocalTyped DEF TInv, TypeOK, LInv
<1>1. CASE ReadExpected(w)
  <2>1. pc[w] = "expected" /\ \E new : Local(w, "insert", [tx[w] EXCEPT !.new = new])
    BY <1>1 DEF ReadExpected
  <2>2. PICK new : Local(w, "insert", [tx[w] EXCEPT !.new = new])
    BY <2>1
  <2>3. PICK x \in Tx : x = [tx[w] EXCEPT !.new = new]
    BY <1>0, <2>2
  <2>4. /\ Carries(w, x) /\ x.todo = tx[w].todo /\ x.diff = tx[w].diff /\ x.dto = tx[w].dto
        /\ Local(w, "insert", x)
    BY <1>0, <2>2, <2>3 DEF Carries, Tx
  <2>5. x.todo = {}
    BY <1>0, <2>1, <2>4 DEF Writes
  <2>a. GoesOn(w, "insert", x)
    BY <2>4, <2>5 DEF GoesOn
  <2>6. Writes("insert", x) /\ Submits(x)
    BY <2>a, CarriesOn
  <2> QED
    BY <2>1, <2>4, <2>6, LedgerCarries
<1>2. CASE ReadPending(w)
  <2>1. PICK next \in {"find", "adjust"} :
          /\ pc[w] = "pending" /\ (Local(w, next, tx[w]) \/ Refuse(w))
          /\ next = "adjust" => tx[w].todo = {}
    BY <1>2 DEF ReadPending
  <2>2. CASE Local(w, next, tx[w])
    <3>1. PICK x \in Tx : x = tx[w]
      BY <1>0
    <3>2. Carries(w, x) /\ Local(w, next, x)
      BY <2>2, <3>1 DEF Carries
    <3>a. GoesOn(w, next, x)
      BY <2>1, <3>1, <3>2 DEF GoesOn, TInv, Fits
    <3>3. Writes(next, x) /\ Submits(x)
      BY <3>a, CarriesOn
    <3> QED
      BY <2>1, <3>2, <3>3, LedgerCarries
  <2> QED
    BY <2>1, <2>2, LedgerRefuse
<1>3. CASE ReadRemaining(w)
  <2>1. pc[w] = "remaining" /\ \E last : Local(w, "commit", [tx[w] EXCEPT !.last = last])
    BY <1>3 DEF ReadRemaining
  <2>2. PICK last : Local(w, "commit", [tx[w] EXCEPT !.last = last])
    BY <2>1
  <2>3. PICK x \in Tx : x = [tx[w] EXCEPT !.last = last]
    BY <1>0, <2>2
  <2>4. /\ Carries(w, x) /\ x.todo = tx[w].todo /\ x.diff = tx[w].diff /\ x.dto = tx[w].dto
        /\ Local(w, "commit", x)
    BY <1>0, <2>2, <2>3 DEF Carries, Tx
  <2>5. x.todo = {}
    BY <1>0, <2>1, <2>4 DEF Writes
  <2>a. GoesOn(w, "commit", x)
    BY <2>4, <2>5 DEF GoesOn
  <2>6. Writes("commit", x) /\ Submits(x)
    BY <2>a, CarriesOn
  <2> QED
    BY <2>1, <2>4, <2>6, LedgerCarries
<1>4. CASE LeaveLines(w)
  <2>1. pc[w] = "adjust" /\ tx[w].diff = {} /\ Local(w, "remaining", [tx[w] EXCEPT !.dto = NoTx.dto])
    BY <1>4 DEF LeaveLines
  <2>2. PICK x \in Tx : x = [tx[w] EXCEPT !.dto = NoTx.dto]
    BY <1>0, <2>1
  <2>3. Carries(w, x) /\ x.todo = tx[w].todo /\ x.diff = tx[w].diff /\ Local(w, "remaining", x)
    BY <1>0, <2>1, <2>2 DEF Carries, Tx
  <2>4. x.todo = {} /\ x.diff = {}
    BY <1>0, <2>1, <2>3 DEF Writes
  <2>a. GoesOn(w, "remaining", x)
    BY <2>3, <2>4 DEF GoesOn
  <2>5. Writes("remaining", x) /\ Submits(x)
    BY <2>a, CarriesOn
  <2> QED
    BY <2>1, <2>3, <2>5, LedgerCarries
<1> QED
  BY <1>1, <1>2, <1>3, <1>4

LEMMA LedgerFindLine ==
  ASSUME IInv, IInv', TInv, TInv', LInv, NEW w \in Workers, FindLine(w)
  PROVE  LInv'
<1>0. tx[w] \in Tx /\ pc[w] = "find" /\ \A next, x : Local(w, next, x) => x \in Tx
  BY LocalTyped DEF TInv, TypeOK, FindLine
<1>1. PICK i : Local(w, "count", [tx[w] EXCEPT !.line = i]) \/ Refuse(w)
  BY DEF FindLine
<1>2. CASE Local(w, "count", [tx[w] EXCEPT !.line = i])
  <2>1. PICK x \in Tx : x = [tx[w] EXCEPT !.line = i]
    BY <1>0, <1>2
  <2>2. /\ Carries(w, x) /\ x.todo = tx[w].todo /\ x.diff = tx[w].diff /\ x.dto = tx[w].dto
        /\ Local(w, "count", x)
    BY <1>0, <1>2, <2>1 DEF Carries, Tx
  <2>a. GoesOn(w, "count", x)
    BY <2>2 DEF GoesOn
  <2>3. Writes("count", x) /\ Submits(x)
    BY <2>a, CarriesOn
  <2> QED
    BY <1>0, <2>2, <2>3, LedgerCarries
<1> QED
  BY <1>0, <1>1, <1>2, LedgerRefuse

LEMMA LedgerCountLine ==
  ASSUME IInv, IInv', TInv, TInv', LInv, NEW w \in Workers, CountLine(w)
  PROVE  LInv'
<1>0. tx[w] \in Tx /\ pc[w] = "count" /\ \A next, x : Local(w, next, x) => x \in Tx
  BY LocalTyped DEF TInv, TypeOK, CountLine
<1>1. PICK i : i = tx[w].line
  OBVIOUS
<1>2. i \in tx[w].todo /\ tx[w].task # NoTask
  BY <1>0, <1>1 DEF IInv, Scoped, Serving
<1>3. PICK next, diff :
        /\ next = IF tx[w].todo = {tx[w].line} THEN "adjust" ELSE "find"
        /\ diff \subseteq tx[w].diff \cup {i}
        /\ Local(w, next, [tx[w] EXCEPT !.todo = @ \ {tx[w].line}, !.line = NoLine,
                          !.cnt[tx[w].line] = tx[w].dto[tx[w].line], !.diff = diff])
  BY <1>1 DEF CountLine
<1>4. PICK todo, cnt : todo = tx[w].todo \ {i} /\ cnt = [tx[w].cnt EXCEPT ![i] = tx[w].dto[i]]
  OBVIOUS
<1>5. Local(w, next, [tx[w] EXCEPT !.todo = todo, !.line = NoLine, !.cnt = cnt, !.diff = diff])
  BY <1>1, <1>3, <1>4
<1>6. PICK x \in Tx : x = [tx[w] EXCEPT !.todo = todo, !.line = NoLine, !.cnt = cnt, !.diff = diff]
  BY <1>0, <1>5
<1>7. Carries(w, x) /\ x.todo = todo /\ x.diff = diff /\ x.dto = tx[w].dto /\ Local(w, next, x)
  BY <1>0, <1>5, <1>6 DEF Carries, Tx
<1>8. GoesOn(w, next, x)
  BY <1>1, <1>2, <1>3, <1>4, <1>7 DEF GoesOn
<1>9. Writes(next, x) /\ Submits(x)
  BY <1>8, CarriesOn
<1>10. next \in {"adjust", "find"}
  BY <1>3
<1> QED
  BY <1>0, <1>7, <1>9, <1>10, LedgerCarries

LEMMA LedgerReadTotal ==
  ASSUME IInv, IInv', TInv, TInv', LInv, NEW w \in Workers, ReadTotal(w)
  PROVE  LInv'
<1>0. /\ tx[w] \in Tx /\ Writes("total", tx[w]) /\ Submits(tx[w])
      /\ pc[w] = "total" /\ \A next, x : Local(w, next, x) => x \in Tx
  BY LocalTyped DEF TInv, TypeOK, ReadTotal, LInv
<1>1. PICK qty : Local(w, "adjust", [tx[w] EXCEPT !.qty = qty, !.plus = 0])
  BY DEF ReadTotal
<1>2. PICK x \in Tx : x = [tx[w] EXCEPT !.qty = qty, !.plus = 0]
  BY <1>0, <1>1
<1>3. /\ Carries(w, x) /\ x.todo = tx[w].todo /\ x.diff = tx[w].diff /\ x.dto = tx[w].dto
      /\ x.cell = tx[w].cell /\ Local(w, "adjust", x)
  BY <1>0, <1>1, <1>2 DEF Carries, Tx
<1>4. Writes("adjust", x) /\ Submits(x)
  BY <1>0, <1>3 DEF Writes, Submits, Carries
<1> QED
  BY <1>0, <1>3, <1>4, LedgerCarries

LEMMA LedgerReadRow ==
  ASSUME IInv, IInv', TInv, TInv', LInv, NEW w \in Workers, pc[w] = "adjust",
         NEW c \in Cells, c \in tx[w].scope, NEW n \in Nat, NEW x \in Tx, Carries(w, x),
         x.todo = {}, Submits(x), ReadRow(w, c, n, x)
  PROVE  LInv'
<1>1. PICK k \in StatusToAdjust(w, c) :
        LET q == StockIn(w, <<c, k>>)
        IN  IF q # n THEN Local(w, "store", [x EXCEPT !.cell = c, !.qty = n, !.kind = k, !.prev = q])
            ELSE IF InTask(w) THEN Local(w, "adjust", x) ELSE Refuse(w)
  BY DEF ReadRow
<1>2. PICK q : q = StockIn(w, <<c, k>>)
  OBVIOUS
<1>3. <<c, k>> \in Rows /\ Writes("adjust", tx[w])
  BY ChosenRow, TypedRows DEF TInv, TypeOK, RowsOf, LInv
<1>4. CASE q # n
  <2>1. Local(w, "store", [x EXCEPT !.cell = c, !.qty = n, !.kind = k, !.prev = q])
    BY <1>1, <1>2, <1>4
  <2>2. PICK t \in Tx : t = [x EXCEPT !.cell = c, !.qty = n, !.kind = k, !.prev = q]
    BY <2>1, LocalTyped
  <2>3. /\ t.cell = c /\ t.qty = n /\ t.kind = k /\ t.prev = q /\ t.todo = {} /\ t.diff = x.diff
        /\ t.dto = x.dto /\ t.task = x.task /\ t.scope = x.scope /\ Carries(w, t)
    BY <2>2 DEF Tx, Carries
  <2>4. tx[w].task = NoTask => tx[w].scope = {c}
    BY <1>3 DEF Writes
  <2>5. Writes("store", t)
    BY <1>3, <2>3, <2>4 DEF Writes, Carries
  <2>6. Submits(t)
    BY <2>3 DEF Submits
  <2>7. t.prev = Seen(stock, t, <<c, t.kind>>)
    BY <1>2, <2>3 DEF Seen, StockIn, Carries
  <2>8. {pc[w], "store"} \cap {"log", "record"} = {}
    OBVIOUS
  <2>9. \A b \in Cells : b \notin disturbed /\ "store" = "store" /\ t.cell = b
          => t.prev = Seen(stock, t, <<b, t.kind>>)
    BY <2>3, <2>7
  <2>10. Local(w, "store", t) /\ Carries(w, t)
    BY <2>1, <2>2, <2>3
  <2> QED
    BY <2>5, <2>6, <2>8, <2>9, <2>10, LedgerCarries
<1>5. CASE q = n /\ InTask(w)
  <2>1. Local(w, "adjust", x)
    BY <1>1, <1>2, <1>5
  <2>2. Writes("adjust", x)
    BY <1>3, <1>5 DEF Writes, Carries, InTask
  <2> QED
    BY <2>1, <2>2, LedgerCarries
<1>6. CASE q = n /\ ~InTask(w)
  <2>1. Refuse(w)
    BY <1>1, <1>2, <1>6
  <2> QED
    BY <2>1, LedgerRefuse
<1> QED
  BY <1>4, <1>5, <1>6

LEMMA LedgerReadFor ==
  ASSUME IInv, IInv', TInv, TInv', LInv, NEW w \in Workers, ReadForLine(w) \/ ReadForCell(w)
  PROVE  LInv'
<1>0. /\ tx[w] \in Tx /\ Writes(pc[w], tx[w]) /\ Submits(tx[w]) /\ Fits(pc[w], tx[w])
      /\ pc[w] = "adjust"
  BY DEF TInv, TypeOK, LInv, ReadForLine, ReadForCell
<1>1. tx[w].todo = {}
  BY <1>0 DEF Writes
<1>2. CASE ReadForLine(w)
  <2>1. PICK i \in tx[w].diff :
          ReadRow(w, lines[i].cell, Wanted(w, i), [tx[w] EXCEPT !.diff = @ \ {i}, !.line = i])
    BY <1>2 DEF ReadForLine
  <2>2. i \in LineIds /\ lines[i].cell \in Cells /\ lines[i].cell \in tx[w].scope /\ Wanted(w, i) \in Nat
    BY <1>0, TypedRows DEF Submits, Tx, RowsTyped, Line, Wanted
  <2>3. PICK c, n, x : /\ c = lines[i].cell /\ n = Wanted(w, i)
                       /\ x = [tx[w] EXCEPT !.diff = tx[w].diff \ {i}, !.line = i]
    OBVIOUS
  <2>4. ReadRow(w, c, n, x)
    BY <2>1, <2>3
  <2>5. x \in Tx
    BY <1>0, <2>2, <2>3 DEF Tx
  <2>6. /\ Carries(w, x) /\ x.todo = tx[w].todo /\ x.diff = tx[w].diff \ {i} /\ x.dto = tx[w].dto
    BY <1>0, <2>3 DEF Carries, Tx
  <2>7. Submits(x)
    BY <1>0, <2>6 DEF Submits, Carries
  <2> QED
    BY <1>0, <1>1, <2>2, <2>3, <2>4, <2>5, <2>6, <2>7, LedgerReadRow
<1>3. CASE ReadForCell(w)
  <2>1. tx[w].task = NoTask /\ ReadRow(w, tx[w].cell, tx[w].qty, tx[w])
    BY <1>3 DEF ReadForCell, InTask
  <2>2. PICK c, n, x : c = tx[w].cell /\ n = tx[w].qty /\ x = tx[w]
    OBVIOUS
  <2>3. c \in Cells /\ c \in tx[w].scope /\ n \in Nat
    BY <1>0, <2>1, <2>2 DEF Tx, Writes, Fits
  <2>4. Carries(w, x) /\ ReadRow(w, c, n, x) /\ x \in Tx /\ x.todo = {} /\ Submits(x)
    BY <1>0, <1>1, <2>1, <2>2 DEF Carries
  <2> QED
    BY <1>0, <2>3, <2>4, LedgerReadRow
<1> QED
  BY <1>2, <1>3

\* The row of a submission and the movement with it.
LEMMA LedgerStoreCounted ==
  ASSUME IInv, IInv', TInv, TInv', LInv, NEW w \in Workers, StoreCounted(w)
  PROVE  LInv'
<1>1. PICK c, r, d : c = tx[w].cell /\ r = <<tx[w].cell, tx[w].kind>> /\ d = Difference(w)
  OBVIOUS
<1>2. /\ tx[w] \in Tx /\ Writes("store", tx[w]) /\ Submits(tx[w])
      /\ pc[w] = "store" /\ tx[w].task # NoTask
      /\ \A next, x : Local(w, next, x) => x \in Tx
  BY LocalTyped DEF TInv, TypeOK, LInv, StoreCounted, InTask
<1>3. /\ r \in Rows /\ c \in tx[w].scope /\ tx[w].qty \in Nat /\ c \in Cells /\ tx[w].prev \in Nat
      /\ r[1] = c /\ r \in RowsOf(c) /\ tx[w].todo = {}
  BY <1>1, <1>2 DEF Writes, Tx, RowsOf
<1>4. Local(w, "adjust", [tx[w] EXCEPT !.put[r] = tx[w].qty, !.log[r[1]] = @ + d,
          !.line = NoLine, !.cell = NoTx.cell, !.qty = None, !.kind = "AVAILABLE", !.prev = 0])
  BY <1>1 DEF StoreCounted
<1>5. PICK put, log : /\ put = [tx[w].put EXCEPT ![r] = tx[w].qty]
                      /\ log = [tx[w].log EXCEPT ![c] = tx[w].log[c] + d]
  OBVIOUS
<1>6. Local(w, "adjust", [tx[w] EXCEPT !.put = put, !.log = log, !.line = NoLine,
          !.cell = NoTx.cell, !.qty = None, !.kind = "AVAILABLE", !.prev = 0])
  BY <1>3, <1>4, <1>5
<1>7. PICK t \in Tx : t = [tx[w] EXCEPT !.put = put, !.log = log, !.line = NoLine,
          !.cell = NoTx.cell, !.qty = None, !.kind = "AVAILABLE", !.prev = 0]
  BY <1>2, <1>6
<1>8. /\ t.put = put /\ t.log = log /\ t.task = tx[w].task /\ t.scope = tx[w].scope
      /\ t.todo = {} /\ t.diff = tx[w].diff /\ t.dto = tx[w].dto /\ Local(w, "adjust", t)
  BY <1>2, <1>3, <1>6, <1>7 DEF Tx
<1>9. /\ tx[w].put \in [Rows -> Qty] /\ tx[w].log \in [Cells -> Int]
      /\ d = tx[w].qty - tx[w].prev /\ None # tx[w].qty
  BY <1>1, <1>2, <1>3 DEF Tx, Difference, None
<1>10. Writes("adjust", t)
  <2>1. \A x \in Rows : t.put[x] # None => t.task # NoTask /\ x[1] \in t.scope
    BY <1>2, <1>3, <1>5, <1>8, <1>9 DEF Writes
  <2>2. \A x \in Cells : t.log[x] # 0 => x \in t.scope
    BY <1>2, <1>3, <1>5, <1>8, <1>9 DEF Writes
  <2> QED
    BY <1>2, <1>8, <2>1, <2>2 DEF Writes
<1>11. Submits(t)
  BY <1>2, <1>3, <1>8 DEF Submits
<1>12. ASSUME NEW b \in Cells, b \notin disturbed, b \in t.scope
       PROVE  View(stock, t, b) = Total(b) + t.log[b]
  <2>1. Held(b, "store", tx[w])
    BY <1>2, <1>8, <1>12 DEF LInv, Ledger
  <2>2. PICK x \in Tx : x = tx[w]
    BY <1>2
  <2>3. stock \in [Rows -> Nat] /\ Total(b) \in Nat /\ x.log[b] \in Int
    BY <1>9, <2>2, TypedRows, TotalNat DEF RowsTyped
  <2>4. CASE b # c
    <3>1. \A y \in RowsOf(b) : Seen(stock, t, y) = Seen(stock, x, y)
      BY <1>3, <1>5, <1>8, <1>9, <2>2, <2>4 DEF Seen, RowsOf
    <3>2. View(stock, t, b) = View(stock, x, b)
      BY <2>3, <3>1, ViewKept
    <3> QED
      BY <1>5, <1>8, <1>9, <2>1, <2>2, <2>4, <3>2 DEF Held
  <2>5. CASE b = c
    <3>1. PICK f, g : f = [y \in Rows |-> Seen(stock, x, y)] /\ g = [y \in Rows |-> Seen(stock, t, y)]
      OBVIOUS
    <3>2. IsFiniteSet(RowsOf(b)) /\ RowsOf(b) \subseteq Rows
      BY <2>3, ViewInt
    <3>3. \A y \in Rows : f[y] \in Int /\ g[y] \in Int
      <4>1. \A y \in Rows : Seen(stock, x, y) \in Nat /\ Seen(stock, t, y) \in Nat
        BY <2>3, ViewInt
      <4> QED
        BY <3>1, <4>1
    <3>4. \A y \in RowsOf(b) \ {r} : f[y] = g[y]
      BY <1>5, <1>8, <1>9, <2>2, <3>1, <3>2 DEF Seen
    <3>5. f[r] = x.prev /\ g[r] = x.qty
      <4>1. r = <<b, x.kind>> /\ x.cell = b
        BY <1>1, <2>2, <2>5
      <4>2. x.prev = Seen(stock, x, r)
        BY <2>1, <2>2, <4>1 DEF Held
      <4>3. Seen(stock, t, r) = x.qty
        BY <1>3, <1>5, <1>8, <1>9, <2>2 DEF Seen
      <4> QED
        BY <1>3, <3>1, <4>2, <4>3
    <3>6. r \in RowsOf(b) /\ \A y \in RowsOf(b) : f[y] \in Int /\ g[y] \in Int
      BY <1>3, <2>5, <3>2, <3>3
    <3>7. IsFiniteSet(RowsOf(b))
      BY <3>2
    <3>8. SumFunctionOnSet(g, RowsOf(b)) = SumFunctionOnSet(f, RowsOf(b)) - f[r] + g[r]
      BY <3>4, <3>6, <3>7, SumUpdate
    <3>9. View(stock, t, b) = View(stock, x, b) - x.prev + x.qty
      BY <3>1, <3>5, <3>8 DEF View
    <3>10. View(stock, x, b) = Total(b) + x.log[b]
      BY <2>1, <2>2 DEF Held
    <3>11. t.log[b] = x.log[b] + (x.qty - x.prev)
      BY <1>5, <1>8, <1>9, <2>2, <2>5
    <3>12. x.qty \in Nat /\ x.prev \in Nat
      BY <1>3, <2>2
    <3> QED
      BY <2>3, <3>9, <3>10, <3>11, <3>12
  <2> QED
    BY <2>4, <2>5
<1>13. {pc[w], "adjust"} \cap {"log", "record"} = {}
  BY <1>2
<1>14. \A b \in Cells : b \notin disturbed /\ b \in t.scope =>
         /\ View(stock, t, b) = Total(b) + t.log[b]
         /\ "adjust" = "store" /\ t.cell = b => t.prev = Seen(stock, t, <<b, t.kind>>)
  BY <1>12
<1> QED
  BY <1>8, <1>10, <1>11, <1>13, <1>14, LedgerLocal

\* An adjustment on its own: the row, the movement, the record.
LEMMA LedgerStoreRow ==
  ASSUME IInv, IInv', TInv, TInv', LInv, NEW w \in Workers, StoreRow(w)
  PROVE  LInv'
<1>1. PICK c, r, t : c = tx[w].cell /\ r = <<tx[w].cell, tx[w].kind>> /\ t = tx[w]
  OBVIOUS
<1>2. /\ t \in Tx /\ Writes("store", t) /\ Submits(t) /\ pc[w] = "store" /\ t.task = NoTask
  BY <1>1 DEF TInv, TypeOK, LInv, StoreRow, InTask
<1>3. /\ r \in Rows /\ t.scope = {c} /\ t.qty \in Nat /\ c \in Cells /\ t.prev \in Nat
      /\ r \in RowsOf(c) /\ t.put[r] = None /\ t.cell = c /\ r = <<c, t.kind>>
  BY <1>1, <1>2 DEF Writes, Tx, RowsOf
<1>4. /\ Goto(w, "log", t) /\ UNCHANGED <<lines, logged, adjusted, shelf>> /\ disturbed' = disturbed
      /\ stock' = [stock EXCEPT ![r] = t.qty]
  BY <1>1 DEF StoreRow
<1>5. stock \in [Rows -> Nat] /\ stock' \in [Rows -> Nat]
  BY TypedRows, TypedRowsNext DEF RowsTyped
<1>6. Writes("log", t) /\ CellsKept
  BY <1>2, <1>3, <1>4 DEF Writes, CellsKept
<1>7. Submits(t)'
  BY <1>2, <1>6, SubmitsKept
<1>8. \A b \in Cells \ {c} : Untouched(b)
  <2>1. \A b \in Cells \ {c} : \A x \in RowsOf(b) : x \in Rows /\ x # r
    BY <1>3 DEF RowsOf
  <2> QED
    BY <1>4, <1>5, <2>1 DEF Untouched
<1>9. ASSUME NEW b \in Cells, b = c, b \notin disturbed PROVE Held(b, "log", t)'
  <2>1. Held(c, "store", t)
    BY <1>1, <1>2, <1>3, <1>9 DEF LInv, Ledger
  <2>2. t.prev = stock[r]
    BY <1>3, <2>1 DEF Held, Seen
  <2>3. PICK st : st = stock'
    OBVIOUS
  <2>4. IsFiniteSet(RowsOf(c)) /\ RowsOf(c) \subseteq Rows /\ Total(c) \in Nat
    BY TotalNat, TypedRows DEF RowsOf
  <2>5. /\ \A x \in RowsOf(c) : stock[x] \in Int /\ st[x] \in Int
        /\ \A x \in RowsOf(c) \ {r} : stock[x] = st[x]
        /\ st[r] = t.qty
    BY <1>3, <1>4, <1>5, <2>3, <2>4
  <2>6. IsFiniteSet(RowsOf(c)) /\ r \in RowsOf(c)
    BY <1>3, <2>4
  <2>7. SumFunctionOnSet(st, RowsOf(c)) = SumFunctionOnSet(stock, RowsOf(c)) - stock[r] + st[r]
    BY <2>5, <2>6, SumUpdate
  <2>8. Total(c)' = SumFunctionOnSet(st, RowsOf(c))
    BY <2>3 DEF Total, RowsOf
  <2>9. Total(c)' = Total(c) + (t.qty - t.prev)
    BY <1>3, <2>2, <2>4, <2>5, <2>7, <2>8 DEF Total
  <2>10. \A x \in Rows : t.put[x] = None
    BY <1>2 DEF Writes
  <2>11. View(stock, t, c) = Total(c) /\ View(st, t, c) = SumFunctionOnSet(st, RowsOf(c))
    <3>1. PICK f, g : f = [x \in Rows |-> Seen(stock, t, x)] /\ g = [x \in Rows |-> Seen(st, t, x)]
      OBVIOUS
    <3>2. \A x \in RowsOf(c) : f[x] = stock[x] /\ g[x] = st[x]
      BY <2>4, <2>10, <3>1 DEF Seen
    <3>3. SumFunctionOnSet(f, RowsOf(c)) = SumFunctionOnSet(stock, RowsOf(c))
      BY <2>4, <3>2, SumAgree
    <3>4. SumFunctionOnSet(g, RowsOf(c)) = SumFunctionOnSet(st, RowsOf(c))
      BY <2>4, <3>2, SumAgree
    <3> QED
      BY <3>1, <3>3, <3>4 DEF View, Total
  <2>12. t.log[c] = 0 /\ logged[c] \in Int /\ Start0(c) \in Nat
    <3>1. View(stock, t, c) = Total(c) + t.log[c] /\ t.log[c] \in Int
      BY <1>2, <1>3, <2>1 DEF Held, Tx
    <3>a. PICK n \in Int, m \in Int : n = Total(c) /\ m = t.log[c]
      BY <2>4, <3>1
    <3>b. n = n + m
      BY <2>11, <3>1, <3>a
    <3>2. t.log[c] = 0
      BY <3>a, <3>b
    <3>3. logged[c] \in Int /\ Start0(c) \in Nat
      BY <1>3, Start0Is, TypedRows DEF RowsTyped
    <3> QED
      BY <3>2, <3>3
  <2>13. Even(c, t.qty - t.prev, 0)'
    <3>1. Even(c, 0, 0)
      BY <2>1 DEF Held, ToLog, ToRecord
    <3>2. Total(c) = Start0(c) + logged[c]
          /\ adjusted[c] + (shelf[c] - Shelf[c]) = logged[c] - 0
      BY <2>12, <3>1 DEF Even
    <3>3. Total(c)' = Start0(c) + logged[c] + (t.qty - t.prev)
      BY <2>9, <3>2
    <3> QED
      BY <1>4, <3>2, <3>3 DEF Even, Start0, RowsOf
  <2>14. View(stock', t, c) = Total(c)' + t.log[c]
    <3>1. PICK n \in Int : n = Total(c)'
      BY <1>3, <2>4, <2>9
    <3>2. View(stock', t, c) = n
      BY <2>3, <2>8, <2>11, <3>1
    <3> QED
      BY <2>12, <3>1, <3>2
  <2> QED
    BY <1>9, <2>13, <2>14 DEF Held, ToLog, ToRecord, View, Seen, RowsOf, Even, Total, Start0
<1>10. \A b \in Cells : b \notin disturbed' =>
         IF b \in t.scope THEN Held(b, "log", t)'
         ELSE IF b \in tx[w].scope THEN Even(b, 0, 0)'
         ELSE Untouched(b)
  BY <1>1, <1>3, <1>4, <1>8, <1>9
<1>11. \A b \in Cells : b \notin disturbed' /\ b \in tx[w].scope =>
           \A v \in Workers \ {w} : b \notin tx[v].scope
  BY <1>4, Alone
<1>12. disturbed \subseteq disturbed'
  BY <1>4
<1> QED
  BY <1>2, <1>4, <1>6, <1>7, <1>10, <1>11, <1>12, LedgerStep

LEMMA LedgerLogMovement ==
  ASSUME IInv, IInv', TInv, TInv', LInv, NEW w \in Workers, LogMovement(w)
  PROVE  LInv'
<1>1. PICK c, t : c = tx[w].cell /\ t = tx[w]
  OBVIOUS
<1>2. t \in Tx /\ Writes("log", t) /\ Submits(t) /\ pc[w] = "log"
  BY <1>1 DEF TInv, TypeOK, LInv, LogMovement
<1>3. t.scope = {c} /\ c \in Cells /\ t.qty - t.prev \in Int
  BY <1>1, <1>2 DEF Writes, Tx, Qty, None
<1>4. /\ Goto(w, "record", t) /\ UNCHANGED <<lines, stock, adjusted, shelf>> /\ disturbed' = disturbed
      /\ logged' = [logged EXCEPT ![c] = logged[c] + (t.qty - t.prev)]
  BY <1>1 DEF LogMovement, Difference
<1>5. RowsTyped
  BY TypedRows
<1>6. Writes("record", t) /\ CellsKept
  BY <1>2, <1>3, <1>4 DEF Writes, CellsKept
<1>7. Submits(t)'
  BY <1>2, <1>6, SubmitsKept
<1>8. \A b \in Cells \ {c} : Untouched(b)
  BY <1>4, <1>5 DEF Untouched, RowsTyped
<1>9. ASSUME NEW b \in Cells, b = c, b \notin disturbed PROVE Held(b, "record", t)'
  <2>1. Held(c, "log", t)
    BY <1>1, <1>2, <1>3, <1>9 DEF LInv, Ledger
  <2>2. /\ Total(c) = Start0(c) + logged[c] + (t.qty - t.prev)
        /\ adjusted[c] + (shelf[c] - Shelf[c]) = logged[c] - 0
    BY <2>1 DEF Held, ToLog, ToRecord, Even
  <2>3. logged'[c] = logged[c] + (t.qty - t.prev) /\ logged[c] \in Int /\ Start0(c) \in Nat
    BY <1>3, <1>4, <1>5, Start0Is DEF RowsTyped
  <2>4. Total(c)' = Total(c)
    BY <1>4 DEF Total, RowsOf
  <2>5. Total(c)' = Start0(c) + logged'[c] + 0
    BY <1>3, <2>2, <2>3, <2>4
  <2>6. adjusted[c] + (shelf[c] - Shelf[c]) = logged'[c] - (t.qty - t.prev)
    BY <1>3, <2>2, <2>3
  <2>7. Even(c, 0, t.qty - t.prev)'
    BY <1>4, <2>5, <2>6 DEF Even, Start0, RowsOf
  <2>8. View(stock', t, c) = Total(c)' + t.log[c]
    BY <1>4, <2>1, <2>4 DEF Held
  <2> QED
    BY <1>9, <2>7, <2>8 DEF Held, ToLog, ToRecord, View, Seen, RowsOf, Even, Total, Start0
<1>10. \A b \in Cells : b \notin disturbed' =>
         IF b \in t.scope THEN Held(b, "record", t)'
         ELSE IF b \in tx[w].scope THEN Even(b, 0, 0)'
         ELSE Untouched(b)
  BY <1>1, <1>3, <1>4, <1>8, <1>9
<1>11. \A b \in Cells : b \notin disturbed' /\ b \in tx[w].scope =>
           \A v \in Workers \ {w} : b \notin tx[v].scope
  BY <1>4, Alone
<1>12. disturbed \subseteq disturbed'
  BY <1>4
<1> QED
  BY <1>2, <1>4, <1>6, <1>7, <1>10, <1>11, <1>12, LedgerStep

LEMMA LedgerRecordAdjustment ==
  ASSUME IInv, IInv', TInv, TInv', LInv, NEW w \in Workers, RecordAdjustment(w)
  PROVE  LInv'
<1>1. PICK c, t : c = tx[w].cell /\ t = tx[w]
  OBVIOUS
<1>2. t \in Tx /\ Writes("record", t) /\ pc[w] = "record"
  BY <1>1 DEF TInv, TypeOK, LInv, RecordAdjustment
<1>3. t.scope = {c} /\ c \in Cells /\ t.qty - t.prev \in Int
  BY <1>1, <1>2 DEF Writes, Tx, Qty, None
<1>4. /\ Goto(w, "idle", NoTx) /\ UNCHANGED <<lines, stock, logged, shelf>> /\ disturbed' = disturbed
      /\ adjusted' = [adjusted EXCEPT ![c] = adjusted[c] + (t.qty - t.prev)]
  BY <1>1 DEF RecordAdjustment, Difference
<1>5. RowsTyped
  BY TypedRows
<1>6. \A b \in Cells \ {c} : Untouched(b)
  BY <1>4, <1>5 DEF Untouched, RowsTyped
<1>7. ASSUME c \notin disturbed PROVE Even(c, 0, 0)'
  <2>1. Held(c, "record", t)
    BY <1>1, <1>2, <1>3, <1>7 DEF LInv, Ledger
  <2>2. /\ Total(c) = Start0(c) + logged[c] + 0
        /\ adjusted[c] + (shelf[c] - Shelf[c]) = logged[c] - (t.qty - t.prev)
    BY <2>1 DEF Held, ToLog, ToRecord, Even
  <2>3. adjusted'[c] = adjusted[c] + (t.qty - t.prev) /\ logged[c] \in Int /\ adjusted[c] \in Int
        /\ shelf[c] \in Nat /\ Shelf[c] \in Nat
    BY <1>3, <1>4, <1>5, CountingAssumption DEF RowsTyped
  <2>4. Total(c)' = Total(c)
    BY <1>4 DEF Total, RowsOf
  <2>5. adjusted'[c] + (shelf[c] - Shelf[c]) = logged[c] - 0
    BY <1>3, <2>2, <2>3
  <2> QED
    BY <1>4, <2>2, <2>4, <2>5 DEF Even, Start0, RowsOf
<1>8. \A b \in Cells : b \notin disturbed' =>
           IF b \in tx[w].scope THEN Even(b, 0, 0)' ELSE Untouched(b)
  BY <1>1, <1>3, <1>4, <1>6, <1>7
<1>9. CellsKept /\ disturbed \subseteq disturbed'
  BY <1>4 DEF CellsKept
<1> QED
  BY <1>4, <1>8, <1>9, LedgerIdle

\* A submission commits nothing for a cell that it does not work on.
LEMMA CommitTouches ==
  ASSUME TInv, LInv, NEW w \in Workers, Commit(w), NEW c \in Cells, c \notin tx[w].scope
  PROVE  Untouched(c)
<1>1. Writes(pc[w], tx[w]) /\ RowsTyped
  BY TypedRows DEF LInv
<1>2. \A r \in RowsOf(c) : r \in Rows /\ tx[w].put[r] = None
  BY <1>1 DEF RowsOf, Writes
<1>3. tx[w].log[c] = 0 /\ logged[c] \in Int /\ adjusted[c] \in Int
  BY <1>1 DEF Writes, RowsTyped
<1>4. logged'[c] = logged[c] /\ adjusted'[c] = adjusted[c]
  BY <1>3 DEF Commit
<1> QED
  BY <1>2, <1>4 DEF Commit, Untouched, StockIn

\* COMMIT: the stock that the submission sees, with all its movements and records.
LEMMA LedgerCommit ==
  ASSUME IInv, IInv', TInv, TInv', LInv, NEW w \in Workers, Commit(w)
  PROVE  LInv'
<1>1. PICK t : t = tx[w]
  OBVIOUS
<1>2. t \in Tx /\ Writes("commit", t) /\ pc[w] = "commit"
  BY <1>1 DEF TInv, TypeOK, LInv, Commit
<1>3. /\ Goto(w, "idle", NoTx) /\ UNCHANGED shelf /\ disturbed' = disturbed
      /\ stock' = [r \in Rows |-> Seen(stock, t, r)]
      /\ logged' = [c \in Cells |-> logged[c] + t.log[c]]
      /\ adjusted' = [c \in Cells |-> adjusted[c] + t.log[c]]
  BY <1>1 DEF Commit, Seen, StockIn
<1>4. RowsTyped /\ t.log \in [Cells -> Int]
  BY <1>2, TypedRows DEF Tx
<1>5. CellsKept
  <2>1. ASSUME NEW i \in LineIds PROVE lines'[i].task = lines[i].task /\ lines'[i].cell = lines[i].cell
    <3>1. lines'[i] = [task |-> lines[i].task, cell |-> lines[i].cell,
                       expected |-> lines[i].expected, counted |-> CountedIn(w, i)]
      BY CommitLines
    <3> QED
      BY <3>1
  <2> QED
    BY <2>1 DEF CellsKept
<1>6. ASSUME NEW c \in Cells, c \notin t.scope PROVE Untouched(c)
  BY <1>1, <1>6, CommitTouches
<1>7. ASSUME NEW c \in Cells, c \notin disturbed, c \in t.scope PROVE Even(c, 0, 0)'
  <2>1. Held(c, "commit", t)
    BY <1>1, <1>2, <1>7 DEF LInv, Ledger
  <2>2. /\ Total(c) = Start0(c) + logged[c] + 0
        /\ adjusted[c] + (shelf[c] - Shelf[c]) = logged[c] - 0
        /\ View(stock, t, c) = Total(c) + t.log[c]
    BY <2>1 DEF Held, ToLog, ToRecord, Even
  <2>3. Total(c)' = View(stock, t, c)
    BY <1>3 DEF Total, View, RowsOf
  <2>4. /\ logged'[c] = logged[c] + t.log[c] /\ adjusted'[c] = adjusted[c] + t.log[c]
        /\ logged[c] \in Int /\ adjusted[c] \in Int /\ shelf[c] \in Nat /\ Shelf[c] \in Nat
        /\ t.log[c] \in Int /\ Start0(c) \in Nat /\ Total(c) \in Nat
    BY <1>3, <1>4, Start0Is, TotalNat, CountingAssumption DEF RowsTyped
  <2>5. PICK n \in Int, m \in Int, a \in Int :
          n = Total(c) /\ m = Start0(c) /\ a = logged[c]
    BY <2>4
  <2>6. View(stock, t, c) = m + (a + t.log[c]) + 0
    BY <2>2, <2>4, <2>5
  <2>7. adjusted'[c] + (shelf[c] - Shelf[c]) = logged'[c] - 0
    BY <2>2, <2>4
  <2>8. Total(c)' = Start0(c) + logged'[c] + 0
    BY <2>3, <2>4, <2>5, <2>6
  <2> QED
    BY <1>3, <2>7, <2>8 DEF Even, Start0, RowsOf
<1>8. \A c \in Cells : c \notin disturbed' =>
           IF c \in tx[w].scope THEN Even(c, 0, 0)' ELSE Untouched(c)
  BY <1>1, <1>3, <1>6, <1>7
<1>9. disturbed \subseteq disturbed'
  BY <1>3
<1> QED
  BY <1>3, <1>5, <1>8, <1>9, LedgerIdle

LEMMA LedgerFail ==
  ASSUME IInv, IInv', TInv, TInv', LInv, NEW w \in Workers, Fail(w)
  PROVE  LInv'
<1>1. /\ Goto(w, "idle", NoTx) /\ UNCHANGED <<lines, stock, logged, adjusted, shelf>>
      /\ disturbed' = IF pc[w] \in {"log", "record"} THEN disturbed \cup {tx[w].cell} ELSE disturbed
  BY DEF Fail, rows
<1>2. CellsKept /\ disturbed \subseteq disturbed' /\ \A c \in Cells : Untouched(c)
  BY <1>1 DEF CellsKept, Untouched
<1>3. pc[w] \in {"log", "record"} => tx[w].scope \subseteq disturbed'
  BY <1>1 DEF LInv, Writes
<1> QED
  BY <1>1, <1>2, <1>3, LedgerQuit

LEMMA LedgerStatement ==
  ASSUME IInv, IInv', TInv, TInv', LInv, NEW w \in Workers, Statement(w)
  PROVE  LInv'
<1>1. CASE InsertTask(w) \/ ReadExpected(w) \/ InsertLine(w) \/ Start(w)
  BY <1>1, LedgerRequests, LedgerReads
<1>2. CASE ReadPending(w) \/ FindLine(w) \/ CountLine(w) \/ LeaveLines(w)
  BY <1>2, LedgerReads, LedgerFindLine, LedgerCountLine
<1>3. CASE ReadRemaining(w) \/ Commit(w) \/ ReadTotal(w) \/ ReadForLine(w) \/ ReadForCell(w)
  BY <1>3, LedgerReads, LedgerCommit, LedgerReadTotal, LedgerReadFor
<1>4. CASE StoreCounted(w) \/ StoreRow(w) \/ LogMovement(w) \/ RecordAdjustment(w)
  BY <1>4, LedgerStoreCounted, LedgerStoreRow, LedgerLogMovement, LedgerRecordAdjustment
<1> QED
  BY <1>1, <1>2, <1>3, <1>4 DEF Statement

LEMMA LInvStep == IInv /\ IInv' /\ TInv /\ TInv' /\ LInv /\ [Next]_vars => LInv'
<1> SUFFICES ASSUME IInv, IInv', TInv, TInv', LInv, [Next]_vars PROVE LInv'
  OBVIOUS
<1>1. CASE UNCHANGED vars
  <2>1. UNCHANGED <<lines, pc, tx>> /\ disturbed' = disturbed
        /\ UNCHANGED <<stock, logged, adjusted, shelf>>
    BY <1>1 DEF vars, rows
  <2>2. disturbed \subseteq disturbed' /\ \A c \in Cells : Untouched(c)
    BY <2>1 DEF Untouched
  <2> QED
    BY <2>1, <2>2, LedgerOutside
<1>2. ASSUME NEW c \in Cells, Reserve(c) \/ Pick(c) PROVE LInv'
  BY <1>2, LedgerStock
<1>3. ASSUME NEW t \in Tasks, CreateTask(t) \/ Cancel(t) PROVE LInv'
  BY <1>3, LedgerStatus
<1>4. ASSUME NEW w \in Workers, NEW t \in Tasks,
             \/ \E cs \in Batches, suggested \in BOOLEAN : ReadRows(w, t, cs, suggested)
             \/ \E c \in Cells : AddLine(w, t, c)
             \/ ReadStart(w, t)
             \/ \E ids \in SUBSET LineIds : ReadTask(w, t, ids)
      PROVE  LInv'
  BY <1>4, LedgerBeginnings, LedgerReadTask
<1>5. ASSUME NEW w \in Workers,
             \/ \E p \in Targets : Adjust(w, p[1], p[2])
             \/ \E p \in Changes : AdjustBy(w, p[1], p[2])
      PROVE  LInv'
  BY <1>5, LedgerAdjusts
<1>6. ASSUME NEW w \in Workers, Statement(w) \/ Fail(w) PROVE LInv'
  BY <1>6, LedgerStatement, LedgerFail
<1> QED
  BY <1>1, <1>2, <1>3, <1>4, <1>5, <1>6 DEF Next

LEMMA LedgerAlways == Spec => []LInv
<1>1. Init => LInv
  BY InitLInv
<1>2. IInv /\ IInv' /\ TInv /\ TInv' /\ LInv /\ [Next]_vars => LInv'
  BY LInvStep
<1> QED
  BY <1>1, <1>2, Inductive, PTL DEF Spec

\* However counts, adjustments, reservations, picks and failures interleave: the stock of
\* a cell that no two requests were at work on at once, and on which no adjustment
\* stopped half-way, is what its movements say whenever no request is at work on it, and
\* the movements that are not picks are those of the adjustment records.
THEOREM ChangesAreExplained == Spec => []StockIsExplained
<1>1. TInv /\ LInv => StockIsExplained
  <2> SUFFICES ASSUME TInv, LInv, NEW c \in Cells, Calm(c),
                      \A w \in Workers : c \notin tx[w].scope
               PROVE  /\ Total(c) = SumFunctionOnSet(InitStock, RowsOf(c)) + logged[c]
                      /\ adjusted[c] + (shelf[c] - Shelf[c]) = logged[c]
    BY DEF StockIsExplained
  <2>1. Even(c, 0, 0)
    BY DEF LInv, Ledger, Calm
  <2>2. logged[c] \in Int /\ Start0(c) \in Nat
    BY Start0Is, TypedRows DEF RowsTyped
  <2> QED
    BY <2>1, <2>2 DEF Even, Start0
<1> QED
  BY <1>1, Inductive, LedgerAlways, PTL

-----------------------------------------------------------------------------
(***************************************************************************)
(* What a submission leaves in a cell.  For a line that is the only one of *)
(* its task for its cell, in a cell that nobody disturbs: until the line   *)
(* is dealt with, the submission has stored nothing in the cell; if one    *)
(* row at most has stock, that is the row it chooses; once it has dealt    *)
(* with the line, what it sees in the cell is what was counted.            *)
(***************************************************************************)
Only(i) == \A j \in LineIds \ {i} : lines[j].task = lines[i].task => lines[j].cell # lines[i].cell
Lone(i) == lines[i].cell \notin disturbed /\ Only(i)
OnePositive(c) == \A r, s \in RowsOf(c) : stock[r] > 0 /\ stock[s] > 0 => r = s

\* A line that is still to be dealt with.
Open(i, p, t) == i \in t.todo \cup t.diff \/ (p = "store" /\ t.task # NoTask /\ t.line = i)

\* The line whose row is about to be stored.
AtHand(p, t) ==
  p = "store" /\ t.task # NoTask =>
    /\ t.line \in LineIds \ t.diff /\ lines[t.line].task = t.task
    /\ t.cell = lines[t.line].cell /\ t.qty = t.cnt[t.line]
    /\ Lone(t.line) /\ OnePositive(t.cell)
         => \A r \in RowsOf(t.cell) : r[2] # t.kind => stock[r] = 0

Counts(p, t) ==
  /\ \A i \in LineIds : t.cnt[i] # None =>
       t.task # NoTask /\ lines[i].task = t.task /\ lines[i].cell \in t.scope
  /\ \A i \in t.diff : t.cnt[i] = t.dto[i]
  /\ p \in {"remaining", "commit"} => t.diff = {}

Settling(p, t) ==
  /\ Counts(p, t) /\ AtHand(p, t)
  /\ \A i \in LineIds : Open(i, p, t) /\ Lone(i) =>
       \A r \in RowsOf(lines[i].cell) : t.put[r] = None
  /\ \A i \in LineIds :
       /\ t.cnt[i] \notin {None, lines[i].expected} /\ ~Open(i, p, t)
       /\ Lone(i) /\ OnePositive(lines[i].cell)
       => View(stock, t, lines[i].cell) = t.cnt[i]

SInv == \A w \in Workers : Settling(pc[w], tx[w])

\* Locals of a request that has counted nothing.
LEMMA BlankSettles ==
  ASSUME NEW p, NEW t, \A i \in LineIds : t.cnt[i] = None, t.diff = {},
         t.todo = {} \/ \A r \in Rows : t.put[r] = None,
         p # "store" \/ t.task = NoTask
  PROVE  Settling(p, t) /\ Settling(p, t)'
<1>1. Counts(p, t) /\ Counts(p, t)' /\ AtHand(p, t) /\ AtHand(p, t)'
  BY DEF Counts, AtHand
<1>2. \A c : RowsOf(c) \subseteq Rows
  BY DEF RowsOf
<1>3. \A i \in LineIds : Open(i, p, t) => \A r \in Rows : t.put[r] = None
  BY DEF Open
<1>4. Settling(p, t)
  BY <1>1, <1>2, <1>3 DEF Settling
<1>5. /\ \A i \in LineIds : Open(i, p, t) /\ Lone(i)' =>
           \A r \in RowsOf(lines'[i].cell) : t.put[r] = None
      /\ \A i \in LineIds : t.cnt[i] = None
  BY <1>2, <1>3
<1>6. Settling(p, t)'
  BY <1>1, <1>5 DEF Settling, Open, RowsOf
<1> QED
  BY <1>4, <1>6

LEMMA InitSInv == Init => SInv
<1> SUFFICES ASSUME Init PROVE SInv
  OBVIOUS
<1>1. \A w \in Workers : pc[w] = "idle" /\ tx[w] = NoTx
  BY DEF Init
<1>2. Settling("idle", NoTx)
  <2>1. (\A i \in LineIds : NoTx.cnt[i] = None) /\ NoTx.diff = {} /\ NoTx.todo = {}
    BY DEF NoTx
  <2> QED
    BY <2>1, BlankSettles
<1> QED
  BY <1>1, <1>2 DEF SInv

-----------------------------------------------------------------------------
\* Lines that belong to a task stay what they are, but for what was counted.
LinesStay ==
  \A i \in LineIds : lines[i].task # NoTask =>
    /\ lines'[i].task = lines[i].task /\ lines'[i].cell = lines[i].cell
    /\ lines'[i].expected = lines[i].expected

LEMMA LoneBefore ==
  ASSUME LinesStay, disturbed \subseteq disturbed', NEW i \in LineIds, lines[i].task # NoTask,
         Lone(i)'
  PROVE  Lone(i)
BY DEF Lone, Only, LinesStay

\* A step that disturbs or leaves alone the cells of a submission keeps what it found.
LEMMA SettlingKept ==
  ASSUME RowsTyped, RowsTyped', LinesStay, disturbed \subseteq disturbed', NEW p, NEW t \in Tx,
         Settling(p, t), Submits(t), Writes(p, t),
         \A c \in Cells : c \in t.scope /\ c \notin disturbed' => Untouched(c)
  PROVE  Settling(p, t)'
<1>1. \A i \in LineIds : lines[i].cell \in Cells
  BY DEF RowsTyped, Line
<1>2. \A i \in LineIds : t.cnt[i] # None \/ Open(i, p, t) =>
        lines[i].task = t.task /\ t.task # NoTask /\ lines[i].cell \in t.scope
  BY DEF Settling, Counts, AtHand, Submits, Open, Writes
<1>3. \A i \in LineIds : t.cnt[i] # None \/ Open(i, p, t) =>
        /\ lines'[i].task = t.task /\ lines'[i].cell = lines[i].cell
        /\ lines'[i].expected = lines[i].expected
        /\ Lone(i)' => Lone(i) /\ Untouched(lines[i].cell)
  <2>1. ASSUME NEW i \in LineIds, t.cnt[i] # None \/ Open(i, p, t)
        PROVE  /\ lines'[i].task = t.task /\ lines'[i].cell = lines[i].cell
               /\ lines'[i].expected = lines[i].expected
               /\ Lone(i)' => Lone(i) /\ Untouched(lines[i].cell)
    <3>1. lines[i].task = t.task /\ t.task # NoTask /\ lines[i].cell \in t.scope
      BY <1>2, <2>1
    <3>2. Lone(i)' => Lone(i)
      BY <3>1, LoneBefore
    <3>3. lines'[i].cell = lines[i].cell
      BY <3>1 DEF LinesStay
    <3>4. Lone(i)' => Untouched(lines[i].cell)
      BY <1>1, <3>1, <3>3 DEF Lone
    <3> QED
      BY <3>1, <3>2, <3>4 DEF LinesStay
  <2> QED
    BY <2>1
<1>4. \A c : Untouched(c) => /\ OnePositive(c)' <=> OnePositive(c)
                             /\ \A r \in RowsOf(c) : stock'[r] = stock[r]
  BY DEF Untouched, OnePositive, RowsOf
<1>5. Counts(p, t)'
  BY <1>3 DEF Settling, Counts
<1>6. AtHand(p, t)'
  <2>1. SUFFICES ASSUME p = "store", t.task # NoTask
                 PROVE  /\ t.line \in LineIds \ t.diff /\ lines'[t.line].task = t.task
                        /\ t.cell = lines'[t.line].cell /\ t.qty = t.cnt[t.line]
                        /\ Lone(t.line)' /\ OnePositive(t.cell)'
                             => \A r \in RowsOf(t.cell) : r[2] # t.kind => stock'[r] = 0
    BY DEF AtHand, RowsOf, Lone, Only, OnePositive
  <2>2. PICK i : i = t.line
    OBVIOUS
  <2>3. /\ i \in LineIds \ t.diff /\ t.cell = lines[i].cell /\ t.qty = t.cnt[i] /\ Open(i, p, t)
        /\ Lone(i) /\ OnePositive(t.cell)
             => \A r \in RowsOf(t.cell) : r[2] # t.kind => stock[r] = 0
    BY <2>1, <2>2 DEF Settling, AtHand, Open
  <2>4. /\ lines'[i].task = t.task /\ t.cell = lines'[i].cell
        /\ Lone(i)' => Lone(i) /\ Untouched(t.cell)
    BY <1>3, <2>3
  <2>5. Lone(i)' /\ OnePositive(t.cell)'
          => \A r \in RowsOf(t.cell) : r[2] # t.kind => stock'[r] = 0
    BY <1>4, <2>3, <2>4
  <2> QED
    BY <2>2, <2>3, <2>4, <2>5 DEF Lone, Only
<1>7. \A i \in LineIds : Open(i, p, t) /\ Lone(i)' =>
        \A r \in RowsOf(lines'[i].cell) : t.put[r] = None
  BY <1>3 DEF Settling
<1>8. \A i \in LineIds :
        /\ t.cnt[i] \notin {None, lines'[i].expected} /\ ~Open(i, p, t)
        /\ Lone(i)' /\ OnePositive(lines[i].cell)'
        => View(stock', t, lines'[i].cell) = t.cnt[i]
  <2>1. SUFFICES ASSUME NEW i \in LineIds, t.cnt[i] \notin {None, lines'[i].expected},
                        ~Open(i, p, t), Lone(i)', OnePositive(lines[i].cell)'
                 PROVE  View(stock', t, lines'[i].cell) = t.cnt[i]
    OBVIOUS
  <2>2. PICK c \in Cells : c = lines[i].cell
    BY <1>1
  <2>3. /\ lines'[i].cell = c /\ lines'[i].expected = lines[i].expected
        /\ Lone(i) /\ Untouched(c)
    BY <1>3, <2>1, <2>2
  <2>4. OnePositive(lines[i].cell)
    BY <2>1, <2>2, <2>3 DEF OnePositive, Untouched, RowsOf
  <2>5. View(stock, t, c) = t.cnt[i]
    BY <2>1, <2>2, <2>3, <2>4 DEF Settling
  <2>6. View(stock', t, c) = View(stock, t, c)
    <3>1. stock \in [Rows -> Nat] /\ stock' \in [Rows -> Nat]
      BY DEF RowsTyped
    <3>2. \A r \in RowsOf(c) : Seen(stock', t, r) = Seen(stock, t, r)
      BY <1>4, <2>3 DEF Seen
    <3> QED
      BY <3>1, <3>2, ViewKept
  <2> QED
    BY <2>3, <2>5, <2>6
<1> QED
  BY <1>5, <1>6, <1>7, <1>8 DEF Settling, Open, RowsOf, OnePositive, View, Seen

-----------------------------------------------------------------------------
\* The common part of all statements of a request w.
LEMMA SettleStep ==
  ASSUME IInv, TInv, TInv', LInv, SInv, NEW w \in Workers, NEW next, NEW t, Goto(w, next, t),
         Settling(next, t)', LinesStay, disturbed \subseteq disturbed',
         \A c \in Cells : c \notin tx[w].scope => Untouched(c)
  PROVE  SInv'
<1>1. /\ pc'[w] = next /\ tx'[w] = t
      /\ \A v \in Workers \ {w} : pc'[v] = pc[v] /\ tx'[v] = tx[v]
  BY DEF Goto, TInv, TypeOK
<1>2. ASSUME NEW v \in Workers PROVE Settling(pc[v], tx[v])'
  <2>1. PICK p, x : p = pc'[v] /\ x = tx'[v]
    OBVIOUS
  <2>2. Settling(p, x)'
    <3>1. CASE v = w
      BY <1>1, <2>1, <3>1
    <3>2. CASE v # w
      <4>1. p = pc[v] /\ x = tx[v]
        BY <1>1, <2>1, <3>2
      <4>2. Settling(p, x) /\ Submits(x) /\ Writes(p, x) /\ x \in Tx
        BY <4>1 DEF SInv, LInv, TInv, TypeOK
      <4>3. ASSUME NEW c \in Cells, c \in x.scope, c \notin disturbed' PROVE Untouched(c)
        <5>1. c \notin tx[w].scope
          BY <3>2, <4>1, <4>3, Alone
        <5> QED
          BY <5>1
      <4> QED
        BY <4>2, <4>3, TypedRows, TypedRowsNext, SettlingKept
    <3> QED
      BY <3>1, <3>2
  <2> QED
    BY <2>1, <2>2 DEF Settling, Counts, AtHand, Open, Lone, Only, OnePositive, View, Seen, RowsOf
<1> QED
  BY <1>2 DEF SInv

\* ... that counts nothing, or no more.
LEMMA SettleBlank ==
  ASSUME IInv, TInv, TInv', LInv, SInv, NEW w \in Workers, NEW next, NEW t, Goto(w, next, t),
         \A i \in LineIds : t.cnt[i] = None, t.diff = {},
         t.todo = {} \/ \A r \in Rows : t.put[r] = None,
         next # "store" \/ t.task = NoTask,
         LinesStay, disturbed \subseteq disturbed',
         \A c \in Cells : c \notin tx[w].scope => Untouched(c)
  PROVE  SInv'
<1>1. Settling(next, t)'
  BY BlankSettles
<1> QED
  BY <1>1, SettleStep

LEMMA SettleIdle ==
  ASSUME IInv, TInv, TInv', LInv, SInv, NEW w \in Workers, Goto(w, "idle", NoTx),
         LinesStay, disturbed \subseteq disturbed',
         \A c \in Cells : c \notin tx[w].scope => Untouched(c)
  PROVE  SInv'
<1>1. (\A i \in LineIds : NoTx.cnt[i] = None) /\ NoTx.diff = {} /\ NoTx.todo = {}
  BY DEF NoTx
<1> QED
  BY <1>1, SettleBlank

\* ... that writes no row.
LEMMA SettleLocal ==
  ASSUME IInv, TInv, TInv', LInv, SInv, NEW w \in Workers, NEW next, NEW t, Local(w, next, t),
         Settling(next, t)
  PROVE  SInv'
<1>1. Goto(w, next, t) /\ UNCHANGED <<lines, stock, logged, adjusted, shelf, disturbed>>
  BY DEF Local, rows
<1>2. lines' = lines /\ stock' = stock /\ disturbed' = disturbed
  BY <1>1
<1>3. Settling(next, t)'
  BY <1>2 DEF Settling, Counts, AtHand, Open, Lone, Only, OnePositive, View, Seen, RowsOf
<1>4. LinesStay /\ \A c \in Cells : Untouched(c)
  BY <1>1 DEF LinesStay, Untouched
<1> QED
  BY <1>1, <1>3, <1>4, SettleStep

LEMMA SettleRefuse ==
  ASSUME IInv, TInv, TInv', LInv, SInv, NEW w \in Workers, Refuse(w)
  PROVE  SInv'
<1>1. (\A i \in LineIds : NoTx.cnt[i] = None) /\ NoTx.diff = {} /\ NoTx.todo = {}
  BY DEF NoTx
<1>2. Settling("idle", NoTx)
  BY <1>1, BlankSettles
<1> QED
  BY <1>2, SettleLocal DEF Refuse

\* A submission that goes on with the same counts.
LEMMA SettleCarries ==
  ASSUME IInv, TInv, TInv', LInv, SInv, NEW w \in Workers, NEW next, NEW t \in Tx, Local(w, next, t),
         Carries(w, t), t.cnt = tx[w].cnt, t.todo = tx[w].todo, t.diff = tx[w].diff,
         t.dto = tx[w].dto \/ t.diff = {},
         pc[w] # "store", next # "store",
         next \in {"remaining", "commit"} => t.diff = {}
  PROVE  SInv'
<1>1. PICK p, x : p = pc[w] /\ x = tx[w]
  OBVIOUS
<1>2. Settling(p, x) /\ x \in Tx /\ stock \in [Rows -> Nat]
  BY <1>1 DEF SInv, TInv, TypeOK
<1>3. \A i \in LineIds : Open(i, next, t) <=> Open(i, p, x)
  BY <1>1 DEF Open
<1>4. Counts(next, t) /\ AtHand(next, t)
  BY <1>1, <1>2 DEF Settling, Counts, AtHand, Carries
<1>5. \A i \in LineIds : lines[i].cell \in Cells
  BY TypedRows DEF RowsTyped, Line
<1>6. \A c \in Cells : View(stock, t, c) = View(stock, x, c)
  <2>1. SUFFICES ASSUME NEW c \in Cells PROVE View(stock, t, c) = View(stock, x, c)
    OBVIOUS
  <2>2. \A r \in RowsOf(c) : Seen(stock, t, r) = Seen(stock, x, r)
    BY <1>1 DEF Seen, Carries
  <2> QED
    BY <1>2, <2>2, ViewKept
<1>7. Settling(next, t)
  BY <1>1, <1>2, <1>3, <1>4, <1>5, <1>6 DEF Settling, Carries
<1> QED
  BY <1>7, SettleLocal

\* What is not a statement of a request.
LEMMA SettleOutside ==
  ASSUME TInv, TInv', LInv, SInv, UNCHANGED <<lines, pc, tx>>, disturbed \subseteq disturbed',
         \A w \in Workers, c \in Cells : c \notin disturbed' /\ c \in tx[w].scope => Untouched(c)
  PROVE  SInv'
<1>1. lines' = lines /\ pc' = pc /\ tx' = tx
  OBVIOUS
<1>2. LinesStay
  BY <1>1 DEF LinesStay
<1>3. ASSUME NEW v \in Workers PROVE Settling(pc[v], tx[v])'
  <2>1. PICK p, x : p = pc[v] /\ x = tx[v]
    OBVIOUS
  <2>2. Settling(p, x) /\ Submits(x) /\ Writes(p, x) /\ x \in Tx
    BY <2>1 DEF SInv, LInv, TInv, TypeOK
  <2>3. \A c \in Cells : c \in x.scope /\ c \notin disturbed' => Untouched(c)
    BY <2>1
  <2>4. Settling(p, x)'
    BY <1>2, <2>2, <2>3, TypedRows, TypedRowsNext, SettlingKept
  <2> QED
    BY <1>1, <2>1, <2>4 DEF Settling, Counts, AtHand, Open, Lone, Only, OnePositive, View, Seen, RowsOf
<1> QED
  BY <1>3 DEF SInv

-----------------------------------------------------------------------------
LEMMA SettleStock ==
  ASSUME TInv, TInv', LInv, SInv, NEW c \in Cells, Reserve(c) \/ Pick(c)
  PROVE  SInv'
<1>1. /\ UNCHANGED <<lines, pc, tx>>
      /\ disturbed' = disturbed \cup UNION {{c} \cap tx[o].scope : o \in Workers}
  BY DEF Reserve, Pick
<1>2. \A d \in Cells \ {c} : Untouched(d)
  BY StockTouches, TypedRows
<1>3. \A w \in Workers, d \in Cells : d \notin disturbed' /\ d \in tx[w].scope => Untouched(d)
  BY <1>1, <1>2
<1> QED
  BY <1>1, <1>3, SettleOutside

LEMMA SettleStatus ==
  ASSUME TInv, TInv', LInv, SInv, NEW t \in Tasks, CreateTask(t) \/ Cancel(t)
  PROVE  SInv'
<1>1. /\ UNCHANGED <<lines, pc, tx>> /\ disturbed \subseteq disturbed'
      /\ UNCHANGED <<stock, logged, adjusted, shelf>>
  BY DEF CreateTask, Cancel
<1>2. \A c \in Cells : Untouched(c)
  BY <1>1 DEF Untouched
<1> QED
  BY <1>1, <1>2, SettleOutside

LEMMA SettleBegin ==
  ASSUME IInv, TInv, TInv', LInv, SInv, NEW w \in Workers, NEW next, NEW t, Begin(w, next, t),
         t.cnt = NoTx.cnt, t.put = NoTx.put, t.diff = {}, next # "store"
  PROVE  SInv'
<1>1. (\A i \in LineIds : t.cnt[i] = None) /\ \A r \in Rows : t.put[r] = None
  BY DEF NoTx
<1>2. Goto(w, next, t) /\ disturbed \subseteq disturbed'
      /\ UNCHANGED <<lines, stock, logged, adjusted, shelf>>
  BY DEF Begin, rows
<1>3. LinesStay /\ \A c \in Cells : Untouched(c)
  BY <1>2 DEF LinesStay, Untouched
<1> QED
  BY <1>1, <1>2, <1>3, SettleBlank

LEMMA SettleBeginnings ==
  ASSUME IInv, TInv, TInv', LInv, SInv, NEW w \in Workers,
         \/ \E t \in Tasks : \/ \E cs \in Batches, suggested \in BOOLEAN : ReadRows(w, t, cs, suggested)
                             \/ \E c \in Cells : AddLine(w, t, c)
                             \/ ReadStart(w, t)
                             \/ \E ids \in SUBSET LineIds : ReadTask(w, t, ids)
         \/ \E p \in Targets : Adjust(w, p[1], p[2])
         \/ \E p \in Changes : AdjustBy(w, p[1], p[2])
  PROVE  SInv'
<1>1. ASSUME NEW t, NEW new, Begin(w, "create", [NoTx EXCEPT !.task = t, !.scope = {t}, !.new = new])
      PROVE  SInv'
  <2>1. PICK x : x = [NoTx EXCEPT !.task = t, !.scope = {t}, !.new = new]
    OBVIOUS
  <2>2. x.cnt = NoTx.cnt /\ x.put = NoTx.put /\ x.diff = {}
    BY <2>1 DEF NoTx
  <2> QED
    BY <1>1, <2>1, <2>2, SettleBegin
<1>2. ASSUME NEW t, NEW c, Begin(w, "expected", [NoTx EXCEPT !.task = t, !.scope = {t}, !.cell = c])
      PROVE  SInv'
  <2>1. PICK x : x = [NoTx EXCEPT !.task = t, !.scope = {t}, !.cell = c]
    OBVIOUS
  <2>2. x.cnt = NoTx.cnt /\ x.put = NoTx.put /\ x.diff = {}
    BY <2>1 DEF NoTx
  <2> QED
    BY <1>2, <2>1, <2>2, SettleBegin
<1>3. ASSUME NEW t, Begin(w, "start", [NoTx EXCEPT !.task = t, !.scope = {t}]) PROVE SInv'
  <2>1. PICK x : x = [NoTx EXCEPT !.task = t, !.scope = {t}]
    OBVIOUS
  <2>2. x.cnt = NoTx.cnt /\ x.put = NoTx.put /\ x.diff = {}
    BY <2>1 DEF NoTx
  <2> QED
    BY <1>3, <2>1, <2>2, SettleBegin
<1>4. ASSUME NEW t, NEW scope, NEW todo, NEW dto,
             Begin(w, "pending", [NoTx EXCEPT !.task = t, !.scope = scope, !.todo = todo, !.dto = dto])
      PROVE SInv'
  <2>1. PICK x : x = [NoTx EXCEPT !.task = t, !.scope = scope, !.todo = todo, !.dto = dto]
    OBVIOUS
  <2>2. x.cnt = NoTx.cnt /\ x.put = NoTx.put /\ x.diff = {}
    BY <2>1 DEF NoTx
  <2> QED
    BY <1>4, <2>1, <2>2, SettleBegin
<1>5. ASSUME NEW c, NEW n, Adjust(w, c, n) PROVE SInv'
  <2>1. PICK x : x = [NoTx EXCEPT !.scope = {c}, !.cell = c, !.qty = n]
    OBVIOUS
  <2>2. x.cnt = NoTx.cnt /\ x.put = NoTx.put /\ x.diff = {} /\ Begin(w, "adjust", x)
    BY <1>5, <2>1 DEF NoTx, Adjust
  <2> QED
    BY <2>2, SettleBegin
<1>6. ASSUME NEW c, NEW n, AdjustBy(w, c, n) PROVE SInv'
  <2>1. PICK x : x = [NoTx EXCEPT !.scope = {c}, !.cell = c, !.plus = n]
    OBVIOUS
  <2>2. x.cnt = NoTx.cnt /\ x.put = NoTx.put /\ x.diff = {} /\ Begin(w, "total", x)
    BY <1>6, <2>1 DEF NoTx, AdjustBy
  <2> QED
    BY <2>2, SettleBegin
<1>7. ASSUME NEW t \in Tasks, \E cs \in Batches, suggested \in BOOLEAN : ReadRows(w, t, cs, suggested)
      PROVE  SInv'
  <2>1. PICK new : Begin(w, "create", [NoTx EXCEPT !.task = t, !.scope = {t}, !.new = new])
    BY <1>7 DEF ReadRows
  <2> QED
    BY <1>1, <2>1
<1>8. ASSUME NEW t \in Tasks, \E ids \in SUBSET LineIds : ReadTask(w, t, ids)
      PROVE  SInv'
  <2>1. PICK scope, todo, dto :
          Begin(w, "pending", [NoTx EXCEPT !.task = t, !.scope = scope, !.todo = todo, !.dto = dto])
    BY <1>8 DEF ReadTask
  <2> QED
    BY <1>4, <2>1
<1>9. ASSUME NEW t \in Tasks, (\E c \in Cells : AddLine(w, t, c)) \/ ReadStart(w, t)
      PROVE  SInv'
  BY <1>2, <1>3, <1>9 DEF AddLine, ReadStart
<1> QED
  BY <1>5, <1>6, <1>7, <1>8, <1>9

LEMMA SettleRequests ==
  ASSUME IInv, TInv, TInv', LInv, SInv, NEW w \in Workers,
         InsertTask(w) \/ InsertLine(w) \/ Start(w)
  PROVE  SInv'
<1>1. /\ Goto(w, "idle", NoTx) /\ disturbed' = disturbed
      /\ UNCHANGED <<stock, logged, adjusted, shelf>>
      /\ Insert(tx[w].new, tx[w].task) \/ lines' = lines
  BY DEF InsertTask, InsertLine, Start
<1>2. \A c \in Cells : Untouched(c)
  BY <1>1 DEF Untouched
<1>3. PICK new, t : new = tx[w].new /\ t = tx[w].task
  OBVIOUS
<1>4. LinesStay
  BY <1>1, <1>3, InsertKeeps DEF LinesStay
<1> QED
  BY <1>1, <1>2, <1>4, SettleIdle

\* The adjustments on their own, which count no line.
LEMMA SettleAdjustment ==
  ASSUME IInv, TInv, TInv', LInv, SInv, NEW w \in Workers,
         StoreRow(w) \/ LogMovement(w) \/ RecordAdjustment(w)
  PROVE  SInv'
<1>1. PICK c, t : c = tx[w].cell /\ t = tx[w]
  OBVIOUS
<1>2. /\ Writes(pc[w], t) /\ Submits(t) /\ Settling(pc[w], t) /\ RowsTyped
  BY <1>1, TypedRows DEF LInv, SInv
<1>3. /\ lines' = lines /\ disturbed' = disturbed /\ t.task = NoTask
      /\ \/ pc[w] = "store" /\ Goto(w, "log", t)
         \/ pc[w] = "log" /\ Goto(w, "record", t)
         \/ pc[w] = "record" /\ Goto(w, "idle", NoTx)
  BY <1>1, <1>2 DEF StoreRow, LogMovement, RecordAdjustment, InTask, Writes
<1>4. LinesStay
  BY <1>3 DEF LinesStay
<1>5. (\A i \in LineIds : t.cnt[i] = None) /\ t.diff = {} /\ t.todo = {}
  BY <1>2, <1>3 DEF Settling, Counts, Submits
<1>6. t.scope = {c}
  BY <1>1, <1>2, <1>3 DEF Writes
<1>7. ASSUME NEW b \in Cells \ {c} PROVE Untouched(b)
  <2>1. CASE StoreRow(w)
    <3>1. PICK r, q : r = <<c, t.kind>> /\ q = t.qty
      OBVIOUS
    <3>2. stock' = [stock EXCEPT ![r] = q] /\ UNCHANGED <<logged, adjusted, shelf>>
      BY <1>1, <2>1, <3>1 DEF StoreRow
    <3>3. \A x \in RowsOf(b) : x \in Rows /\ x # r
      BY <3>1 DEF RowsOf
    <3> QED
      BY <1>2, <3>2, <3>3 DEF Untouched, RowsTyped
  <2>2. CASE LogMovement(w) \/ RecordAdjustment(w)
    <3>1. PICK d : d = Difference(w)
      OBVIOUS
    <3>2. /\ UNCHANGED <<stock, shelf>>
          /\ logged' = logged \/ logged' = [logged EXCEPT ![c] = logged[c] + d]
          /\ adjusted' = adjusted \/ adjusted' = [adjusted EXCEPT ![c] = adjusted[c] + d]
      BY <1>1, <2>2, <3>1 DEF LogMovement, RecordAdjustment
    <3> QED
      BY <1>2, <3>2 DEF Untouched, RowsTyped
  <2> QED
    BY <2>1, <2>2
<1>8. \A b \in Cells : b \notin tx[w].scope => Untouched(b)
  BY <1>1, <1>6, <1>7
<1>9. CASE Goto(w, "log", t) \/ Goto(w, "record", t)
  <2>1. PICK next : Goto(w, next, t) /\ next # "store"
    BY <1>9
  <2>2. disturbed \subseteq disturbed'
    BY <1>3
  <2> QED
    BY <1>4, <1>5, <1>8, <2>1, <2>2, SettleBlank
<1>10. CASE Goto(w, "idle", NoTx)
  BY <1>3, <1>4, <1>8, <1>10, SettleIdle
<1> QED
  BY <1>3, <1>9, <1>10

LEMMA SettleCommit ==
  ASSUME IInv, TInv, TInv', LInv, SInv, NEW w \in Workers, Commit(w)
  PROVE  SInv'
<1>1. Goto(w, "idle", NoTx) /\ disturbed' = disturbed
  BY DEF Commit
<1>2. LinesStay
  <2>1. ASSUME NEW i \in LineIds
        PROVE  /\ lines'[i].task = lines[i].task /\ lines'[i].cell = lines[i].cell
               /\ lines'[i].expected = lines[i].expected
    <3>1. lines'[i] = [task |-> lines[i].task, cell |-> lines[i].cell,
                       expected |-> lines[i].expected, counted |-> CountedIn(w, i)]
      BY CommitLines
    <3> QED
      BY <3>1
  <2> QED
    BY <2>1 DEF LinesStay
<1>3. \A c \in Cells : c \notin tx[w].scope => Untouched(c)
  BY CommitTouches
<1> QED
  BY <1>1, <1>2, <1>3, SettleIdle

LEMMA SettleFail ==
  ASSUME IInv, TInv, TInv', LInv, SInv, NEW w \in Workers, Fail(w)
  PROVE  SInv'
<1>1. /\ Goto(w, "idle", NoTx) /\ UNCHANGED <<lines, stock, logged, adjusted, shelf>>
      /\ disturbed \subseteq disturbed'
  BY DEF Fail, rows
<1>2. LinesStay /\ \A c \in Cells : Untouched(c)
  BY <1>1 DEF LinesStay, Untouched
<1> QED
  BY <1>1, <1>2, SettleIdle

\* The statements that read.
LEMMA SettleReads ==
  ASSUME IInv, TInv, TInv', LInv, SInv, NEW w \in Workers,
         \/ ReadExpected(w) \/ ReadPending(w) \/ FindLine(w) \/ ReadRemaining(w)
         \/ LeaveLines(w) \/ ReadTotal(w)
  PROVE  SInv'
<1>0. /\ tx[w] \in Tx /\ Writes(pc[w], tx[w]) /\ Counts(pc[w], tx[w])
      /\ \A next, x : Local(w, next, x) => x \in Tx
  BY LocalTyped DEF TInv, TypeOK, LInv, SInv, Settling
<1>1. CASE ReadExpected(w)
  <2>1. pc[w] = "expected" /\ \E new : Local(w, "insert", [tx[w] EXCEPT !.new = new])
    BY <1>1 DEF ReadExpected
  <2>2. PICK new : Local(w, "insert", [tx[w] EXCEPT !.new = new])
    BY <2>1
  <2>3. PICK x \in Tx : x = [tx[w] EXCEPT !.new = new]
    BY <1>0, <2>2
  <2>4. /\ Carries(w, x) /\ x.cnt = tx[w].cnt /\ x.todo = tx[w].todo /\ x.diff = tx[w].diff
        /\ x.dto = tx[w].dto /\ Local(w, "insert", x)
    BY <1>0, <2>2, <2>3 DEF Carries, Tx
  <2> QED
    BY <2>1, <2>4, SettleCarries
<1>2. CASE ReadPending(w)
  <2>1. PICK next \in {"find", "adjust"} :
          /\ pc[w] = "pending" /\ (Local(w, next, tx[w]) \/ Refuse(w))
          /\ next = "adjust" => tx[w].todo = {}
    BY <1>2 DEF ReadPending
  <2>2. CASE Local(w, next, tx[w])
    <3>1. PICK x \in Tx : x = tx[w]
      BY <1>0
    <3>2. /\ Carries(w, x) /\ x.cnt = tx[w].cnt /\ x.todo = tx[w].todo /\ x.diff = tx[w].diff
          /\ x.dto = tx[w].dto /\ Local(w, next, x)
      BY <2>2, <3>1 DEF Carries
    <3> QED
      BY <2>1, <3>2, SettleCarries
  <2> QED
    BY <2>1, <2>2, SettleRefuse
<1>3. CASE FindLine(w)
  <2>1. pc[w] = "find" /\ \E i : Local(w, "count", [tx[w] EXCEPT !.line = i]) \/ Refuse(w)
    BY <1>3 DEF FindLine
  <2>2. PICK i : Local(w, "count", [tx[w] EXCEPT !.line = i]) \/ Refuse(w)
    BY <2>1
  <2>3. CASE Local(w, "count", [tx[w] EXCEPT !.line = i])
    <3>1. PICK x \in Tx : x = [tx[w] EXCEPT !.line = i]
      BY <1>0, <2>3
    <3>2. /\ Carries(w, x) /\ x.cnt = tx[w].cnt /\ x.todo = tx[w].todo /\ x.diff = tx[w].diff
          /\ x.dto = tx[w].dto /\ Local(w, "count", x)
      BY <1>0, <2>3, <3>1 DEF Carries, Tx
    <3> QED
      BY <2>1, <3>2, SettleCarries
  <2> QED
    BY <2>2, <2>3, SettleRefuse
<1>4. CASE ReadRemaining(w)
  <2>1. pc[w] = "remaining" /\ \E last : Local(w, "commit", [tx[w] EXCEPT !.last = last])
    BY <1>4 DEF ReadRemaining
  <2>2. PICK last : Local(w, "commit", [tx[w] EXCEPT !.last = last])
    BY <2>1
  <2>3. PICK x \in Tx : x = [tx[w] EXCEPT !.last = last]
    BY <1>0, <2>2
  <2>4. /\ Carries(w, x) /\ x.cnt = tx[w].cnt /\ x.todo = tx[w].todo /\ x.diff = tx[w].diff
        /\ x.dto = tx[w].dto /\ Local(w, "commit", x)
    BY <1>0, <2>2, <2>3 DEF Carries, Tx
  <2>5. x.diff = {}
    BY <1>0, <2>1, <2>4 DEF Counts
  <2> QED
    BY <2>1, <2>4, <2>5, SettleCarries
<1>5. CASE LeaveLines(w)
  <2>1. pc[w] = "adjust" /\ tx[w].diff = {} /\ Local(w, "remaining", [tx[w] EXCEPT !.dto = NoTx.dto])
    BY <1>5 DEF LeaveLines
  <2>2. PICK x \in Tx : x = [tx[w] EXCEPT !.dto = NoTx.dto]
    BY <1>0, <2>1
  <2>3. /\ Carries(w, x) /\ x.cnt = tx[w].cnt /\ x.todo = tx[w].todo /\ x.diff = tx[w].diff
        /\ Local(w, "remaining", x)
    BY <1>0, <2>1, <2>2 DEF Carries, Tx
  <2>4. x.diff = {}
    BY <2>1, <2>3
  <2> QED
    BY <2>1, <2>3, <2>4, SettleCarries
<1>6. CASE ReadTotal(w)
  <2>1. pc[w] = "total" /\ \E qty : Local(w, "adjust", [tx[w] EXCEPT !.qty = qty, !.plus = 0])
    BY <1>6 DEF ReadTotal
  <2>2. PICK qty : Local(w, "adjust", [tx[w] EXCEPT !.qty = qty, !.plus = 0])
    BY <2>1
  <2>3. PICK x \in Tx : x = [tx[w] EXCEPT !.qty = qty, !.plus = 0]
    BY <1>0, <2>2
  <2>4. /\ Carries(w, x) /\ x.cnt = tx[w].cnt /\ x.todo = tx[w].todo /\ x.diff = tx[w].diff
        /\ x.dto = tx[w].dto /\ Local(w, "adjust", x)
    BY <1>0, <2>2, <2>3 DEF Carries, Tx
  <2> QED
    BY <2>1, <2>4, SettleCarries
<1> QED
  BY <1>1, <1>2, <1>3, <1>4, <1>5, <1>6

\* A count: the line has still to be dealt with if it differs, else there is nothing to do.
LEMMA SettleCountLine ==
  ASSUME IInv, TInv, TInv', LInv, SInv, NEW w \in Workers, CountLine(w)
  PROVE  SInv'
<1>1. PICK i, x : i = tx[w].line /\ x = tx[w]
  OBVIOUS
<1>2. /\ x \in Tx /\ Submits(x) /\ Settling("count", x) /\ i \in x.todo /\ i \in LineIds
      /\ stock \in [Rows -> Nat] /\ \A next, t : Local(w, next, t) => t \in Tx
  BY <1>1, LocalTyped DEF TInv, TypeOK, LInv, SInv, CountLine, IInv, Scoped
<1>a. PICK next, diff :
        /\ next = IF tx[w].todo = {tx[w].line} THEN "adjust" ELSE "find"
        /\ diff = IF tx[w].dto[tx[w].line] # lines[tx[w].line].expected
                  THEN tx[w].diff \cup {tx[w].line} ELSE tx[w].diff
        /\ Local(w, next, [tx[w] EXCEPT !.todo = @ \ {tx[w].line}, !.line = NoLine,
                          !.cnt[tx[w].line] = tx[w].dto[tx[w].line], !.diff = diff])
  BY DEF CountLine
<1>3. /\ next \in {"adjust", "find"}
      /\ diff = IF x.dto[i] # lines[i].expected THEN x.diff \cup {i} ELSE x.diff
  BY <1>1, <1>a
<1>4. PICK todo, cnt : todo = x.todo \ {i} /\ cnt = [x.cnt EXCEPT ![i] = x.dto[i]]
  OBVIOUS
<1>5. Local(w, next, [x EXCEPT !.todo = todo, !.line = NoLine, !.cnt = cnt, !.diff = diff])
  BY <1>1, <1>a, <1>4
<1>6. PICK t \in Tx : t = [x EXCEPT !.todo = todo, !.line = NoLine, !.cnt = cnt, !.diff = diff]
  BY <1>2, <1>5
<1>7. /\ t.todo = todo /\ t.diff = diff /\ t.cnt = cnt /\ t.dto = x.dto /\ t.put = x.put
      /\ t.task = x.task /\ t.scope = x.scope /\ Local(w, next, t)
  BY <1>2, <1>5, <1>6 DEF Tx
<1>8. t.cnt[i] = x.dto[i] /\ \A j \in LineIds \ {i} : t.cnt[j] = x.cnt[j]
  BY <1>2, <1>4, <1>7 DEF Tx
<1>9. /\ \A j \in LineIds : Open(j, next, t) => Open(j, "count", x)
      /\ \A j \in LineIds \ {i} : Open(j, "count", x) => Open(j, next, t)
      /\ x.dto[i] # lines[i].expected => Open(i, next, t)
  BY <1>2, <1>3, <1>4, <1>7 DEF Open
<1>10. Counts(next, t) /\ AtHand(next, t)
  <2>1. t.task # NoTask /\ lines[i].task = t.task /\ lines[i].cell \in t.scope
    BY <1>2, <1>7 DEF Submits
  <2>2. \A j \in t.diff : t.cnt[j] = t.dto[j]
    BY <1>2, <1>3, <1>7, <1>8 DEF Settling, Counts, Tx
  <2>3. \A j \in LineIds : t.cnt[j] # None =>
          t.task # NoTask /\ lines[j].task = t.task /\ lines[j].cell \in t.scope
    BY <1>2, <1>7, <1>8, <2>1 DEF Settling, Counts
  <2> QED
    BY <1>3, <2>2, <2>3 DEF Counts, AtHand
<1>11. \A c \in Cells : View(stock, t, c) = View(stock, x, c)
  <2>1. SUFFICES ASSUME NEW c \in Cells PROVE View(stock, t, c) = View(stock, x, c)
    OBVIOUS
  <2>2. \A r \in RowsOf(c) : Seen(stock, t, r) = Seen(stock, x, r)
    BY <1>7 DEF Seen
  <2> QED
    BY <1>2, <2>2, ViewKept
<1>12. \A j \in LineIds : lines[j].cell \in Cells
  BY TypedRows DEF RowsTyped, Line
<1>13. \A j \in LineIds : Open(j, next, t) /\ Lone(j) =>
         \A r \in RowsOf(lines[j].cell) : t.put[r] = None
  BY <1>2, <1>7, <1>9 DEF Settling
<1>14. \A j \in LineIds :
         /\ t.cnt[j] \notin {None, lines[j].expected} /\ ~Open(j, next, t)
         /\ Lone(j) /\ OnePositive(lines[j].cell)
         => View(stock, t, lines[j].cell) = t.cnt[j]
  BY <1>2, <1>8, <1>9, <1>11, <1>12 DEF Settling
<1>15. Settling(next, t)
  BY <1>10, <1>13, <1>14 DEF Settling
<1> QED
  BY <1>7, <1>15, SettleLocal

-----------------------------------------------------------------------------
\* The sum of a row n and of zeros.
LEMMA ViewOfOne ==
  ASSUME NEW st \in [Rows -> Nat], NEW t \in Tx, NEW c \in Cells, NEW r \in RowsOf(c),
         \A s \in RowsOf(c) : s # r => Seen(st, t, s) = 0
  PROVE  View(st, t, c) = Seen(st, t, r)
<1>1. /\ IsFiniteSet(RowsOf(c)) /\ RowsOf(c) \subseteq Rows
      /\ \A s \in Rows : Seen(st, t, s) \in Nat
  BY ViewInt
<1>2. PICK f : f = [s \in Rows |-> Seen(st, t, s)]
  OBVIOUS
<1>3. \A s \in RowsOf(c) : f[s] = Seen(st, t, s) /\ f[s] \in Int
  BY <1>1, <1>2
<1>4. SumFunctionOnSet(f, RowsOf(c)) = f[r] + SumFunctionOnSet(f, RowsOf(c) \ {r})
  BY <1>1, <1>3, SumRemove
<1>5. PICK R : R = RowsOf(c) \ {r}
  OBVIOUS
<1>6. IsFiniteSet(R) /\ \A s \in R : f[s] = 0
  BY <1>1, <1>3, <1>5, FS_Subset
<1>7. SumFunctionOnSet(f, R) = 0
  BY <1>6, SumZero
<1>8. View(st, t, c) = SumFunctionOnSet(f, RowsOf(c))
  BY <1>2 DEF View
<1> QED
  BY <1>3, <1>4, <1>5, <1>7, <1>8

\* The row that is chosen is the one that has stock.
LEMMA ChosenHasStock ==
  ASSUME RowsTyped, NEW w \in Workers, tx[w] \in Tx, NEW c \in Cells, NEW k \in StatusToAdjust(w, c),
         \A r \in RowsOf(c) : tx[w].put[r] = None, OnePositive(c)
  PROVE  \A r \in RowsOf(c) : r[2] # k => stock[r] = 0
<1>1. \A r \in RowsOf(c) : StockIn(w, r) = stock[r] /\ stock[r] \in Nat /\ r = <<c, r[2]>>
  BY CountingAssumption DEF StockIn, RowsOf, RowsTyped
<1>2. <<c, k>> \in RowsOf(c)
  BY ChosenRow
<1>3. SUFFICES ASSUME NEW r \in RowsOf(c), r[2] # k, stock[r] > 0 PROVE FALSE
  BY <1>1
<1>4. ~ stock[<<c, k>>] > 0
  BY <1>2, <1>3 DEF OnePositive
<1>5. CASE \E s \in RowsOf(c) : s[2] = "AVAILABLE" /\ StockIn(w, s) > 0
  <2>1. k = "AVAILABLE"
    BY <1>5 DEF StatusToAdjust
  <2>2. PICK s \in RowsOf(c) : s[2] = "AVAILABLE" /\ StockIn(w, s) > 0
    BY <1>5
  <2>3. s = <<c, k>> /\ stock[s] > 0
    BY <1>1, <2>1, <2>2
  <2> QED
    BY <1>4, <2>3
<1>6. CASE ~ \E s \in RowsOf(c) : s[2] = "AVAILABLE" /\ StockIn(w, s) > 0
  <2>1. PICK s \in RowsOf(c) : s[2] = k /\ \A y \in RowsOf(c) : StockIn(w, y) <= StockIn(w, s)
    BY <1>6 DEF StatusToAdjust
  <2>2. s = <<c, k>> /\ stock[r] <= stock[s]
    BY <1>1, <1>3, <2>1
  <2> QED
    BY <1>1, <1>3, <1>4, <2>2
<1> QED
  BY <1>5, <1>6

\* The row for a line: what is stored there, or is there already, is the whole cell.
LEMMA SettleReadForLine ==
  ASSUME IInv, TInv, TInv', LInv, SInv, NEW w \in Workers, ReadForLine(w)
  PROVE  SInv'
<1>1. PICK i \in tx[w].diff :
        ReadRow(w, lines[i].cell, Wanted(w, i), [tx[w] EXCEPT !.diff = @ \ {i}, !.line = i])
  BY DEF ReadForLine
<1>2. PICK x, c, n, y : /\ x = tx[w] /\ c = lines[i].cell /\ n = x.dto[i]
                        /\ y = [x EXCEPT !.diff = x.diff \ {i}, !.line = i]
  OBVIOUS
<1>3. /\ x \in Tx /\ Submits(x) /\ Settling("adjust", x) /\ Writes("adjust", x)
      /\ stock \in [Rows -> Nat] /\ x.task # NoTask
      /\ \A next, t : Local(w, next, t) => t \in Tx
  BY <1>2, LocalTyped DEF TInv, TypeOK, LInv, SInv, ReadForLine, InTask
<1>4. /\ i \in LineIds /\ lines[i].task = x.task /\ n \in Nat /\ x.todo = {}
      /\ x.cnt[i] = n /\ \A j \in LineIds : lines[j].cell \in Cells
  BY <1>1, <1>2, <1>3, TypedRows DEF Submits, Tx, Settling, Counts, Writes, RowsTyped, Line
<1>5. ReadRow(w, c, n, y)
  BY <1>1, <1>2 DEF Wanted
<1>6. PICK k \in StatusToAdjust(w, c) :
        LET q == StockIn(w, <<c, k>>)
        IN  IF q # n THEN Local(w, "store", [y EXCEPT !.cell = c, !.qty = n, !.kind = k, !.prev = q])
            ELSE IF InTask(w) THEN Local(w, "adjust", y) ELSE Refuse(w)
  BY <1>5 DEF ReadRow
<1>7. PICK q : q = StockIn(w, <<c, k>>)
  OBVIOUS
<1>8. c \in Cells /\ <<c, k>> \in RowsOf(c) /\ q = Seen(stock, x, <<c, k>>)
  BY <1>2, <1>3, <1>4, <1>7, ChosenRow, TypedRows DEF Seen, StockIn
<1>9. Lone(i) => \A r \in RowsOf(c) : x.put[r] = None
  BY <1>1, <1>2, <1>3, <1>4 DEF Settling, Open
<1>10. Lone(i) /\ OnePositive(c) => \A r \in RowsOf(c) : r[2] # k => stock[r] = 0
  BY <1>2, <1>3, <1>8, <1>9, ChosenHasStock, TypedRows
<1>11. ASSUME NEW t \in Tx, t.put = x.put PROVE \A b \in Cells : View(stock, t, b) = View(stock, x, b)
  <2>1. SUFFICES ASSUME NEW b \in Cells PROVE View(stock, t, b) = View(stock, x, b)
    OBVIOUS
  <2>2. \A r \in RowsOf(b) : Seen(stock, t, r) = Seen(stock, x, r)
    BY <1>11 DEF Seen
  <2> QED
    BY <1>3, <2>2, ViewKept
<1>12. CASE q # n
  <2>1. Local(w, "store", [y EXCEPT !.cell = c, !.qty = n, !.kind = k, !.prev = q])
    BY <1>6, <1>7, <1>12
  <2>2. PICK t \in Tx : t = [y EXCEPT !.cell = c, !.qty = n, !.kind = k, !.prev = q]
    BY <1>3, <2>1
  <2>3. /\ t.cell = c /\ t.qty = n /\ t.kind = k /\ t.line = i /\ t.todo = {}
        /\ t.diff = x.diff \ {i} /\ t.dto = x.dto /\ t.task = x.task /\ t.scope = x.scope
        /\ t.cnt = x.cnt /\ t.put = x.put /\ Local(w, "store", t)
    BY <1>2, <1>3, <1>4, <2>1, <2>2 DEF Tx
  <2>4. Counts("store", t)
    BY <1>3, <2>3 DEF Settling, Counts
  <2>5. AtHand("store", t)
    BY <1>2, <1>3, <1>4, <1>10, <2>3 DEF AtHand
  <2>6. \A j \in LineIds : Open(j, "store", t) <=> Open(j, "adjust", x)
    BY <1>1, <1>2, <1>3, <1>4, <2>3 DEF Open
  <2>7. \A b \in Cells : View(stock, t, b) = View(stock, x, b)
    BY <1>11, <2>3
  <2>8. Settling("store", t)
    BY <1>3, <1>4, <2>3, <2>4, <2>5, <2>6, <2>7 DEF Settling
  <2> QED
    BY <2>3, <2>8, SettleLocal
<1>13. CASE q = n
  <2>1. Local(w, "adjust", y)
    BY <1>2, <1>3, <1>6, <1>7, <1>13 DEF InTask
  <2>2. PICK t \in Tx : t = y
    BY <1>3, <2>1
  <2>3. /\ t.todo = {} /\ t.diff = x.diff \ {i} /\ t.dto = x.dto /\ t.task = x.task
        /\ t.scope = x.scope /\ t.cnt = x.cnt /\ t.put = x.put /\ Local(w, "adjust", t)
    BY <1>2, <1>3, <1>4, <2>1, <2>2 DEF Tx
  <2>4. Counts("adjust", t) /\ AtHand("adjust", t)
    BY <1>3, <2>3 DEF Settling, Counts, AtHand
  <2>5. /\ \A j \in LineIds : Open(j, "adjust", t) => Open(j, "adjust", x)
        /\ \A j \in LineIds \ {i} : Open(j, "adjust", x) => Open(j, "adjust", t)
    BY <1>4, <2>3 DEF Open
  <2>6. \A b \in Cells : View(stock, t, b) = View(stock, x, b)
    BY <1>11, <2>3
  <2>7. ASSUME Lone(i), OnePositive(c) PROVE View(stock, t, c) = t.cnt[i]
    <3>1. PICK r \in RowsOf(c) : r = <<c, k>>
      BY <1>8
    <3>2. \A s \in RowsOf(c) : s # r => s[2] # k
      BY <3>1, CountingAssumption DEF RowsOf
    <3>3. \A s \in RowsOf(c) : s # r => Seen(stock, x, s) = 0
      BY <1>9, <1>10, <2>7, <3>2 DEF Seen
    <3>4. View(stock, x, c) = Seen(stock, x, r)
      BY <1>3, <1>8, <3>3, ViewOfOne
    <3> QED
      BY <1>4, <1>8, <1>13, <2>3, <2>6, <3>1, <3>4
  <2>8. \A j \in LineIds :
          /\ t.cnt[j] \notin {None, lines[j].expected} /\ ~Open(j, "adjust", t)
          /\ Lone(j) /\ OnePositive(lines[j].cell)
          => View(stock, t, lines[j].cell) = t.cnt[j]
    <3>1. SUFFICES ASSUME NEW j \in LineIds, t.cnt[j] \notin {None, lines[j].expected},
                          ~Open(j, "adjust", t), Lone(j), OnePositive(lines[j].cell)
                   PROVE  View(stock, t, lines[j].cell) = t.cnt[j]
      OBVIOUS
    <3>2. CASE j = i
      BY <1>2, <2>7, <3>1, <3>2
    <3>3. CASE j # i
      BY <1>3, <1>4, <2>3, <2>5, <2>6, <3>1, <3>3 DEF Settling
    <3> QED
      BY <3>2, <3>3
  <2>9. \A j \in LineIds : Open(j, "adjust", t) /\ Lone(j) =>
          \A r \in RowsOf(lines[j].cell) : t.put[r] = None
    BY <1>3, <2>3, <2>5 DEF Settling
  <2>10. Settling("adjust", t)
    BY <2>4, <2>8, <2>9 DEF Settling
  <2> QED
    BY <2>3, <2>10, SettleLocal
<1> QED
  BY <1>12, <1>13

LEMMA SettleReadForCell ==
  ASSUME IInv, TInv, TInv', LInv, SInv, NEW w \in Workers, ReadForCell(w)
  PROVE  SInv'
<1>1. PICK x, c, n : x = tx[w] /\ c = tx[w].cell /\ n = tx[w].qty
  OBVIOUS
<1>2. /\ x \in Tx /\ Submits(x) /\ Settling("adjust", x) /\ x.task = NoTask
      /\ \A next, t : Local(w, next, t) => t \in Tx
  BY <1>1, LocalTyped DEF TInv, TypeOK, LInv, SInv, ReadForCell, InTask
<1>3. (\A i \in LineIds : x.cnt[i] = None) /\ x.diff = {} /\ x.todo = {}
  BY <1>2 DEF Submits, Settling, Counts
<1>4. ReadRow(w, c, n, x)
  BY <1>1 DEF ReadForCell
<1>5. PICK k \in StatusToAdjust(w, c) :
        LET q == StockIn(w, <<c, k>>)
        IN  IF q # n THEN Local(w, "store", [x EXCEPT !.cell = c, !.qty = n, !.kind = k, !.prev = q])
            ELSE IF InTask(w) THEN Local(w, "adjust", x) ELSE Refuse(w)
  BY <1>4 DEF ReadRow
<1>6. PICK q : q = StockIn(w, <<c, k>>)
  OBVIOUS
<1>7. Local(w, "store", [x EXCEPT !.cell = c, !.qty = n, !.kind = k, !.prev = q]) \/ Refuse(w)
  BY <1>1, <1>2, <1>5, <1>6 DEF InTask
<1>8. CASE Local(w, "store", [x EXCEPT !.cell = c, !.qty = n, !.kind = k, !.prev = q])
  <2>1. PICK t \in Tx : t = [x EXCEPT !.cell = c, !.qty = n, !.kind = k, !.prev = q]
    BY <1>2, <1>8
  <2>2. t.cnt = x.cnt /\ t.diff = {} /\ t.todo = {} /\ t.task = NoTask /\ Local(w, "store", t)
    BY <1>2, <1>3, <1>8, <2>1 DEF Tx
  <2>3. \A i \in LineIds : t.cnt[i] = None
    BY <1>3, <2>2
  <2>4. Settling("store", t)
    BY <2>2, <2>3, BlankSettles
  <2> QED
    BY <2>2, <2>4, SettleLocal
<1> QED
  BY <1>7, <1>8, SettleRefuse

\* The row is stored: it is what was counted, and the others of the cell have nothing.
LEMMA SettleStoreCounted ==
  ASSUME IInv, TInv, TInv', LInv, SInv, NEW w \in Workers, StoreCounted(w)
  PROVE  SInv'
<1>1. PICK x, c, r, d : /\ x = tx[w] /\ c = tx[w].cell /\ r = <<tx[w].cell, tx[w].kind>>
                        /\ d = Difference(w)
  OBVIOUS
<1>2. /\ x \in Tx /\ Writes("store", x) /\ Submits(x) /\ Settling("store", x) /\ x.task # NoTask
      /\ stock \in [Rows -> Nat] /\ \A next, t : Local(w, next, t) => t \in Tx
  BY <1>1, LocalTyped DEF TInv, TypeOK, LInv, SInv, StoreCounted, InTask
<1>3. PICK i \in LineIds : i = x.line
  BY <1>2 DEF Settling, AtHand
<1>4. /\ r \in Rows /\ c \in Cells /\ r = <<c, x.kind>> /\ r \in RowsOf(c) /\ x.todo = {}
      /\ i \notin x.diff /\ lines[i].task = x.task /\ c = lines[i].cell /\ x.qty = x.cnt[i]
      /\ x.qty \in Nat /\ x.qty # None
      /\ Lone(i) /\ OnePositive(c) => \A s \in RowsOf(c) : s[2] # x.kind => stock[s] = 0
  BY <1>1, <1>2, <1>3 DEF Writes, Tx, RowsOf, Settling, AtHand, None
<1>5. Local(w, "adjust", [tx[w] EXCEPT !.put[r] = tx[w].qty, !.log[r[1]] = @ + d,
          !.line = NoLine, !.cell = NoTx.cell, !.qty = None, !.kind = "AVAILABLE", !.prev = 0])
  BY <1>1 DEF StoreCounted
<1>6. PICK put, log : /\ put = [x.put EXCEPT ![r] = x.qty]
                      /\ log = [x.log EXCEPT ![c] = x.log[c] + d]
  OBVIOUS
<1>a. /\ put = [tx[w].put EXCEPT ![r] = tx[w].qty]
      /\ log = [tx[w].log EXCEPT ![c] = tx[w].log[c] + d]
      /\ r[1] = c
  BY <1>1, <1>6
<1>b. Local(w, "adjust", [tx[w] EXCEPT !.put = put, !.log = log, !.line = NoLine,
          !.cell = NoTx.cell, !.qty = None, !.kind = "AVAILABLE", !.prev = 0])
  BY <1>5, <1>a
<1>7. Local(w, "adjust", [x EXCEPT !.put = put, !.log = log, !.line = NoLine,
          !.cell = NoTx.cell, !.qty = None, !.kind = "AVAILABLE", !.prev = 0])
  BY <1>1, <1>b
<1>8. PICK t \in Tx : t = [x EXCEPT !.put = put, !.log = log, !.line = NoLine,
          !.cell = NoTx.cell, !.qty = None, !.kind = "AVAILABLE", !.prev = 0]
  BY <1>2, <1>7
<1>9. /\ t.put = put /\ t.task = x.task /\ t.scope = x.scope /\ t.todo = {} /\ t.diff = x.diff
      /\ t.dto = x.dto /\ t.cnt = x.cnt /\ Local(w, "adjust", t)
  BY <1>2, <1>4, <1>7, <1>8 DEF Tx
<1>10. t.put[r] = x.qty /\ \A s \in Rows \ {r} : t.put[s] = x.put[s]
  BY <1>2, <1>4, <1>6, <1>9 DEF Tx
<1>11. Counts("adjust", t) /\ AtHand("adjust", t)
  BY <1>2, <1>9 DEF Settling, Counts, AtHand
<1>12. /\ \A j \in LineIds : Open(j, "adjust", t) => j # i /\ Open(j, "store", x)
       /\ Open(i, "store", x)
       /\ \A j \in LineIds \ {i} : Open(j, "store", x) => Open(j, "adjust", t)
  BY <1>2, <1>3, <1>4, <1>9 DEF Open
<1>13. ASSUME NEW j \in LineIds \ {i}, t.cnt[j] # None \/ Open(j, "adjust", t), Lone(j)
       PROVE  lines[j].cell \in Cells /\ \A s \in RowsOf(lines[j].cell) : s \in Rows \ {r}
  <2>1. lines[j].cell \in Cells
    BY TypedRows DEF RowsTyped, Line
  <2>2. lines[j].task = x.task
    BY <1>2, <1>9, <1>13 DEF Settling, Counts, Open, Submits
  <2>3. lines[j].cell # c
    BY <1>3, <1>4, <1>13, <2>2 DEF Lone, Only
  <2> QED
    BY <1>4, <2>1, <2>3 DEF RowsOf
<1>14. \A j \in LineIds : Open(j, "adjust", t) /\ Lone(j) =>
         \A s \in RowsOf(lines[j].cell) : t.put[s] = None
  BY <1>2, <1>10, <1>12, <1>13 DEF Settling
<1>15. ASSUME NEW j \in LineIds, t.cnt[j] \notin {None, lines[j].expected},
              ~Open(j, "adjust", t), Lone(j), OnePositive(lines[j].cell)
       PROVE  View(stock, t, lines[j].cell) = t.cnt[j]
  <2>1. CASE j = i
    <3>1. \A s \in RowsOf(c) : x.put[s] = None /\ s \in Rows
      BY <1>2, <1>4, <1>12, <1>15, <2>1 DEF Settling, RowsOf
    <3>2. \A s \in RowsOf(c) : s # r => s[2] # x.kind
      BY <1>4, CountingAssumption DEF RowsOf
    <3>3. \A s \in RowsOf(c) : s # r => Seen(stock, t, s) = 0
      BY <1>4, <1>10, <1>15, <2>1, <3>1, <3>2 DEF Seen
    <3>4. View(stock, t, c) = Seen(stock, t, r)
      BY <1>2, <1>4, <3>3, ViewOfOne
    <3>5. Seen(stock, t, r) = x.cnt[i]
      BY <1>4, <1>10 DEF Seen
    <3> QED
      BY <1>4, <1>9, <2>1, <3>4, <3>5
  <2>2. CASE j # i
    <3>1. lines[j].cell \in Cells /\ \A s \in RowsOf(lines[j].cell) : s \in Rows \ {r}
      BY <1>13, <1>15, <2>2
    <3>2. \A s \in RowsOf(lines[j].cell) : Seen(stock, t, s) = Seen(stock, x, s)
      BY <1>10, <3>1 DEF Seen
    <3>3. PICK b \in Cells : b = lines[j].cell
      BY <3>1
    <3>4. View(stock, t, b) = View(stock, x, b)
      BY <1>2, <3>2, <3>3, ViewKept
    <3>5. View(stock, x, b) = x.cnt[j]
      BY <1>2, <1>9, <1>12, <1>15, <2>2, <3>3 DEF Settling
    <3> QED
      BY <1>9, <3>3, <3>4, <3>5
  <2> QED
    BY <2>1, <2>2
<1>16. Settling("adjust", t)
  BY <1>11, <1>14, <1>15 DEF Settling
<1> QED
  BY <1>9, <1>16, SettleLocal

LEMMA SettleStatement ==
  ASSUME IInv, TInv, TInv', LInv, SInv, NEW w \in Workers, Statement(w)
  PROVE  SInv'
<1>1. CASE InsertTask(w) \/ InsertLine(w) \/ Start(w) \/ Commit(w)
  BY <1>1, SettleRequests, SettleCommit
<1>2. CASE ReadExpected(w) \/ ReadPending(w) \/ FindLine(w) \/ ReadRemaining(w)
           \/ LeaveLines(w) \/ ReadTotal(w)
  BY <1>2, SettleReads
<1>3. CASE CountLine(w) \/ ReadForLine(w) \/ ReadForCell(w) \/ StoreCounted(w)
  BY <1>3, SettleCountLine, SettleReadForLine, SettleReadForCell, SettleStoreCounted
<1>4. CASE StoreRow(w) \/ LogMovement(w) \/ RecordAdjustment(w)
  BY <1>4, SettleAdjustment
<1> QED
  BY <1>1, <1>2, <1>3, <1>4 DEF Statement

LEMMA SInvStep == IInv /\ TInv /\ TInv' /\ LInv /\ SInv /\ [Next]_vars => SInv'
<1> SUFFICES ASSUME IInv, TInv, TInv', LInv, SInv, [Next]_vars PROVE SInv'
  OBVIOUS
<1>1. CASE UNCHANGED vars
  <2>1. UNCHANGED <<lines, pc, tx>> /\ disturbed' = disturbed
        /\ UNCHANGED <<stock, logged, adjusted, shelf>>
    BY <1>1 DEF vars, rows
  <2>2. disturbed \subseteq disturbed' /\ \A c \in Cells : Untouched(c)
    BY <2>1 DEF Untouched
  <2> QED
    BY <2>1, <2>2, SettleOutside
<1>2. ASSUME NEW c \in Cells, Reserve(c) \/ Pick(c) PROVE SInv'
  BY <1>2, SettleStock
<1>3. ASSUME NEW t \in Tasks, CreateTask(t) \/ Cancel(t) PROVE SInv'
  BY <1>3, SettleStatus
<1>4. ASSUME NEW w \in Workers,
             \/ \E t \in Tasks :
                  \/ \E cs \in Batches, suggested \in BOOLEAN : ReadRows(w, t, cs, suggested)
                  \/ \E c \in Cells : AddLine(w, t, c)
                  \/ ReadStart(w, t)
                  \/ \E ids \in SUBSET LineIds : ReadTask(w, t, ids)
             \/ \E p \in Targets : Adjust(w, p[1], p[2])
             \/ \E p \in Changes : AdjustBy(w, p[1], p[2])
      PROVE  SInv'
  BY <1>4, SettleBeginnings
<1>5. ASSUME NEW w \in Workers, Statement(w) \/ Fail(w) PROVE SInv'
  BY <1>5, SettleStatement, SettleFail
<1> QED
  BY <1>1, <1>2, <1>3, <1>4, <1>5 DEF Next

LEMMA SettlesAlways == Spec => []SInv
<1>1. Init => SInv
  BY InitSInv
<1>2. IInv /\ TInv /\ TInv' /\ LInv /\ SInv /\ [Next]_vars => SInv'
  BY SInvStep
<1> QED
  BY <1>1, <1>2, Inductive, LedgerAlways, PTL DEF Spec

-----------------------------------------------------------------------------
Settles ==
  \A i \in LineIds :
    /\ lines[i].counted = None /\ lines'[i].counted \notin {None, lines[i].expected}
    /\ Calm(lines[i].cell) /\ Calm(lines[i].task)
    /\ Cardinality({r \in RowsOf(lines[i].cell) : stock[r] > 0}) <= 1
    /\ \A j \in LineIds \ {i} : lines[j].task = lines[i].task => lines[j].cell # lines[i].cell
    => Total(lines[i].cell)' = lines'[i].counted

\* A line that is new, or not written, has no count that it had not before.
LEMMA InsertCounts ==
  ASSUME NEW new, NEW t, Insert(new, t), NEW i \in LineIds, lines[i].counted = None
  PROVE  lines'[i].counted = None
<1>1. PICK ids, f :
        lines' = [k \in LineIds |->
          IF k \in ids THEN [task |-> t, cell |-> f[k].cell, expected |-> f[k].expected,
                             counted |-> None]
                       ELSE lines[k]]
  BY DEF Insert
<1>2. lines'[i] = IF i \in ids THEN [task |-> t, cell |-> f[i].cell, expected |-> f[i].expected,
                                     counted |-> None]
                               ELSE lines[i]
  BY <1>1
<1>3. CASE i \in ids
  BY <1>2, <1>3
<1>4. CASE i \notin ids
  BY <1>2, <1>4
<1> QED
  BY <1>3, <1>4

LEMMA AtMostOnePositive ==
  ASSUME NEW c \in Cells, Cardinality({r \in RowsOf(c) : stock[r] > 0}) <= 1
  PROVE  OnePositive(c)
<1>1. PICK P : P = {r \in RowsOf(c) : stock[r] > 0}
  OBVIOUS
<1>2. IsFiniteSet(P) /\ Cardinality(P) <= 1 /\ Cardinality(P) \in Nat
  <2>1. P \subseteq Rows
    BY <1>1 DEF RowsOf
  <2> QED
    BY <1>1, <2>1, CountingAssumption, FS_Subset, FS_CardinalityType
<1>3. ASSUME NEW r \in P, NEW s \in P PROVE r = s
  <2>1. CASE Cardinality(P) = 0
    BY <1>2, <2>1, FS_EmptySet
  <2>2. CASE Cardinality(P) = 1
    BY <1>2, <2>2, FS_Singleton
  <2> QED
    BY <1>2, <2>1, <2>2
<1> QED
  BY <1>1, <1>3 DEF OnePositive

LEMMA SettlesStep == IInv /\ TInv /\ LInv /\ SInv /\ [Next]_vars => Settles
<1> SUFFICES ASSUME IInv, TInv, LInv, SInv, [Next]_vars,
                    NEW i \in LineIds, lines[i].counted = None,
                    lines'[i].counted \notin {None, lines[i].expected}, Calm(lines[i].cell),
                    Cardinality({r \in RowsOf(lines[i].cell) : stock[r] > 0}) <= 1,
                    \A j \in LineIds \ {i} :
                      lines[j].task = lines[i].task => lines[j].cell # lines[i].cell
             PROVE  Total(lines[i].cell)' = lines'[i].counted
  BY DEF Settles
<1>1. \/ lines' = lines
      \/ \E w \in Workers : InsertTask(w) \/ InsertLine(w) \/ Commit(w)
  BY NextWrites
<1>2. ASSUME NEW w \in Workers, InsertTask(w) \/ InsertLine(w) PROVE FALSE
  <2>1. PICK new, t : Insert(new, t)
    BY <1>2 DEF InsertTask, InsertLine
  <2> QED
    BY <2>1, InsertCounts
<1>3. PICK w \in Workers : Commit(w)
  BY <1>1, <1>2
<1>4. PICK t, c : t = tx[w] /\ c = lines[i].cell
  OBVIOUS
<1>5. t \in Tx /\ Writes("commit", t) /\ Settling("commit", t) /\ c \in Cells
  BY <1>3, <1>4, TypedRows DEF TInv, TypeOK, LInv, SInv, Commit, RowsTyped, Line
<1>6. /\ lines'[i].cell = c /\ lines'[i].counted = CountedIn(w, i)
  <2>1. lines'[i] = [task |-> lines[i].task, cell |-> lines[i].cell,
                     expected |-> lines[i].expected, counted |-> CountedIn(w, i)]
    BY <1>3, CommitLines
  <2> QED
    BY <1>4, <2>1
<1>7. t.cnt[i] = lines'[i].counted
  BY <1>4, <1>6 DEF CountedIn
<1>8. ~Open(i, "commit", t)
  BY <1>5 DEF Open, Writes, Settling, Counts
<1>9. Lone(i) /\ OnePositive(c)
  BY <1>4, <1>5, AtMostOnePositive DEF Lone, Only, Calm
<1>10. View(stock, t, c) = t.cnt[i]
  BY <1>4, <1>5, <1>7, <1>8, <1>9 DEF Settling
<1>11. stock' = [r \in Rows |-> Seen(stock, t, r)]
  BY <1>3, <1>4 DEF Commit, Seen, StockIn
<1> QED
  BY <1>6, <1>7, <1>10, <1>11 DEF Total, View, RowsOf

\* When the count of a line that differs from what was expected is committed, and no two
\* requests were at work on its cell at once, the cell holds what was counted, however
\* its stock moved since the line was made; if one row at most had stock, and the task
\* has no other line for the cell.
THEOREM CountsDecideTheStock == Spec => CountSettles
<1>1. IInv /\ TInv /\ LInv /\ SInv /\ [Next]_vars => [Settles]_<<lines>>
  BY SettlesStep
<1>2. Spec => [][Settles]_<<lines>>
  BY <1>1, Inductive, LedgerAlways, SettlesAlways, PTL DEF Spec
<1> QED
  BY <1>2 DEF CountSettles, Settles
=============================================================================
