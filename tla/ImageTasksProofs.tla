--------------------------- MODULE ImageTasksProofs ---------------------------
(***************************************************************************)
(* Theorems about ImageTasks, for any number of pages and of images that   *)
(* fit into memory, and without a bound on results or tasks that wait.     *)
(***************************************************************************)
EXTENDS ImageTasks, FiniteSetTheorems, SequenceTheorems, TLAPS

-----------------------------------------------------------------------------
(* Sequences.                                                              *)

\* What is in a sequence is its head or in its tail.
LEMMA HeadOrTail ==
    ASSUME NEW S, NEW s \in Seq(S), s # <<>>
    PROVE  /\ Head(s) \in S /\ Tail(s) \in Seq(S) /\ Len(s) \in Nat \ {0}
           /\ Len(Tail(s)) = Len(s) - 1
           /\ \A i \in DOMAIN s :
                s[i] = Head(s) \/ \E j \in DOMAIN Tail(s) : Tail(s)[j] = s[i]
<1>1. Head(s) \in S /\ Tail(s) \in Seq(S) /\ Len(s) \in Nat \ {0} /\ Len(Tail(s)) = Len(s) - 1
  OBVIOUS
<1>2. ASSUME NEW i \in DOMAIN s, s[i] # Head(s)
      PROVE  \E j \in DOMAIN Tail(s) : Tail(s)[j] = s[i]
  <2>1. i \in 2..Len(s)
    BY <1>2
  <2>2. i - 1 \in DOMAIN Tail(s) /\ Tail(s)[i - 1] = s[i]
    BY <1>1, <2>1
  <2> QED
    BY <2>2
<1> QED
  BY <1>1, <1>2

\* An element is in a sequence.
Has(s, e) == \E i \in DOMAIN s : s[i] = e

\* An element is put at the end of a sequence, in which all others remain.
LEMMA AtTheEnd ==
    ASSUME NEW S, NEW s \in Seq(S), NEW e \in S
    PROVE  /\ Append(s, e) \in Seq(S)
           /\ \A i \in DOMAIN s : Has(Append(s, e), s[i])
           /\ Has(Append(s, e), e)
<1>1. Append(s, e) \in Seq(S) /\ Len(s) + 1 \in DOMAIN Append(s, e) /\ Append(s, e)[Len(s) + 1] = e
  OBVIOUS
<1>2. \A i \in DOMAIN s : i \in DOMAIN Append(s, e) /\ Append(s, e)[i] = s[i]
  OBVIOUS
<1> QED
  BY <1>1, <1>2 DEF Has

\* The same in front.
LEMMA InFront ==
    ASSUME NEW S, NEW s \in Seq(S), NEW e \in S
    PROVE  /\ <<e>> \o s \in Seq(S)
           /\ \A i \in DOMAIN s : Has(<<e>> \o s, s[i])
           /\ Has(<<e>> \o s, e)
<1>1. <<e>> \o s \in Seq(S) /\ 1 \in DOMAIN (<<e>> \o s) /\ (<<e>> \o s)[1] = e
  OBVIOUS
<1>2. \A i \in DOMAIN s : i + 1 \in DOMAIN (<<e>> \o s) /\ (<<e>> \o s)[i + 1] = s[i]
  OBVIOUS
<1> QED
  BY <1>1, <1>2 DEF Has

\* The empty sequence, and sequences of one element.
LEMMA Singles ==
    ASSUME NEW S
    PROVE  /\ <<>> \in Seq(S)
           /\ \A e \in S : <<e>> \in Seq(S) /\ <<e>> # <<>> /\ Head(<<e>>) = e
  OBVIOUS

\* The tasks of some pages, in any order, are a sequence of them.
LEMMA ListOfTasks ==
    ASSUME NEW S, IsFiniteSet(S)
    PROVE  SetToSeq(S) \in Seq(S)
<1>1. Cardinality(S) \in Nat /\ ExistsBijection(1..Cardinality(S), S)
  BY FS_CardinalityType
<1>2. PICK f \in [1..Cardinality(S) -> S] : IsInjective(f)
  BY <1>1 DEF ExistsBijection, Bijection, Injection, IsInjective
<1>3. SetToSeq(S) \in [1..Cardinality(S) -> S]
  BY <1>2 DEF SetToSeq
<1> QED
  BY <1>1, <1>3

-----------------------------------------------------------------------------
(* The invariant.                                                          *)

\* addTask() has a task to add until it has returned.
JobLeft == gui \in {"clear", "check", "abort", "put", "start"} => job # <<>>

\* Where the thread is tells what it holds: no task while it looks for one, a
\* stopped one before it deletes it, and a freed one until it forgets it.
ThreadHolds ==
    /\ thread \in {"off", "look", "take last", "leave", "take"} => cur = Nothing
    /\ thread \in {"switch", "exec", "render", "report"} => cur.status \in {"wait", "run", "stop"}
    /\ thread = "delete" => cur.status = "stop"
    /\ thread = "retrieve" => cur.status = "freed"
    /\ held # <<>> => thread \in {"take last", "take"}

\* NoTaskLeftBehind, also while addTask() and close() are under way, except
\* between prepend() or append() and the start of the thread.
NoneLeftBehind ==
    gui # "start" /\ queue # <<>> => late \/ (thread # "off" /\ ~Leaving)

Stopping == {"clear", "check", "abort"}

\* What is thrown away by clear() and abort() is replaced by the task to add.
Replaced == gui \in Stopping => Shows(Head(job))

\* One of the tasks in a sequence shows the page.
SomeShows(tasks) == \E i \in DOMAIN tasks : Shows(tasks[i])

\* The page's task is on its way through the thread, or its result is.
InThread ==
    \/ SomeShows(held)
    \/ Shows(cur.task) /\ cur.status \in {"wait", "run"}
    \/ Shows(cur.task) /\ thread \in {"render", "report"}
    \/ \E i \in DOMAIN ready : Shows(ready[i].task)

\* PageOnItsWay, also while addTask() is under way.
OnItsWay ==
    waiting /\ ~failed /\ gui \notin Stopping \cup {"closing", "closed", "crashed"} =>
        \/ SomeShows(queue) \/ InThread
        \/ gui = "put" /\ Shows(Head(job))

\* RenderTask::exec() does not drop the task of the page that is waited for.
WaitedForIsRequested == waiting => page \in requests

IInv ==
    /\ ImagesTypeOK
    /\ JobLeft
    /\ ThreadHolds
    /\ NoneLeftBehind
    /\ Replaced
    /\ OnItsWay
    /\ WaitedForIsRequested

-----------------------------------------------------------------------------
(* Types.                                                                  *)

\* Requests are numbers of pages, or of the page after the last one.
LEMMA RequestsTyped ==
    ASSUME ImagesTypeOK, NEW p \in Pages
    PROVE  RequestsFor(p) \subseteq 0..Total /\ p \in RequestsFor(p)
<1>1. p \in 0..Total /\ page \in 0..Total
  BY ImageAssumption DEF ImagesTypeOK, Pages
<1>2. \A q \in Int : AddRequest(q) \subseteq 0..Total
  BY ImageAssumption DEF AddRequest
<1> QED
  BY <1>1, <1>2 DEF RequestsFor, RenderRequests

\* What the view does keeps the types, and gives addTask() something to add.
LEMMA ViewTyped ==
    ASSUME ImagesTypeOK, JobLeft,
           \/ \E p \in Pages : Turn(p)
           \/ OnPrerendering \/ OnImageReady \/ CloseImages
    PROVE  ImagesTypeOK' /\ JobLeft'
<1> USE DEF imageThread, imageView
<1>1. ASSUME NEW p \in Pages, Turn(p) PROVE ImagesTypeOK' /\ JobLeft'
  <2>1. /\ requests' \subseteq 0..Total /\ rendering' \subseteq requests'
        /\ page' \in Pages /\ failed' \in BOOLEAN /\ waiting' \in BOOLEAN /\ timer' \in BOOLEAN
    BY <1>1, RequestsTyped DEF Turn, ImagesTypeOK
  <2>2. /\ gui' \in {"idle", "clear"} /\ job' \in Seq(Tasks)
        /\ gui' = "clear" => job' # <<>>
    <3>1. Task(p, TRUE) \in Tasks
      BY DEF Task, Tasks
    <3>2. <<Task(p, TRUE)>> \in Seq(Tasks) /\ <<Task(p, TRUE)>> # <<>>
      BY <3>1, Singles
    <3>3. \/ gui' = "idle" /\ job' = job
          \/ gui' = "clear" /\ job' = <<Task(p, TRUE)>>
      BY <1>1 DEF Turn
    <3>4. job \in Seq(Tasks)
      BY DEF ImagesTypeOK
    <3> QED
      BY <3>2, <3>3, <3>4
  <2>3. UNCHANGED <<queue, cur, held, thread, rendered, ready, late>>
    BY <1>1 DEF Turn
  <2> QED
    BY <2>1, <2>2, <2>3 DEF ImagesTypeOK, JobLeft
<1>2. CASE OnPrerendering
  <2> DEFINE some == {Task(p, FALSE) : p \in rendering \cap Pages}
  <2>1. IsFiniteSet(some) /\ some \subseteq Tasks
    <3>1. IsFiniteSet(Pages)
      BY ImageAssumption, FS_Interval DEF Pages
    <3>2. IsFiniteSet(rendering \cap Pages)
      BY <3>1, FS_Subset
    <3>3. IsFiniteSet(some)
      <4> DEFINE asked == rendering \cap Pages
                 f == [p \in asked |-> Task(p, FALSE)]
      <4>1. f \in Surjection(asked, some)
        BY DEF Surjection
      <4> QED
        BY <3>2, <4>1, FS_Surjection
    <3>4. \A p \in Pages : Task(p, FALSE) \in Tasks
      BY DEF Task, Tasks
    <3> QED
      BY <3>3, <3>4
  <2>2. job' = SetToSeq(some) /\ timer' = FALSE
        /\ gui' = IF job' = <<>> THEN "idle" ELSE "put"
    BY <1>2 DEF OnPrerendering
  <2>3. job' \in Seq(Tasks)
    <3> HIDE DEF some
    <3>1. SetToSeq(some) \in Seq(some)
      BY <2>1, ListOfTasks
    <3> QED
      BY <2>1, <2>2, <3>1
  <2>4. UNCHANGED <<page, waiting, requests, rendering, failed, queue, cur, held,
                    thread, rendered, ready, late>>
    BY <1>2 DEF OnPrerendering
  <2> QED
    BY <2>2, <2>3, <2>4 DEF ImagesTypeOK, JobLeft
<1>3. CASE OnImageReady
  <2>1. ready # <<>> /\ ready' = Tail(ready)
    BY <1>3 DEF OnImageReady
  <2>2. ready' \in Seq([task : Tasks, done : BOOLEAN])
    BY <2>1 DEF ImagesTypeOK
  <2>3. /\ waiting' \in BOOLEAN /\ timer' \in BOOLEAN /\ failed' \in BOOLEAN
        /\ rendering' \subseteq requests
    BY <1>3 DEF OnImageReady, ImagesTypeOK
  <2>4. UNCHANGED <<page, requests, gui, job, queue, cur, held, thread, rendered, late>>
    BY <1>3 DEF OnImageReady
  <2> QED
    BY <2>2, <2>3, <2>4 DEF ImagesTypeOK, JobLeft
<1>4. CASE CloseImages
  BY <1>4 DEF CloseImages, ImagesTypeOK, JobLeft
<1> QED
  BY <1>1, <1>2, <1>3, <1>4

\* The steps of addTask() and close() keep the types.
LEMMA AddTyped ==
    ASSUME ImagesTypeOK, JobLeft, AddTask \/ ClearTasks
    PROVE  ImagesTypeOK' /\ JobLeft'
<1> USE DEF imageThread, imageView
<1>1. CASE Clear \/ Check
  <2>1. queue' \in Seq(Tasks) /\ gui' \in {"check", "put", "abort"} /\ job # <<>>
    <3>1. queue' \in Seq(Tasks)
      <4>1. queue' = <<>> \/ queue' = queue
        BY <1>1 DEF Clear, Check
      <4>2. queue \in Seq(Tasks) /\ <<>> \in Seq(Tasks)
        BY Singles DEF ImagesTypeOK
      <4> QED
        BY <4>1, <4>2
    <3>2. gui \in {"clear", "check"} /\ gui' \in {"check", "put", "abort"}
      BY <1>1 DEF Clear, Check
    <3> QED
      BY <3>1, <3>2 DEF JobLeft
  <2>2. UNCHANGED <<page, waiting, requests, rendering, timer, failed, job, cur,
                    held, thread, rendered, ready, late>>
    BY <1>1 DEF Clear, Check
  <2> QED
    BY <2>1, <2>2 DEF ImagesTypeOK, JobLeft
<1>2. CASE Abort
  <2>1. cur' \in [task : Tasks, status : {"none", "wait", "run", "stop", "freed"}]
    BY <1>2 DEF Abort, ImagesTypeOK
  <2>2. gui' \in {"put", "crashed"} /\ gui = "abort"
    BY <1>2 DEF Abort
  <2>3. UNCHANGED <<page, waiting, requests, rendering, timer, failed, job, queue,
                    held, thread, rendered, ready, late>>
    BY <1>2 DEF Abort
  <2> QED
    BY <2>1, <2>2, <2>3 DEF ImagesTypeOK, JobLeft
<1>3. CASE Put
  <2>1. job \in Seq(Tasks) /\ job # <<>> /\ queue \in Seq(Tasks)
    BY <1>3 DEF Put, ImagesTypeOK, JobLeft
  <2>2. Head(job) \in Tasks
    BY <2>1
  <2>3. queue' \in Seq(Tasks)
    BY <1>3, <2>1, <2>2 DEF Put, With
  <2> QED
    BY <1>3, <2>1, <2>3 DEF Put, ImagesTypeOK, JobLeft
<1>4. CASE Start
  <2>1. job \in Seq(Tasks) /\ job # <<>>
    BY <1>4 DEF Start, ImagesTypeOK, JobLeft
  <2>2. /\ Tail(job) \in Seq(Tasks) /\ Len(job) \in Nat \ {0}
        /\ Len(Tail(job)) = Len(job) - 1
    BY <2>1, HeadOrTail
  <2>3. job' \in Seq(Tasks) /\ gui' \in {"idle", "put"} /\ (gui' = "put" => job' # <<>>)
    BY <1>4, <2>2 DEF Start
  <2>4. thread' \in Steps /\ late' \in BOOLEAN
    BY <1>4 DEF Start, Leaving, Steps, ImagesTypeOK
  <2>5. UNCHANGED <<page, waiting, requests, rendering, timer, failed, queue, cur,
                    held, rendered, ready>>
    BY <1>4 DEF Start
  <2> QED
    BY <2>3, <2>4, <2>5 DEF ImagesTypeOK, JobLeft
<1>5. CASE ClearTasks
  <2>1. cur' \in [task : Tasks, status : {"none", "wait", "run", "stop", "freed"}]
    BY <1>5, ImageAssumption DEF ClearTasks, Nothing, Task, Tasks, Pages
  <2> QED
    BY <1>5, <2>1 DEF ClearTasks, ImagesTypeOK, JobLeft
<1> QED
  BY <1>1, <1>2, <1>3, <1>4, <1>5 DEF AddTask

\* What retrieveNextTask() takes out of the queue is a task, and no more than one.
LEMMA GrabTyped ==
    ASSUME queue \in Seq(Tasks), GrabFront
    PROVE  /\ queue' \in Seq(Tasks) /\ held' \in Seq(Tasks) /\ Len(held') <= 1
           /\ held' = <<>> <=> queue = <<>>
<1>1. CASE queue = <<>> /\ held' = <<>> /\ UNCHANGED queue
  BY <1>1
<1>2. CASE queue # <<>> /\ held' = <<Head(queue)>> /\ queue' = Tail(queue)
  <2>1. Head(queue) \in Tasks /\ Tail(queue) \in Seq(Tasks)
    BY <1>2, HeadOrTail
  <2>2. held' \in Seq(Tasks) /\ held' # <<>> /\ Len(held') = 1
    BY <1>2, <2>1, Singles
  <2> QED
    BY <1>2, <2>1, <2>2
<1> QED
  BY <1>1, <1>2 DEF GrabFront

CurTyped == cur \in [task : Tasks, status : {"none", "wait", "run", "stop", "freed"}]

LEMMA NothingTyped ==
    /\ Nothing \in [task : Tasks, status : {"none", "wait", "run", "stop", "freed"}]
    /\ Nothing.status = "none"
  BY ImageAssumption DEF Nothing, Task, Tasks, Pages

\* The task that was taken out becomes the current one.
LEMMA AssignTyped ==
    ASSUME held \in Seq(Tasks), Assign
    PROVE  CurTyped' /\ held' = <<>>
<1>1. CASE held = <<>>
  BY <1>1, NothingTyped DEF Assign, CurTyped
<1>2. CASE held # <<>>
  <2>1. held[1] \in Tasks
    BY <1>2
  <2> QED
    BY <1>2, <2>1 DEF Assign, CurTyped
<1> QED
  BY <1>1, <1>2

\* The steps of the thread keep the types, and the job of the other thread.
LEMMA ExecuteTyped ==
    ASSUME ImagesTypeOK, JobLeft, Execute
    PROVE  ImagesTypeOK' /\ JobLeft'
<1> USE DEF imageView
<1>1. /\ UNCHANGED <<page, waiting, requests, rendering, timer, failed, gui, job, late>>
      /\ thread' \in Steps
  BY DEF Execute, Look, TakeLast, Leave, Switch, Handled, Exec, Render, RenderFails,
         Report, Delete, Retrieve, Take, Steps
<1>2. queue' \in Seq(Tasks) /\ held' \in Seq(Tasks) /\ Len(held') <= 1
  <2>1. CASE Look \/ Retrieve
    BY <2>1, GrabTyped DEF Look, Retrieve, ImagesTypeOK
  <2>2. CASE TakeLast \/ Take
    <3>1. queue' = queue /\ held' = <<>>
      BY <2>2 DEF TakeLast, Take, Assign
    <3> QED
      BY <3>1, Singles DEF ImagesTypeOK
  <2>3. CASE UNCHANGED <<queue, held>>
    BY <2>3 DEF ImagesTypeOK
  <2> QED
    BY <2>1, <2>2, <2>3
    DEF Execute, Leave, Switch, Exec, Render, RenderFails, Report, Delete
<1>3. CurTyped'
  <2>1. CurTyped /\ held \in Seq(Tasks)
    BY DEF CurTyped, ImagesTypeOK
  <2>2. CASE TakeLast \/ Take
    BY <2>1, <2>2, AssignTyped DEF TakeLast, Take
  <2>3. CASE Exec \/ Report \/ Delete
    BY <2>1, <2>3 DEF CurTyped, Exec, Report, Delete
  <2>4. CASE cur' = Nothing
    BY <2>4, NothingTyped DEF CurTyped
  <2>5. CASE cur' = cur
    BY <2>1, <2>5 DEF CurTyped
  <2> QED
    BY <2>2, <2>3, <2>4, <2>5
    DEF Execute, Look, Leave, Switch, Render, RenderFails, Retrieve
<1>4. rendered' \subseteq Pages
  <2>1. cur.task.page \in Pages /\ rendered \subseteq Pages
    BY DEF ImagesTypeOK, Tasks
  <2>2. CASE Render \/ RenderFails
    BY <2>1, <2>2 DEF Render, RenderFails, Kept
  <2>3. CASE rendered' = rendered
    BY <2>1, <2>3
  <2> QED
    BY <2>2, <2>3 DEF Execute, Look, TakeLast, Leave, Switch, Exec, Report, Delete,
                      Retrieve, Take
<1>5. ready' \in Seq([task : Tasks, done : BOOLEAN])
  <2>1. CASE Report
    <3>1. cur.task \in Tasks
      BY DEF ImagesTypeOK
    <3>2. [task |-> cur.task, done |-> cur.task.page \in rendered]
            \in [task : Tasks, done : BOOLEAN]
      BY <3>1
    <3> QED
      BY <2>1, <3>2, AtTheEnd DEF Report, ImagesTypeOK
  <2>2. CASE ready' = ready
    BY <2>2 DEF ImagesTypeOK
  <2> QED
    BY <2>1, <2>2 DEF Execute, Look, TakeLast, Leave, Switch, Exec, Render,
                      RenderFails, Delete, Retrieve, Take
<1> QED
  BY <1>1, <1>2, <1>3, <1>4, <1>5 DEF ImagesTypeOK, JobLeft, CurTyped

LEMMA TypeStep ==
    ASSUME ImagesTypeOK, JobLeft, [NextImages]_imageVars
    PROVE  ImagesTypeOK' /\ JobLeft'
<1>1. CASE Over \/ UNCHANGED imageVars
  BY <1>1 DEF Over, imageVars, ImagesTypeOK, JobLeft
<1> QED
  BY <1>1, ViewTyped, AddTyped, ExecuteTyped DEF NextImages, ImageUser

-----------------------------------------------------------------------------
(* What the thread holds.                                                  *)

\* The other thread stops the current task, or forgets it after the thread.
LEMMA OthersHold ==
    ASSUME ImagesTypeOK, ThreadHolds,
           \/ ImageUser \/ OnPrerendering \/ OnImageReady \/ AddTask \/ ClearTasks
           \/ Over \/ UNCHANGED imageVars
    PROVE  ThreadHolds'
<1>1. CASE ImageUser \/ OnPrerendering \/ OnImageReady \/ Clear \/ Check \/ Put
           \/ Over \/ UNCHANGED imageVars
  <2>1. UNCHANGED <<cur, held, thread>>
    BY <1>1 DEF ImageUser, Turn, CloseImages, OnPrerendering, OnImageReady, Clear,
                Check, Put, Over, imageVars, imageThread
  <2> QED
    BY <2>1 DEF ThreadHolds
<1>2. CASE Abort
  <2>1. UNCHANGED <<held, thread>>
    BY <1>2 DEF Abort, imageThread
  <2>2. CASE cur.status \notin {"none", "freed"} /\ cur' = [cur EXCEPT !.status = "stop"]
    <3>2. cur # Nothing /\ cur.status # "freed"
      BY <2>2, NothingTyped
    <3>3. thread \notin {"off", "look", "take last", "leave", "take", "retrieve"}
      BY <3>2 DEF ThreadHolds
    <3>4. cur'.status = "stop"
      BY <2>2 DEF ImagesTypeOK
    <3> QED
      BY <2>1, <3>3, <3>4 DEF ThreadHolds
  <2>3. CASE UNCHANGED cur
    BY <2>1, <2>3 DEF ThreadHolds
  <2> QED
    BY <1>2, <2>2, <2>3 DEF Abort
<1>3. CASE Start
  BY <1>3 DEF Start, IsRunning, ThreadHolds
<1>4. CASE ClearTasks
  BY <1>4 DEF ClearTasks, Stopped, imageThread, ThreadHolds
<1> QED
  BY <1>1, <1>2, <1>3, <1>4 DEF AddTask

\* The thread goes from task to task, and holds none when it ends.
LEMMA ExecuteHolds ==
    ASSUME ImagesTypeOK, ThreadHolds, Execute
    PROVE  ThreadHolds'
<1> USE DEF ThreadHolds
<1>1. CASE Look \/ Retrieve
  BY <1>1 DEF Look, Retrieve, Nothing
<1>2. CASE TakeLast \/ Take
  <2>1. cur' = (IF held = <<>> THEN Nothing ELSE [task |-> held[1], status |-> "wait"])
        /\ held' = <<>>
    BY <1>2 DEF TakeLast, Take, Assign
  <2>2. thread' = IF held = <<>> THEN (IF thread = "take" THEN "look" ELSE "leave")
                  ELSE "switch"
    BY <1>2 DEF TakeLast, Take
  <2> QED
    BY <2>1, <2>2
<1>3. CASE Leave
  BY <1>3 DEF Leave
<1>4. CASE Switch
  BY <1>4 DEF Switch, Handled
<1>5. CASE Exec \/ Report \/ Delete
  <2>1. \A new : [cur EXCEPT !.status = new].status = new
    BY DEF ImagesTypeOK
  <2> QED
    BY <1>5, <2>1 DEF Exec, Report, Delete
<1>6. CASE Render \/ RenderFails
  BY <1>6 DEF Render, RenderFails
<1> QED
  BY <1>1, <1>2, <1>3, <1>4, <1>5, <1>6 DEF Execute

LEMMA HoldsStep ==
    ASSUME ImagesTypeOK, ThreadHolds, [NextImages]_imageVars
    PROVE  ThreadHolds'
  BY OthersHold, ExecuteHolds DEF NextImages

-----------------------------------------------------------------------------
(* No task is left behind.                                                 *)

\* A thread that may leave has found the queue empty, and what is put into it
\* later is followed by a start of the thread, or is late.
LEMMA LeftBehindStep ==
    ASSUME ThreadHolds, NoneLeftBehind, [NextImages]_imageVars
    PROVE  NoneLeftBehind'
<1> USE DEF NoneLeftBehind, Leaving
<1>1. CASE ImageUser \/ OnPrerendering \/ OnImageReady \/ Check \/ Abort
           \/ Over \/ UNCHANGED imageVars
  <2>1. UNCHANGED <<queue, held, thread, late>> /\ (gui = "start" => gui' = "start")
    BY <1>1 DEF ImageUser, Turn, CloseImages, OnPrerendering, OnImageReady, Check,
                Abort, Over, imageVars, imageThread
  <2> QED
    BY <2>1
<1>2. CASE Clear \/ ClearTasks
  BY <1>2 DEF Clear, ClearTasks
<1>3. CASE Put
  BY <1>3 DEF Put
<1>4. CASE Start
  BY <1>4 DEF Start, IsRunning, imageView
<1>5. CASE Look \/ Retrieve
  <2>1. queue' = <<>> \/ held' # <<>>
    <3>1. \A e : <<e>> # <<>>
      OBVIOUS
    <3>2. GrabFront
      BY <1>5 DEF Look, Retrieve
    <3> QED
      BY <3>1, <3>2, Zenon DEF GrabFront
  <2>2. thread' \in {"take last", "take"}
    BY <1>5 DEF Look, Retrieve
  <2> QED
    BY <2>1, <2>2
<1>6. CASE TakeLast
  BY <1>6 DEF TakeLast, Assign
<1>7. CASE Take
  BY <1>7 DEF Take, Assign
<1>8. CASE Leave
  BY <1>8 DEF Leave
<1>9. CASE Switch \/ Exec \/ Render \/ RenderFails \/ Report \/ Delete
  <2>1. UNCHANGED <<gui, queue, late>> /\ thread' \notin {"off", "leave", "take last"}
        /\ thread \notin {"off", "leave", "take last"}
    BY <1>9 DEF Switch, Handled, Exec, Render, RenderFails, Report, Delete
  <2> QED
    BY <2>1
<1> QED
  BY <1>1, <1>2, <1>3, <1>4, <1>5, <1>6, <1>7, <1>8, <1>9
  DEF NextImages, AddTask, Execute

-----------------------------------------------------------------------------
(* The page that is waited for.                                            *)

\* What neither side does to the page, its requests and the wait for it.
LEMMA RequestedStep ==
    ASSUME ImagesTypeOK, WaitedForIsRequested, [NextImages]_imageVars
    PROVE  WaitedForIsRequested'
<1> USE DEF WaitedForIsRequested
<1>1. ASSUME NEW p \in Pages, Turn(p) PROVE WaitedForIsRequested'
  BY <1>1, RequestsTyped DEF Turn
<1>2. CASE OnImageReady
  BY <1>2 DEF OnImageReady
<1>3. CASE UNCHANGED <<waiting, page, requests>>
  BY <1>3
<1> QED
  BY <1>1, <1>2, <1>3
  DEF NextImages, ImageUser, CloseImages, OnPrerendering, AddTask, Clear, Check,
      Abort, Put, Start, ClearTasks, Execute, Look, TakeLast, Leave, Switch, Exec,
      Render, RenderFails, Report, Delete, Retrieve, Take, Over, imageVars, imageView

\* Before clear() and abort() throw anything away, the task for the page is made.
LEMMA ReplacedStep ==
    ASSUME Replaced, [NextImages]_imageVars
    PROVE  Replaced'
<1> USE DEF Replaced, Stopping, Shows
<1>1. ASSUME NEW p \in Pages, Turn(p) PROVE Replaced'
  <2>1. page' = p
    BY <1>1 DEF Turn
  <2>2. CASE gui' = gui
    BY <1>1, <2>2 DEF Turn
  <2>3. CASE job' = <<Task(p, TRUE)>>
    <3>1. Head(job') = Task(p, TRUE)
      BY <2>3, Singles
    <3> QED
      BY <2>1, <3>1 DEF Task
  <2> QED
    BY <1>1, <2>2, <2>3 DEF Turn
<1>2. CASE UNCHANGED <<page, job>> /\ (gui' \in Stopping => gui \in Stopping)
  BY <1>2
<1>3. CASE OnPrerendering \/ OnImageReady \/ Start
  BY <1>3 DEF OnPrerendering, OnImageReady, Start
<1> QED
  BY <1>1, <1>2, <1>3
  DEF NextImages, ImageUser, CloseImages, AddTask, Clear, Check,
      Abort, Put, ClearTasks, Execute, Look, TakeLast, Leave, Switch, Exec,
      Render, RenderFails, Report, Delete, Retrieve, Take, Over, imageVars, imageView

\* addTask() puts the task for the page into the queue, before it or after, and
\* loses none that is there.
LEMMA AddOnItsWay ==
    ASSUME IInv, AddTask
    PROVE  OnItsWay'
<1> USE DEF OnItsWay, Stopping
<1>1. UNCHANGED <<page, waiting, failed>>
  BY DEF AddTask, Clear, Check, Abort, Put, Start, imageView
<1>2. CASE Clear
  BY <1>2 DEF Clear
<1>3. CASE Check \/ Abort
  <2>1. gui \in Stopping /\ UNCHANGED job
    BY <1>3 DEF Check, Abort
  <2>2. Shows(Head(job))'
    BY <1>1, <2>1 DEF IInv, Replaced, Shows
  <2>3. gui' \in {"put", "abort", "crashed"}
    BY <1>3 DEF Check, Abort
  <2> QED
    BY <2>2, <2>3
<1>4. CASE Put
  <2>1. job \in Seq(Tasks) /\ job # <<>> /\ queue \in Seq(Tasks)
    BY <1>4 DEF Put, IInv, ImagesTypeOK, JobLeft
  <2>2. Head(job) \in Tasks /\ queue' \in {Append(queue, Head(job)), <<Head(job)>> \o queue}
    BY <1>4, <2>1 DEF Put, With
  <2>3. Has(queue', Head(job)) /\ \A i \in DOMAIN queue : Has(queue', queue[i])
    BY <2>1, <2>2, AtTheEnd, InFront
  <2>4. SomeShows(queue) \/ Shows(Head(job)) => SomeShows(queue)'
    BY <1>1, <2>3 DEF SomeShows, Shows, Has
  <2>5. InThread => InThread'
    BY <1>1, <1>4 DEF Put, imageThread, InThread, SomeShows, Shows
  <2> QED
    BY <1>1, <1>4, <2>4, <2>5 DEF Put, IInv
<1>5. CASE Start
  <2>1. SomeShows(queue) => SomeShows(queue)'
    BY <1>1, <1>5 DEF Start, SomeShows, Shows
  <2>2. InThread => InThread'
    BY <1>1, <1>5 DEF Start, IsRunning, InThread, SomeShows, Shows
  <2> QED
    BY <1>1, <1>5, <2>1, <2>2 DEF Start, IInv
<1> QED
  BY <1>2, <1>3, <1>4, <1>5 DEF AddTask

\* The view gives a new page to addTask(), and takes the results: that of the
\* page ends the wait, or the rendering has failed.
LEMMA ViewOnItsWay ==
    ASSUME IInv, ImageUser \/ OnPrerendering \/ OnImageReady \/ ClearTasks
    PROVE  OnItsWay'
<1> USE DEF OnItsWay, Stopping
<1>1. ASSUME NEW p \in Pages, Turn(p) PROVE OnItsWay'
  BY <1>1 DEF Turn
<1>2. CASE CloseImages \/ ClearTasks
  BY <1>2 DEF CloseImages, ClearTasks
<1>3. CASE OnPrerendering
  <2>1. gui = "idle" /\ UNCHANGED <<page, waiting, failed, queue, cur, held, thread, ready>>
    BY <1>3 DEF OnPrerendering, imageThread
  <2> QED
    BY <2>1 DEF IInv, InThread, SomeShows, Shows
<1>4. CASE OnImageReady
  <2>1. gui = "idle" /\ gui' = gui /\ UNCHANGED <<page, queue, cur, held, thread>>
    BY <1>4 DEF OnImageReady
  <2>2. ready # <<>> /\ ready' = Tail(ready)
    BY <1>4 DEF OnImageReady
  <2> DEFINE result == Head(ready)
             found == result.task.show /\ waiting /\ result.task.page = page
             shown == found /\ result.done
  <2>3. waiting' = (waiting /\ ~shown) /\ failed' = (failed \/ (found /\ ~result.done))
    BY <1>4 DEF OnImageReady
  <2>4. CASE Shows(result.task)
    BY <2>3, <2>4 DEF Shows
  <2>5. CASE ~Shows(result.task)
    <3>1. \A i \in DOMAIN ready :
            ready[i] = result \/ \E j \in DOMAIN ready' : ready'[j] = ready[i]
      BY <2>2, HeadOrTail DEF IInv, ImagesTypeOK
    <3>2. InThread => InThread'
      BY <2>1, <2>5, <3>1 DEF InThread, SomeShows, Shows
    <3> QED
      BY <2>1, <2>3, <3>2 DEF IInv, SomeShows, Shows
  <2> QED
    BY <2>4, <2>5
<1> QED
  BY <1>1, <1>2, <1>3, <1>4 DEF ImageUser

\* The thread takes tasks out of the queue to itself, and reports what it did.
LEMMA ExecuteOnItsWay ==
    ASSUME IInv, Execute
    PROVE  OnItsWay'
<1> DEFINE Way == SomeShows(queue) \/ InThread
<1>1. UNCHANGED <<page, waiting, requests, failed, gui, job>>
  BY DEF Execute, Look, TakeLast, Leave, Switch, Exec, Render, RenderFails,
         Report, Delete, Retrieve, Take, imageView
<1>2. ImagesTypeOK /\ ThreadHolds /\ (waiting => page \in requests)
  BY DEF IInv, WaitedForIsRequested
<1>3. ASSUME waiting, Way PROVE Way'
  <2> USE DEF InThread, SomeShows, Shows
  <2>1. CASE Look \/ Retrieve
    <3>1. /\ GrabFront /\ UNCHANGED ready
          /\ held = <<>> /\ cur.status \notin {"wait", "run"}
          /\ thread \notin {"render", "report"}
      BY <1>2, <2>1, NothingTyped DEF Look, Retrieve, ThreadHolds
    <3>2. SomeShows(queue) \/ \E i \in DOMAIN ready : Shows(ready[i].task)
      BY <1>3, <3>1
    <3>3. CASE \E i \in DOMAIN ready : Shows(ready[i].task)
      BY <1>1, <3>1, <3>3
    <3>4. CASE SomeShows(queue)
      <4>1. queue \in Seq(Tasks) /\ queue # <<>>
        BY <1>2, <3>4 DEF ImagesTypeOK
      <4>2. held' = <<Head(queue)>> /\ queue' = Tail(queue)
        BY <3>1, <4>1 DEF GrabFront
      <4>3. 1 \in DOMAIN held' /\ held'[1] = Head(queue)
        BY <4>1, <4>2, HeadOrTail
      <4>4. \A i \in DOMAIN queue :
              queue[i] = held'[1] \/ \E j \in DOMAIN queue' : queue'[j] = queue[i]
        BY <4>1, <4>2, <4>3, HeadOrTail
      <4> QED
        BY <1>1, <3>4, <4>3, <4>4
    <3> QED
      BY <3>2, <3>3, <3>4
  <2>2. CASE TakeLast \/ Take
    <3>1. /\ Assign /\ UNCHANGED <<queue, ready>>
          /\ cur.status \notin {"wait", "run"} /\ thread \notin {"render", "report"}
      BY <1>2, <2>2, NothingTyped DEF TakeLast, Take, ThreadHolds
    <3>2. CASE SomeShows(held)
      <4>1. held \in Seq(Tasks) /\ held # <<>> /\ Len(held) = 1
        <5>1. held \in Seq(Tasks) /\ Len(held) \in Nat /\ Len(held) <= 1
          BY <1>2 DEF ImagesTypeOK
        <5>2. PICK i \in DOMAIN held : Shows(held[i])
          BY <3>2
        <5>3. i \in 1..Len(held)
          BY <5>1, <5>2
        <5> QED
          BY <5>1, <5>3
      <4>2. Shows(held[1])
        BY <3>2, <4>1
      <4>3. cur' = [task |-> held[1], status |-> "wait"]
        BY <3>1, <4>1 DEF Assign
      <4>4. Shows(cur.task)' /\ cur'.status = "wait"
        BY <1>1, <4>2, <4>3
      <4> QED
        BY <4>4
    <3>3. CASE SomeShows(queue) \/ \E i \in DOMAIN ready : Shows(ready[i].task)
      BY <1>1, <3>1, <3>3
    <3> QED
      BY <1>3, <3>1, <3>2, <3>3
  <2>3. CASE Leave \/ Switch
    <3>1. /\ UNCHANGED <<queue, held, cur, ready>>
          /\ thread \notin {"render", "report"}
      BY <2>3 DEF Leave, Switch
    <3> QED
      BY <1>1, <1>3, <3>1
  <2>4. CASE Exec
    <3>1. UNCHANGED <<queue, held, ready>> /\ thread = "exec"
      BY <2>4 DEF Exec
    <3>2. CASE Shows(cur.task)
      <4>1. cur' = [cur EXCEPT !.status = "run"]
        BY <1>2, <1>3, <2>4, <3>2 DEF Exec
      <4>2. cur'.task = cur.task /\ cur'.status = "run"
        BY <1>2, <4>1 DEF ImagesTypeOK
      <4> QED
        BY <1>1, <3>2, <4>2
    <3>3. CASE ~Shows(cur.task)
      BY <1>1, <1>3, <3>1, <3>3
    <3> QED
      BY <3>2, <3>3
  <2>5. CASE Render \/ RenderFails
    <3>1. UNCHANGED <<queue, held, cur, ready>> /\ thread' = "report"
      BY <2>5 DEF Render, RenderFails
    <3> QED
      BY <1>1, <1>3, <3>1
  <2>6. CASE Report
    <3>1. UNCHANGED <<queue, held>>
      BY <2>6 DEF Report
    <3> DEFINE result == [task |-> cur.task, done |-> cur.task.page \in rendered]
    <3>2. result \in [task : Tasks, done : BOOLEAN]
      BY <1>2 DEF ImagesTypeOK
    <3>3. ready' = Append(ready, result) /\ ready \in Seq([task : Tasks, done : BOOLEAN])
      BY <1>2, <2>6 DEF Report, ImagesTypeOK
    <3>4. result.task = cur.task
      OBVIOUS
    <3> HIDE DEF result
    <3>5. Has(ready', result) /\ \A i \in DOMAIN ready : Has(ready', ready[i])
      BY <3>2, <3>3, AtTheEnd
    <3> QED
      BY <1>1, <1>3, <3>1, <3>4, <3>5 DEF Has
  <2>7. CASE Delete
    <3>1. UNCHANGED <<queue, held, ready>> /\ thread = "delete" /\ cur.status = "stop"
      BY <1>2, <2>7 DEF Delete, ThreadHolds
    <3> QED
      BY <1>1, <1>3, <3>1
  <2> QED
    BY <2>1, <2>2, <2>3, <2>4, <2>5, <2>6, <2>7 DEF Execute
<1>4. Shows(Head(job))' <=> Shows(Head(job))
  BY <1>1 DEF Shows
<1> QED
  BY <1>1, <1>3, <1>4 DEF IInv, OnItsWay, Stopping

-----------------------------------------------------------------------------
(* The theorems.                                                           *)

LEMMA IInvStarts == InitImages => IInv
<1> SUFFICES ASSUME InitImages PROVE IInv
  OBVIOUS
<1>1. /\ page = 0 /\ waiting = FALSE /\ requests = {} /\ rendering = {} /\ timer = FALSE
      /\ gui = "idle" /\ job = <<>> /\ queue = <<>> /\ cur = Nothing /\ held = <<>>
      /\ thread = "off" /\ rendered = {} /\ ready = <<>> /\ failed = FALSE /\ late = FALSE
  BY DEF InitImages
<1>2. ImagesTypeOK
  <2>1. page \in Pages /\ requests \subseteq 0..Total /\ rendering \subseteq requests
    BY <1>1, ImageAssumption DEF Pages
  <2>2. job \in Seq(Tasks) /\ queue \in Seq(Tasks) /\ held \in Seq(Tasks)
        /\ Len(held) <= 1 /\ ready \in Seq([task : Tasks, done : BOOLEAN])
    BY <1>1, Singles
  <2>3. /\ cur \in [task : Tasks, status : {"none", "wait", "run", "stop", "freed"}]
        /\ thread \in Steps /\ rendered \subseteq Pages
    BY <1>1, NothingTyped DEF Steps
  <2>4. /\ waiting \in BOOLEAN /\ timer \in BOOLEAN
        /\ failed \in BOOLEAN /\ late \in BOOLEAN
    BY <1>1
  <2> QED
    BY <1>1, <2>1, <2>2, <2>3, <2>4 DEF ImagesTypeOK
<1>3. JobLeft /\ ThreadHolds /\ NoneLeftBehind /\ Replaced
  BY <1>1 DEF JobLeft, ThreadHolds, NoneLeftBehind, Replaced, Stopping
<1>4. OnItsWay /\ WaitedForIsRequested
  BY <1>1 DEF OnItsWay, WaitedForIsRequested
<1> QED
  BY <1>2, <1>3, <1>4 DEF IInv

LEMMA IInvStep == IInv /\ [NextImages]_imageVars => IInv'
<1> SUFFICES ASSUME IInv, [NextImages]_imageVars PROVE IInv'
  OBVIOUS
<1>1. /\ ImagesTypeOK' /\ JobLeft' /\ ThreadHolds' /\ NoneLeftBehind'
      /\ Replaced' /\ WaitedForIsRequested'
  BY TypeStep, HoldsStep, LeftBehindStep, ReplacedStep, RequestedStep DEF IInv
<1>2. OnItsWay'
  <2>1. CASE Over \/ UNCHANGED imageVars
    BY <2>1 DEF Over, imageVars, IInv, OnItsWay, InThread, SomeShows, Shows
  <2> QED
    BY <2>1, ViewOnItsWay, AddOnItsWay, ExecuteOnItsWay DEF NextImages
<1> QED
  BY <1>1, <1>2 DEF IInv

LEMMA IInvAlways == SpecImages => []IInv
  BY IInvStarts, IInvStep, PTL DEF SpecImages

\* Every variable keeps its shape, however many results and tasks wait.
THEOREM ImagesTypeCorrect == SpecImages => []ImagesTypeOK
<1>1. IInv => ImagesTypeOK
  BY DEF IInv
<1> QED
  BY <1>1, IInvAlways, PTL

\* Whenever a task waits, a thread is going to look for it, or it came between
\* the last look of a thread and its end.
THEOREM TasksAreTaken == SpecImages => []NoTaskLeftBehind
<1>1. IInv => NoTaskLeftBehind
  BY DEF IInv, NoneLeftBehind, NoTaskLeftBehind
<1> QED
  BY <1>1, IInvAlways, PTL

\* The page that the user waits for is never lost between the two threads.
THEOREM PageIsNotLost == SpecImages => []PageOnItsWay
<1>1. IInv => PageOnItsWay
  BY DEF IInv, OnItsWay, Stopping, InThread, SomeShows, PageOnItsWay
<1> QED
  BY <1>1, IInvAlways, PTL

\* The thread never works on a task that was deleted under it.
THEOREM TaskIsOwned == SpecImages => []ThreadOwnsTask
<1>1. IInv => ThreadOwnsTask
  BY DEF IInv, ThreadHolds, ThreadOwnsTask
<1> QED
  BY <1>1, IInvAlways, PTL

-----------------------------------------------------------------------------
(* The thread comes to its end.                                            *)

\* How many steps are left, place by place.
Table ==
    /\ thread = "off" => StepsLeft = 0
    /\ thread = "leave" => StepsLeft = 1
    /\ thread = "take last" => StepsLeft = 2
    /\ thread = "look" => StepsLeft = 3
    /\ thread = "take" => StepsLeft = 4
    /\ thread = "retrieve" => StepsLeft = 5
    /\ thread = "delete" => StepsLeft = 6
    /\ thread = "report" => StepsLeft = 8
    /\ thread = "render" => StepsLeft = 9
    /\ thread = "exec" => StepsLeft = 10
    /\ thread = "switch" /\ cur.status = "stop" => StepsLeft = 7
    /\ thread = "switch" /\ cur.status # "stop" => StepsLeft = 11

\* What the table says is what StepsLeft counts.
LEMMA StepsTable == Table
<1>1. /\ thread = "off" => StepsLeft = 0
      /\ thread = "leave" => StepsLeft = 1
      /\ thread = "take last" => StepsLeft = 2
      /\ thread = "look" => StepsLeft = 3
  BY DEF StepsLeft
<1>2. /\ thread = "take" => StepsLeft = 4
      /\ thread = "retrieve" => StepsLeft = 5
      /\ thread = "delete" => StepsLeft = 6
      /\ thread = "report" => StepsLeft = 8
  BY DEF StepsLeft
<1>3. /\ thread = "render" => StepsLeft = 9
      /\ thread = "exec" => StepsLeft = 10
      /\ thread = "switch" /\ cur.status = "stop" => StepsLeft = 7
      /\ thread = "switch" /\ cur.status # "stop" => StepsLeft = 11
  BY DEF StepsLeft
<1> QED
  BY <1>1, <1>2, <1>3 DEF Table

\* What is waiting for the thread and held by it.
LEMMA Counted ==
    ASSUME ImagesTypeOK
    PROVE  /\ Len(queue) \in Nat /\ Len(held) \in Nat
           /\ held = <<>> => Len(held) = 0
           /\ held # <<>> => Len(held) > 0
           /\ StepsLeft \in Nat
           /\ ThreadLeft \in Nat
<1>1. Len(queue) \in Nat /\ Len(held) \in Nat
  BY DEF ImagesTypeOK
<1>2. held = <<>> => Len(held) = 0
  OBVIOUS
<1>3. held # <<>> => Len(held) > 0
  BY HeadOrTail DEF ImagesTypeOK
<1>4. StepsLeft \in Nat
  <2>1. \/ StepsLeft = 0 \/ StepsLeft = 1 \/ StepsLeft = 2 \/ StepsLeft = 3
        \/ StepsLeft = 4 \/ StepsLeft = 5 \/ StepsLeft = 6 \/ StepsLeft = 7
        \/ StepsLeft = 8 \/ StepsLeft = 9 \/ StepsLeft = 10 \/ StepsLeft = 11
    <3>1. \/ thread = "off" \/ thread = "look" \/ thread = "take last" \/ thread = "leave"
          \/ thread = "switch" \/ thread = "exec" \/ thread = "render" \/ thread = "report"
          \/ thread = "delete" \/ thread = "retrieve" \/ thread = "take"
      BY DEF ImagesTypeOK, Steps
    <3> QED
      BY <3>1, StepsTable, Zenon DEF Table
  <2> QED
    BY <2>1
<1> QED
  BY <1>1, <1>2, <1>3, <1>4 DEF ThreadLeft

\* A task that is taken out of the queue is held instead.
LEMMA GrabCounted ==
    ASSUME ImagesTypeOK, held = <<>>, GrabFront
    PROVE  Len(queue') + Len(held') = Len(queue)
<1>1. CASE queue = <<>> /\ held' = <<>> /\ UNCHANGED queue
  BY <1>1
<1>2. CASE queue # <<>> /\ held' = <<Head(queue)>> /\ queue' = Tail(queue)
  <2>1. Len(queue') = Len(queue) - 1 /\ Len(queue) \in Nat
    BY <1>2, HeadOrTail DEF ImagesTypeOK
  <2>2. Len(held') = 1
    BY <1>2
  <2> QED
    BY <2>1, <2>2
<1> QED
  BY <1>1, <1>2 DEF GrabFront

\* Fewer steps, or a task less and a step to go round the loop, are less to do.
LEMMA Lighter ==
    ASSUME NEW q \in Nat, NEW h \in Nat, NEW s \in Nat,
           NEW q2 \in Nat, NEW h2 \in Nat, NEW s2 \in Nat,
           \/ q2 + h2 <= q + h /\ s2 < s
           \/ q2 + h2 < q + h /\ s2 < s + 10
    PROVE  10 * (q2 + h2) + s2 < 10 * (q + h) + s
  OBVIOUS

\* Every step of the thread leaves it less to do.
LEMMA ExecuteRunsDown ==
    ASSUME IInv, IInv', Execute
    PROVE  ThreadLeft' < ThreadLeft
<1>a. /\ Len(queue) \in Nat /\ Len(held) \in Nat /\ StepsLeft \in Nat
      /\ held = <<>> => Len(held) = 0
      /\ held # <<>> => Len(held) > 0
  BY Counted DEF IInv
<1>b. (ImagesTypeOK => Len(queue) \in Nat /\ Len(held) \in Nat /\ StepsLeft \in Nat)'
  BY Counted, PTL
<1>c. Len(queue') \in Nat /\ Len(held') \in Nat /\ StepsLeft' \in Nat
  BY <1>b DEF IInv
<1>s. Table'
  BY StepsTable, PTL
<1>1. ASSUME Look \/ Retrieve PROVE ThreadLeft' < ThreadLeft
  <2>1. GrabFront /\ held = <<>>
    BY <1>1 DEF Look, Retrieve, IInv, ThreadHolds
  <2>2. Len(queue') + Len(held') = Len(queue) /\ Len(held) = 0
    BY <1>a, <2>1, GrabCounted DEF IInv
  <2>3. \/ StepsLeft = 3 /\ StepsLeft' = 2
        \/ StepsLeft = 5 /\ StepsLeft' = 4
    <3>1. \/ thread = "look" /\ thread' = "take last"
          \/ thread = "retrieve" /\ thread' = "take"
      BY <1>1 DEF Look, Retrieve
    <3> QED
      BY <3>1, <1>s, StepsTable, Zenon DEF Table
  <2>4. StepsLeft' < StepsLeft
    BY <2>3
  <2>5. Len(queue') + Len(held') <= Len(queue) + Len(held)
    BY <1>a, <1>c, <2>2
  <2> QED
    BY <1>a, <1>c, <2>4, <2>5, Lighter DEF ThreadLeft
<1>2. ASSUME TakeLast \/ Take PROVE ThreadLeft' < ThreadLeft
  <2>1. /\ held' = <<>> /\ queue' = queue
        /\ \/ thread = "take last" /\ thread' = (IF held = <<>> THEN "leave" ELSE "switch")
           \/ thread = "take" /\ thread' = (IF held = <<>> THEN "look" ELSE "switch")
    BY <1>2 DEF TakeLast, Take, Assign
  <2>2. Len(held') = 0 /\ Len(queue') = Len(queue)
    BY <2>1
  <2>3. CASE held = <<>>
    <3>1. \/ StepsLeft = 2 /\ StepsLeft' = 1
          \/ StepsLeft = 4 /\ StepsLeft' = 3
      BY <2>1, <2>3, <1>s, StepsTable, Zenon DEF Table
    <3>2. StepsLeft' < StepsLeft /\ Len(held) = 0
      BY <1>a, <2>3, <3>1
    <3> QED
      BY <1>a, <1>c, <2>2, <3>2, Lighter DEF ThreadLeft
  <2>4. CASE held # <<>>
    <3>1. StepsLeft = 2 \/ StepsLeft = 4
      BY <2>1, StepsTable, Zenon DEF Table
    <3>2. StepsLeft' = 7 \/ StepsLeft' = 11
      BY <2>1, <2>4, <1>s, Zenon DEF Table
    <3>3. StepsLeft >= 2 /\ Len(held) > 0 /\ StepsLeft' <= 11
      BY <1>a, <2>4, <3>1, <3>2
    <3> QED
      BY <1>a, <1>c, <2>2, <3>3, Lighter DEF ThreadLeft
  <2> QED
    BY <2>3, <2>4
<1>3. ASSUME Leave \/ Switch \/ Exec \/ Render \/ RenderFails \/ Report \/ Delete
      PROVE  ThreadLeft' < ThreadLeft
  <2>1. queue' = queue /\ held' = held
    BY <1>3 DEF Leave, Switch, Exec, Render, RenderFails, Report, Delete
  <2>2. cur \in [task : Tasks, status : {"none", "wait", "run", "stop", "freed"}]
    BY DEF IInv, ImagesTypeOK
  <2>3. StepsLeft' < StepsLeft
    <3>1. CASE Leave \/ Render \/ RenderFails \/ Delete
      <4>1. \/ thread = "leave" /\ thread' = "off"
            \/ thread = "render" /\ thread' = "report"
            \/ thread = "delete" /\ thread' = "retrieve"
        BY <3>1 DEF Leave, Render, RenderFails, Delete
      <4>2. \/ StepsLeft = 1 /\ StepsLeft' = 0
            \/ StepsLeft = 9 /\ StepsLeft' = 8
            \/ StepsLeft = 6 /\ StepsLeft' = 5
        BY <4>1, <1>s, StepsTable, Zenon DEF Table
      <4> QED
        BY <4>2
    <3>2. CASE Switch
      <4>1. /\ thread = "switch"
            /\ \/ cur.status = "stop" /\ thread' = "delete"
               \/ cur.status # "stop" /\ thread' = "exec"
        BY <3>2 DEF Switch, Handled
      <4>2. \/ StepsLeft = 7 /\ StepsLeft' = 6
            \/ StepsLeft = 11 /\ StepsLeft' = 10
        BY <4>1, <1>s, StepsTable, Zenon DEF Table
      <4> QED
        BY <4>2
    <3>3. CASE Exec
      <4>1. /\ thread = "exec"
            /\ \/ thread' = "render"
               \/ thread' = "switch" /\ cur'.status = "stop"
        BY <2>2, <3>3 DEF Exec
      <4>2. \/ StepsLeft = 10 /\ StepsLeft' = 9
            \/ StepsLeft = 10 /\ StepsLeft' = 7
        BY <4>1, <1>s, StepsTable, Zenon DEF Table
      <4> QED
        BY <4>2
    <3>4. CASE Report
      <4>1. thread = "report" /\ thread' = "switch" /\ cur'.status = "stop"
        BY <2>2, <3>4 DEF Report
      <4>2. StepsLeft = 8 /\ StepsLeft' = 7
        BY <4>1, <1>s, StepsTable, Zenon DEF Table
      <4> QED
        BY <4>2
    <3> QED
      BY <1>3, <3>1, <3>2, <3>3, <3>4
  <2>4. Len(queue') = Len(queue) /\ Len(held') = Len(held)
    BY <2>1
  <2> QED
    BY <1>a, <1>c, <2>3, <2>4, Lighter DEF ThreadLeft
<1> QED
  BY <1>1, <1>2, <1>3 DEF Execute

\* The thread goes round its loop once for each task and then ends, also a task
\* that is aborted in the middle, and close() adds nothing while it waits: the
\* part of CloseReturns that does not rest on fairness.
THEOREM ThreadEnds == SpecImages => [](ThreadLeft \in Nat) /\ ThreadRunsDown
<1>1. IInv => ThreadLeft \in Nat
  BY Counted DEF IInv
<1>2. ASSUME IInv, IInv', NextImages, gui = "closing"
      PROVE  Execute \/ gui' = "closed"
  BY <1>2 DEF NextImages, ImageUser, CloseImages, Turn, OnPrerendering, OnImageReady,
     AddTask, Clear, Check, Abort, Put, Start, ClearTasks, Over
<1>3. IInv /\ IInv' /\ [NextImages]_imageVars =>
        [/\ Execute => ThreadLeft' < ThreadLeft
         /\ gui = "closing" => Execute \/ gui' = "closed"]_imageVars
  BY <1>2, ExecuteRunsDown
<1> QED
  BY <1>1, <1>3, IInvAlways, PTL DEF SpecImages, ThreadRunsDown
=============================================================================
