------------------------------ MODULE ImageTasks ------------------------------
(***************************************************************************)
(* The image reader renders its pages in a thread of its own.              *)
(*                                                                         *)
(* The view gives ImageTasksHandler a task for the page it is to show,     *)
(* instead of all that wait and with the running one aborted, and further  *)
(* tasks for pages that may come next.  The thread ends when it finds no   *)
(* task, and is started again by the next task that finds it ended.        *)
(*                                                                         *)
(* Only the queue has a mutex.  The pointer to the current task, its       *)
(* status and the state of the thread are read and written by both         *)
(* threads: the actions here are the steps between such accesses.          *)
(***************************************************************************)
EXTENDS Integers, Sequences, SequencesExt

CONSTANTS
    Total,      \* number of pages
    Fit,        \* images that fit into memory
    MaxReady,   \* bound: results that wait when a page is turned
    MaxFurther  \* bound: further pages that wait when more are asked for

ASSUME ImageAssumption == Total \in Nat \ {0} /\ Fit \in Nat \ {0}
ASSUME ImageBoundsAssumption == MaxReady \in Nat /\ MaxFurther \in Nat

Pages == 0..Total - 1

VARIABLES
    page,       \* cur_image_index_: the page to show
    waiting,    \* layout_pages_ is not empty: the page is not shown yet
    requests,   \* ImageRenderPolicy: the pages worth rendering
    rendering,  \* rendering_pages_
    timer       \* single shots for onPrerendering() are pending: any number is one

VARIABLES
    gui,        \* where the GUI thread is: idle, or in addTask() or close()
    job,        \* the tasks it has still to add
    queue,      \* tasks_
    cur,        \* cur_task_ with its status, which may be freed
    held,       \* what grab_front() has returned to the thread
    thread,     \* where the thread is
    rendered,   \* the pages whose image is rendered
    ready,      \* results on their way to the view
    failed,     \* history: a rendering of the page has failed
    late        \* history: the last task came after the thread's last look

imageVars == <<page, waiting, requests, rendering, timer, gui, job, queue, cur,
               held, thread, rendered, ready, failed, late>>

imageView == <<page, waiting, requests, rendering, timer, failed>>
imageThread == <<held, thread, rendered, ready>>

Task(p, show) == [page |-> p, show |-> show]
Tasks == [page : Pages, show : BOOLEAN]
Nothing == [task |-> Task(0, FALSE), status |-> "none"]

InitImages ==
    /\ page = 0 /\ waiting = FALSE /\ requests = {} /\ rendering = {} /\ timer = FALSE
    /\ gui = "idle" /\ job = <<>>
    /\ queue = <<>> /\ cur = Nothing /\ held = <<>> /\ thread = "off"
    /\ rendered = {} /\ ready = <<>>
    /\ failed = FALSE /\ late = FALSE

-----------------------------------------------------------------------------
(* The view.                                                               *)

\* Mutant: any page is asked for.
AnyRequest(p) == {p}

\* addRequest(): page 0 is never asked for, a page beyond the last one may be.
AddRequest(p) == {p} \cap 1..Total

\* getRenderRequests(): the page, and those that may be next.
RenderRequests(current, previous) ==
    LET step == current - previous
        near == AddRequest(current + 1) \cup AddRequest(current - 1)
    IN  {current} \cup
        CASE step \in {-1, 1} -> AddRequest(current + step) \cup AddRequest(current + 2 * step)
          [] step \in {-5, 5} -> AddRequest(current + step) \cup near
          [] OTHER            -> near

\* Mutant: the page is given to the task before it is asked for.
RequestsBefore(p) == RenderRequests(page, p)

\* The requests when p becomes the page to show.
RequestsFor(p) == RenderRequests(p, page)

\* onLayoutDone(), renderImage(): a page that is rendered is shown at once.
Turn(p) ==
    /\ gui = "idle" /\ Len(ready) <= MaxReady
    /\ page' = p /\ requests' = RequestsFor(p) /\ failed' = FALSE
    /\ \/ /\ p \in rendered
          /\ waiting' = FALSE /\ timer' = TRUE /\ rendering' = requests' \ {p}
          /\ UNCHANGED <<gui, job>>
       \/ /\ p \notin rendered
          /\ waiting' = TRUE /\ rendering' = requests' /\ UNCHANGED timer
          /\ gui' = "clear" /\ job' = <<Task(p, TRUE)>>
    /\ UNCHANGED <<queue, cur, imageThread, late>>

\* A page that may come next.
Further(task) == ~task.show

\* onPrerendering(), prerenderImage(): only pages that exist.
OnPrerendering ==
    /\ gui = "idle" /\ timer
    /\ Len(SelectSeq(queue, Further)) <= MaxFurther /\ Len(ready) <= MaxReady
    /\ timer' = FALSE
    /\ job' = SetToSeq({Task(p, FALSE) : p \in rendering \cap Pages})
    /\ gui' = IF job' = <<>> THEN "idle" ELSE "put"
    /\ UNCHANGED <<page, waiting, requests, rendering, failed, queue, cur, imageThread, late>>

\* onImageReady(): the page is shown if it is still the one to show.
OnImageReady ==
    /\ gui = "idle" /\ ready # <<>>
    /\ LET result == Head(ready)
           found  == result.task.show /\ waiting /\ result.task.page = page
           shown  == found /\ result.done
       IN  /\ waiting' = (waiting /\ ~shown)
           /\ timer' = (timer \/ shown)
           /\ failed' = (failed \/ (found /\ ~result.done))
           /\ rendering' = IF result.task.show /\ ~shown THEN rendering
                           ELSE rendering \ {result.task.page}
    /\ ready' = Tail(ready)
    /\ UNCHANGED <<page, requests, gui, job, queue, cur, held, thread, rendered, late>>

-----------------------------------------------------------------------------
(* addTask() and close() in the GUI thread.                                *)

\* tasks_.clear()
Clear ==
    /\ gui = "clear"
    /\ queue' = <<>> /\ gui' = "check"
    /\ UNCHANGED <<imageView, job, cur, imageThread, late>>

\* abortCurTask(): is there a current task?
Check ==
    /\ gui = "check"
    /\ gui' = IF cur = Nothing THEN "put" ELSE "abort"
    /\ UNCHANGED <<imageView, job, queue, cur, imageThread, late>>

\* cur_task_ is read again and stopped.  It may be null by now, or freed: what
\* happens then is undefined.
Abort ==
    /\ gui = "abort"
    /\ \/ /\ cur.status \notin {"none", "freed"}
          /\ cur' = [cur EXCEPT !.status = "stop"] /\ gui' = "put"
       \/ cur.status = "freed" /\ gui' \in {"put", "crashed"} /\ UNCHANGED cur
       \/ cur.status = "none" /\ gui' = "crashed" /\ UNCHANGED cur
    /\ UNCHANGED <<imageView, job, queue, imageThread, late>>

\* Mutant: tasks_.clear() also for the pages that may be next.
PutAlone(task) == <<task>>

\* tasks_.prepend(t) for the page to show, tasks_.append(t) for others.
With(task) == IF task.show THEN <<task>> \o queue ELSE Append(queue, task)

Put ==
    /\ gui = "put"
    /\ queue' = With(Head(job))
    /\ gui' = "start"
    /\ UNCHANGED <<imageView, job, cur, imageThread, late>>

\* The thread has looked into the queue for the last time.
Leaving == thread = "leave" \/ (thread = "take last" /\ held = <<>>)

\* Mutant: the thread is started once.
StartedBefore == thread # "off" \/ rendered # {}

\* future_.isRunning()
IsRunning == thread # "off"

\* startThread(), unless it is running.
Start ==
    /\ gui = "start"
    /\ job' = Tail(job) /\ gui' = IF Len(job) = 1 THEN "idle" ELSE "put"
    /\ thread' = IF IsRunning THEN thread ELSE "look"
    /\ late' = Leaving
    /\ UNCHANGED <<imageView, queue, cur, held, rendered, ready>>

\* ImageModel::close()
CloseImages ==
    /\ gui = "idle" /\ gui' = "closing"
    /\ UNCHANGED <<imageView, job, queue, cur, imageThread, late>>

\* Mutant: the thread is cancelled, not waited for.
StoppedByCancel == TRUE

\* stopThread(): cancel() does not stop it, it is waited for.
Stopped == thread = "off"

\* clearTasks(), after stopThread()
ClearTasks ==
    /\ gui = "closing" /\ Stopped
    /\ gui' = "closed"
    /\ queue' = <<>> /\ cur' = Nothing
    /\ UNCHANGED <<imageView, job, imageThread, late>>

\* What is left when the document is closed, or the reader has crashed.
Over == gui \in {"closed", "crashed"} /\ UNCHANGED imageVars

-----------------------------------------------------------------------------
(* execute() in the thread.                                                *)

NotCrashed == gui # "crashed"

\* tasks_.grab_front()
GrabFront ==
    \/ queue = <<>> /\ held' = <<>> /\ UNCHANGED queue
    \/ queue # <<>> /\ held' = <<Head(queue)>> /\ queue' = Tail(queue)

\* The end of retrieveNextTask()
Assign ==
    /\ cur' = IF held = <<>> THEN Nothing ELSE [task |-> held[1], status |-> "wait"]
    /\ held' = <<>>

\* currentTask() when there is none: only this thread sets cur_task_, so where
\* there is one the loop goes on with it at once.
Look ==
    /\ NotCrashed /\ thread = "look"
    /\ thread' = "take last" /\ GrabFront
    /\ UNCHANGED <<imageView, gui, job, cur, rendered, ready, late>>

\* ... and if there is none, the loop ends.
TakeLast ==
    /\ NotCrashed /\ thread = "take last"
    /\ Assign
    /\ thread' = IF held = <<>> THEN "leave" ELSE "switch"
    /\ UNCHANGED <<imageView, gui, job, queue, rendered, ready, late>>

\* execute() returns, and the future has finished.
Leave ==
    /\ NotCrashed /\ thread = "leave"
    /\ thread' = "off"
    /\ UNCHANGED <<imageView, gui, job, queue, cur, held, rendered, ready, late>>

\* Mutant: a stopped task is not removed.
Stays(status) == IF status = "stop" THEN "switch" ELSE "exec"

\* switch (t->getStatus())
Handled(status) == IF status = "stop" THEN "delete" ELSE "exec"

Switch ==
    /\ NotCrashed /\ thread = "switch"
    /\ thread' = Handled(cur.status)
    /\ UNCHANGED <<imageView, gui, job, queue, cur, held, rendered, ready, late>>

\* RenderTask::exec(): the task runs, even if it was stopped just now, if its
\* page is still worth it.
Exec ==
    /\ NotCrashed /\ thread = "exec"
    /\ \/ /\ cur.task.page \in requests
          /\ cur' = [cur EXCEPT !.status = "run"] /\ thread' = "render"
       \/ /\ cur.task.page \notin requests
          /\ cur' = [cur EXCEPT !.status = "stop"] /\ thread' = "switch"
    /\ UNCHANGED <<imageView, gui, job, queue, held, rendered, ready, late>>

\* makeEnoughMemory()
Kept == {kept \in SUBSET rendered : Cardinality(kept) < Fit}

\* ImageItem::render(), if the image is not ready: others may be dropped to make
\* room for it.
Render ==
    /\ NotCrashed /\ thread = "render"
    /\ \/ cur.task.page \in rendered /\ UNCHANGED rendered
       \/ /\ cur.task.page \notin rendered
          /\ \E kept \in Kept : rendered' = kept \cup {cur.task.page}
    /\ thread' = "report"
    /\ UNCHANGED <<imageView, gui, job, queue, cur, held, ready, late>>

\* ... and may have been dropped in vain.
RenderFails ==
    /\ NotCrashed /\ thread = "render" /\ cur.task.page \notin rendered
    /\ rendered' \in Kept
    /\ thread' = "report"
    /\ UNCHANGED <<imageView, gui, job, queue, cur, held, ready, late>>

\* onImageReady() of the model: a signal to the other thread.
Report ==
    /\ NotCrashed /\ thread = "report"
    /\ ready' = Append(ready, [task |-> cur.task, done |-> cur.task.page \in rendered])
    /\ cur' = [cur EXCEPT !.status = "stop"]
    /\ thread' = "switch"
    /\ UNCHANGED <<imageView, gui, job, queue, held, rendered, late>>

\* delete cur_task_
Delete ==
    /\ NotCrashed /\ thread = "delete"
    /\ cur' = [cur EXCEPT !.status = "freed"]
    /\ thread' = "retrieve"
    /\ UNCHANGED <<imageView, gui, job, queue, held, rendered, ready, late>>

\* cur_task_ = 0, and grab_front() of retrieveNextTask()
Retrieve ==
    /\ NotCrashed /\ thread = "retrieve"
    /\ cur' = Nothing /\ GrabFront
    /\ thread' = "take"
    /\ UNCHANGED <<imageView, gui, job, rendered, ready, late>>

\* Its end: the thread sleeps, then looks again if there was none.
Take ==
    /\ NotCrashed /\ thread = "take"
    /\ Assign
    /\ thread' = IF held = <<>> THEN "look" ELSE "switch"
    /\ UNCHANGED <<imageView, gui, job, queue, rendered, ready, late>>

AddTask == Clear \/ Check \/ Abort \/ Put \/ Start
Execute ==
    \/ Look \/ TakeLast \/ Leave \/ Switch \/ Exec \/ Render \/ RenderFails
    \/ Report \/ Delete \/ Retrieve \/ Take
ImageUser == CloseImages \/ \E p \in Pages : Turn(p)

NextImages == ImageUser \/ OnPrerendering \/ OnImageReady \/ AddTask \/ ClearTasks \/ Execute \/ Over

SpecImages == InitImages /\ [][NextImages]_imageVars

\* Both threads go on, timers fire and signals arrive.  No page has to be turned.
FairImages ==
    /\ SpecImages
    /\ WF_imageVars(AddTask) /\ WF_imageVars(ClearTasks) /\ WF_imageVars(Execute)
    /\ WF_imageVars(OnImageReady) /\ WF_imageVars(OnPrerendering)

-----------------------------------------------------------------------------
Steps == {"off", "look", "take last", "leave", "switch", "exec", "render",
          "report", "delete", "retrieve", "take"}

\* Every variable keeps its shape.
ImagesTypeOK ==
    /\ page \in Pages
    /\ requests \subseteq 0..Total /\ rendering \subseteq requests
    /\ waiting \in BOOLEAN /\ timer \in BOOLEAN
    /\ gui \in {"idle", "clear", "check", "abort", "put", "start", "closing",
               "closed", "crashed"}
    /\ job \in Seq(Tasks) /\ queue \in Seq(Tasks)
    /\ cur \in [task : Tasks, status : {"none", "wait", "run", "stop", "freed"}]
    /\ held \in Seq(Tasks) /\ Len(held) <= 1
    /\ thread \in Steps
    /\ rendered \subseteq Pages
    /\ ready \in Seq([task : Tasks, done : BOOLEAN])
    /\ failed \in BOOLEAN /\ late \in BOOLEAN

\* "if the timer stops when adding, start it": a task waits only while a thread
\* is going to look for it, or if it came after the last look of a thread that
\* had not ended yet.
NoTaskLeftBehind == gui = "idle" /\ queue # <<>> => late \/ (thread # "off" /\ ~Leaving)

\* A task to show the page.
Shows(task) == task.show /\ task.page = page

\* The page that the user waits for is never lost among clear(), abort(),
\* pages that may be next, and the two threads: a task for it waits, is held or
\* runs and has not been stopped, or its result is on the way.
PageOnItsWay ==
    gui = "idle" /\ waiting /\ ~failed =>
        \/ \E i \in DOMAIN queue : Shows(queue[i])
        \/ \E i \in DOMAIN held : Shows(held[i])
        \/ Shows(cur.task) /\ cur.status \in {"wait", "run"}
        \/ Shows(cur.task) /\ thread \in {"render", "report"}
        \/ \E i \in DOMAIN ready : Shows(ready[i].task)

\* The thread works on a task that nobody else has deleted, also while the
\* document is closed, and holds none when it has ended.
ThreadOwnsTask ==
    /\ thread \in {"switch", "exec", "render", "report"} => cur.status \in {"wait", "run", "stop"}
    /\ thread = "off" => cur = Nothing

\* When the user stops turning pages, the page is shown, unless it cannot be
\* rendered or its task came too late for one thread and too early for the next.
PageShown ==
    <>[][~ImageUser]_imageVars
        /\ <>[](~failed /\ ~late /\ gui \notin {"closing", "closed", "crashed"})
        => <>[]~waiting

\* close() returns, whatever waits to be rendered.
CloseReturns == gui = "closing" ~> gui = "closed"

\* How many steps the thread has before it has ended, were the queue empty.
StepsLeft ==
    CASE thread = "off"       -> 0
      [] thread = "leave"     -> 1
      [] thread = "take last" -> 2
      [] thread = "look"      -> 3
      [] thread = "take"      -> 4
      [] thread = "retrieve"  -> 5
      [] thread = "delete"    -> 6
      [] thread = "switch"    -> IF cur.status = "stop" THEN 7 ELSE 11
      [] thread = "report"    -> 8
      [] thread = "render"    -> 9
      [] thread = "exec"      -> 10

\* What is left to do for the thread: a task costs more than it takes to go
\* round the loop once.
ThreadLeft == 10 * (Len(queue) + Len(held)) + StepsLeft

\* The thread comes to its end: it goes round its loop once for each task, never
\* for nothing, and while it is waited for nothing is added to its work.
ThreadRunsDown ==
    [][/\ Execute => ThreadLeft' < ThreadLeft
       /\ gui = "closing" => Execute \/ gui' = "closed"]_imageVars
=============================================================================
