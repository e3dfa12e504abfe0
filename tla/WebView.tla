------------------------------ MODULE WebView ------------------------------
(***************************************************************************)
(* Pages in the browser: the view with its history                         *)
(* (src/fixbrowser/browser/view/view.fix), the page workers that load      *)
(* (worker/worker.fix, worker/html.fix) and the tasks that fetch style     *)
(* sheets for them (worker/fetch_task.fix).                                *)
(*                                                                         *)
(* Each load has a worker of its own, a thread that reports to the view    *)
(* once; requests number the loads.  The view does not wait for a worker   *)
(* it has no use for any more: it leaves a message in the channel the      *)
(* worker looks at now and then, and ignores what comes from it.  A worker *)
(* asks the fetch tasks, through one channel for all, and gets the answers *)
(* through a channel of its own.  An action of the view is one event of    *)
(* the GUI thread; an action of a worker or a task ends at a channel.      *)
(***************************************************************************)
EXTENDS Integers, Sequences, FiniteSets, SequencesExt

CONSTANTS
    Url, NoUrl,
    SheetsOf,       \* how many style sheets each page has
    BadScript,      \* the pages whose addresses make a script of the browser fail
    Task,           \* the fetch tasks
    QueueSize,      \* the size of fetch_channel (1000 in the code)
    ReplySize,      \* the size of each fetched_resources (1000 as well)
    MAX_REDIRECTS,
    LastRequest,    \* bound: the user loads nothing more from this request on
    MaxEntries,     \* bound on the length of the history
    MaxLive         \* bound: the user asks for no page while as many load

ASSUME WebViewAssumption ==
    /\ NoUrl \notin Url
    /\ SheetsOf \in [Url -> Nat] /\ BadScript \subseteq Url
    /\ IsFiniteSet(Task)
    /\ QueueSize \in Nat \ {0} /\ ReplySize \in Nat \ {0}
    /\ MAX_REDIRECTS \in Nat /\ LastRequest \in Nat \ {0} /\ MaxEntries \in Nat \ {0}
    /\ MaxLive \in Nat \ {0}

(* Back and an error count two requests more, each redirect one.           *)
Request == 1 .. (LastRequest + MAX_REDIRECTS + 2)
NoRequest == 0

VARIABLES
    entries,        \* the history: the url of each entry and its document, named by its url
    pos,            \* the entry of the view, the code's pos plus one
    reloading,
    document,       \* what the view shows
    requestId,
    cancelChannel,  \* the request whose cancel_channel the view has
    redirectCount,
    cancels,        \* the requests whose cancel_channel holds a message
    worker,         \* the worker of each request
    fetchQueue,     \* fetch_channel: for whom each requested sheet is
    task,           \* what each fetch task does, and for whom
    replies,        \* fetched_resources of each worker
    lost            \* history: failures a task could not deliver, for each worker

viewVars == <<entries, pos, reloading, document, requestId, cancelChannel, redirectCount>>
fetchVars == <<fetchQueue, task, replies, lost>>
vars == <<viewVars, cancels, worker, fetchVars>>

NoWorker == [pc |-> "none", url |-> NoUrl, kind |-> "none", to |-> NoUrl, todo |-> 0, missing |-> 0]
IdleTask == [pc |-> "idle", for |-> NoRequest]

Places == {"none", "connect", "respond", "sheets", "offer", "reported", "ended"}
Kinds == {"none", "redirect", "error", "cancelled", "content"}

TypeOK ==
    /\ entries \in Seq([url : Url, document : Url \cup {NoUrl}])
    /\ pos \in 0 .. Len(entries) /\ (entries # <<>> => pos > 0)
    /\ reloading \in BOOLEAN
    /\ document \in Url \cup {NoUrl}
    /\ requestId \in Request \cup {NoRequest}
    /\ cancelChannel \in Request \cup {NoRequest}
    /\ redirectCount \in 0 .. (MAX_REDIRECTS + 1)
    /\ cancels \subseteq Request
    /\ worker \in [Request -> [pc : Places, url : Url \cup {NoUrl}, kind : Kinds,
                               to : Url \cup {NoUrl}, todo : Nat, missing : Nat]]
    /\ fetchQueue \in Seq(Request) /\ Len(fetchQueue) <= QueueSize
    /\ task \in [Task -> [pc : {"idle", "answer", "failure"},
                          for : Request \cup {NoRequest}]]
    /\ replies \in [Request -> 0 .. ReplySize]
    /\ lost \in [Request -> Nat]

Init ==
    /\ entries = <<>> /\ pos = 0 /\ reloading = FALSE
    /\ document = NoUrl
    /\ requestId = NoRequest /\ cancelChannel = NoRequest /\ redirectCount = 0
    /\ cancels = {}
    /\ worker = [w \in Request |-> NoWorker]
    /\ fetchQueue = <<>>
    /\ task = [t \in Task |-> IdleTask]
    /\ replies = [w \in Request |-> 0]
    /\ lost = [w \in Request |-> 0]

-----------------------------------------------------------------------------
(* The view                                                                *)

(* The message is sent without a time limit: with one still in the channel *)
(* the GUI would stop here.                                                *)
SendCancel ==
    \/ cancelChannel = NoRequest /\ cancels' = cancels
    \/ cancelChannel \in Request \ cancels /\ cancels' = cancels \cup {cancelChannel}

(* worker_load_url, for the request number n.                              *)
Load(workers, n, u) ==
    /\ SendCancel
    /\ requestId' = n /\ cancelChannel' = n
    /\ worker' = [workers EXCEPT ![n] = [NoWorker EXCEPT !.pc = "connect", !.url = u]]

(* Mutant: the request stays the current one.                              *)
CancelStaysCurrent ==
    SendCancel /\ cancelChannel' = NoRequest /\ requestId' = requestId

(* worker_cancel                                                           *)
Cancel == SendCancel /\ cancelChannel' = NoRequest /\ requestId' = requestId + 1

(* HistoryEntry.update: the entry gets what the view shows.                *)
Updated == IF pos = 0 THEN entries ELSE [entries EXCEPT ![pos].document = document]

(* History.add                                                             *)
Added(u, shown) == Append(SubSeq(Updated, 1, pos), [url |-> u, document |-> shown])

Busy == requestId >= LastRequest
Loading(w) == worker[w].pc \notin {"none", "ended"}
Crowded == Cardinality({w \in Request : Loading(w)}) >= MaxLive

OpenUrl(u) ==
    /\ ~Busy /\ ~Crowded /\ pos < MaxEntries
    /\ entries' = Added(u, NoUrl) /\ pos' = pos + 1
    /\ reloading' = FALSE /\ redirectCount' = 0
    /\ Load(worker, requestId + 1, u)
    /\ UNCHANGED <<document, fetchVars>>

(* Mutant: the request under way stays the current one.                    *)
OpenImageBeside(u) ==
    /\ ~Busy /\ document # NoUrl /\ pos < MaxEntries
    /\ entries' = Added(u, u) /\ pos' = pos + 1
    /\ reloading' = FALSE
    /\ document' = u
    /\ UNCHANGED <<requestId, cancelChannel, redirectCount, cancels, worker, fetchVars>>

(* An image of the page that is shown is opened by itself, from memory.    *)
OpenImage(u) ==
    /\ ~Busy /\ document # NoUrl /\ pos < MaxEntries
    /\ entries' = Added(u, u) /\ pos' = pos + 1
    /\ reloading' = FALSE
    /\ document' = u
    /\ requestId' = requestId + 1
    /\ UNCHANGED <<cancelChannel, redirectCount, cancels, worker, fetchVars>>

(* Back or forward: the entry has its document, or it is loaded again,     *)
(* after worker_cancel has taken a number for itself.                      *)
GoTo(p) ==
    /\ pos > 0 /\ p \in DOMAIN entries
    /\ entries' = Updated /\ pos' = p
    /\ reloading' = FALSE
    /\ \/ /\ entries[p].document # NoUrl /\ requestId <= LastRequest
          /\ Cancel
          /\ document' = entries[p].document
          /\ UNCHANGED <<redirectCount, worker>>
       \/ /\ entries[p].document = NoUrl /\ ~Busy /\ ~Crowded
          /\ Load(worker, requestId + 2, entries[p].url)
          /\ redirectCount' = 0
          /\ UNCHANGED document
    /\ UNCHANGED fetchVars

Back == GoTo(pos - 1)
Forward == GoTo(pos + 1)

Reload ==
    /\ ~Busy /\ ~Crowded /\ pos > 0 /\ ~reloading
    /\ reloading' = TRUE /\ redirectCount' = 0
    /\ Load(worker, requestId + 1, entries[pos].url)
    /\ UNCHANGED <<entries, pos, document, fetchVars>>

(* stop and History.stop: a last entry that is not reloaded goes.          *)
StopLoading ==
    /\ cancelChannel # NoRequest
    /\ Cancel
    /\ reloading' = FALSE
    /\ IF ~reloading /\ pos > 0 /\ pos = Len(entries)
       THEN entries' = Front(entries) /\ pos' = pos - 1
       ELSE UNCHANGED <<entries, pos>>

Stop == ~Busy /\ StopLoading /\ UNCHANGED <<document, redirectCount, worker, fetchVars>>

User ==
    \/ \E u \in Url : OpenUrl(u) \/ OpenImage(u)
    \/ Back \/ Forward \/ Reload \/ Stop

-----------------------------------------------------------------------------
(* worker_handler: the report of a worker, dropped when it is not of the   *)
(* current request.                                                        *)

Done(w) == [worker EXCEPT ![w] = [NoWorker EXCEPT !.pc = "ended"]]

Drop(w) == w # requestId /\ worker' = Done(w) /\ UNCHANGED <<viewVars, cancels>>

(* show_document and History.update                                        *)
Show(w) ==
    /\ worker[w].kind = "content"
    /\ document' = worker[w].url
    /\ entries' = [entries EXCEPT ![pos].document = worker[w].url]
    /\ reloading' = FALSE
    /\ worker' = Done(w)
    /\ UNCHANGED <<pos, requestId, cancelChannel, redirectCount, cancels>>

Redirect(w) ==
    /\ worker[w].kind = "redirect"
    /\ entries' = [entries EXCEPT ![pos] = [url |-> worker[w].to, document |-> NoUrl]]
    /\ reloading' = FALSE
    /\ redirectCount' = redirectCount + 1
    /\ \/ redirectCount < MAX_REDIRECTS /\ Load(Done(w), requestId + 1, worker[w].to)
       \/ /\ redirectCount >= MAX_REDIRECTS /\ worker' = Done(w)
          /\ UNCHANGED <<requestId, cancelChannel, cancels>>
    /\ UNCHANGED <<pos, document>>

(* After an error the view stops as if the user had asked for it.          *)
Fail(w) ==
    /\ worker[w].kind \in {"error", "cancelled"}
    /\ StopLoading
    /\ worker' = Done(w)
    /\ UNCHANGED <<document, redirectCount>>

Handle(w) ==
    /\ worker[w].pc = "reported"
    /\ Drop(w) \/ (w = requestId /\ (Show(w) \/ Redirect(w) \/ Fail(w)))
    /\ UNCHANGED fetchVars

-----------------------------------------------------------------------------
(* A page worker: real_load_url, then process_document                     *)

At(w, pc) == worker[w].pc = pc

Report(w, kind, u) ==
    worker' = [worker EXCEPT
        ![w] = [@ EXCEPT !.pc = "reported", !.kind = kind, !.to = u, !.todo = 0, !.missing = 0]]

(* Redirects, errors and exceptions may come up wherever the page and its  *)
(* server are looked at.  The view treats the two last alike.              *)
ReportTrouble(w) == Report(w, "error", NoUrl) \/ \E u \in Url : Report(w, "redirect", u)

(* cancel_check: the message of the view ends the request, with changes to *)
(* the worker that are made in any case.                                   *)
UnlessCancelled(w, changed) ==
    IF w \in cancels
    THEN cancels' = cancels \ {w} /\ Report(w, "cancelled", NoUrl)
    ELSE cancels' = cancels /\ worker' = [worker EXCEPT ![w] = changed]

WithSheets(w) == [worker[w] EXCEPT !.pc = "sheets", !.todo = SheetsOf[worker[w].url]]

(* The URL, the scripts of the browser and the connection: a script may    *)
(* replace the page at once.                                               *)
Connect(w) ==
    /\ At(w, "connect")
    /\ \/ ReportTrouble(w) /\ UNCHANGED cancels
       \/ worker' = [worker EXCEPT ![w] = WithSheets(w)] /\ UNCHANGED cancels
       \/ UnlessCancelled(w, [worker[w] EXCEPT !.pc = "respond"])
    /\ UNCHANGED <<viewVars, fetchVars>>

(* The answer of the server: a page with style sheets, or something shown  *)
(* as it is.                                                               *)
Respond(w) ==
    /\ At(w, "respond")
    /\ \/ ReportTrouble(w)
       \/ Report(w, "content", NoUrl)
       \/ worker' = [worker EXCEPT ![w] = WithSheets(w)]
    /\ UNCHANGED <<viewVars, cancels, fetchVars>>

(* handle_fetch: an answer, if there is one, makes cur_resources more when *)
(* it is a style sheet and total_resources less when it is not: of both,   *)
(* the difference counts, and is missing.                                  *)
HandleFetch(w, changed) ==
    /\ \/ /\ replies[w] > 0
          /\ replies' = [replies EXCEPT ![w] = @ - 1]
          /\ UnlessCancelled(w, [changed EXCEPT !.missing = @ - 1])
       \/ /\ replies[w] = 0 /\ UNCHANGED replies
          /\ UnlessCancelled(w, changed)
    /\ UNCHANGED <<viewVars, task, lost>>

(* The scripts of the browser rewrite the address of a sheet.              *)
RewriteFails(w) ==
    /\ At(w, "sheets") /\ worker[w].todo > 0 /\ worker[w].url \in BadScript
    /\ Report(w, "error", NoUrl)
    /\ UNCHANGED <<viewVars, cancels, fetchVars>>

NextSheet(w) ==
    /\ At(w, "sheets") /\ worker[w].todo > 0
    /\ HandleFetch(w, [worker[w] EXCEPT !.pc = "offer", !.todo = @ - 1, !.missing = @ + 1])
    /\ UNCHANGED fetchQueue

Offer(w) ==
    /\ At(w, "offer") /\ Len(fetchQueue) < QueueSize
    /\ fetchQueue' = Append(fetchQueue, w)
    /\ worker' = [worker EXCEPT ![w].pc = "sheets"]
    /\ UNCHANGED <<viewVars, cancels, task, replies, lost>>

(* Mutant: a request waits for room and for nothing else.                  *)
OfferPatiently(w) == At(w, "offer") /\ UNCHANGED vars

(* Every 100 ms without room for the request the answers get a look.       *)
OfferAgain(w) ==
    /\ At(w, "offer") /\ Len(fetchQueue) = QueueSize
    /\ HandleFetch(w, worker[w])
    /\ UNCHANGED fetchQueue

(* receive(-1): neither a time limit nor a look at cancel_channel.         *)
WaitForSheets(w) ==
    /\ At(w, "sheets") /\ worker[w].todo = 0 /\ worker[w].missing > 0
    /\ replies[w] > 0
    /\ HandleFetch(w, worker[w])
    /\ UNCHANGED fetchQueue

(* apply_css looks at the channel, the rest does not.                      *)
Apply(w) ==
    /\ At(w, "sheets") /\ worker[w].todo = 0 /\ worker[w].missing = 0
    /\ \/ \E kind \in {"content", "error"} : Report(w, kind, NoUrl) /\ UNCHANGED cancels
       \/ w \in cancels /\ UnlessCancelled(w, worker[w])
    /\ UNCHANGED <<viewVars, fetchVars>>

WorkerStep(w) ==
    \/ Connect(w) \/ Respond(w)
    \/ RewriteFails(w) \/ NextSheet(w) \/ Offer(w) \/ OfferAgain(w)
    \/ WaitForSheets(w) \/ Apply(w)

-----------------------------------------------------------------------------
(* A fetch task                                                            *)

(* Mutant: an error that is thrown gets no answer.                         *)
ServeOrThrow(t) ==
    /\ task[t].pc = "idle" /\ fetchQueue # <<>>
    /\ fetchQueue' = Tail(fetchQueue)
    /\ \/ task' = [task EXCEPT ![t] = [pc |-> "answer", for |-> Head(fetchQueue)]]
       \/ UNCHANGED task
    /\ UNCHANGED <<viewVars, cancels, worker, replies, lost>>

(* A request is taken and worked out, from the cache or from a server:     *)
(* there is an answer (the style sheet, a redirect, a failure), or an      *)
(* error is thrown.                                                        *)
Serve(t) ==
    /\ task[t].pc = "idle" /\ fetchQueue # <<>>
    /\ fetchQueue' = Tail(fetchQueue)
    /\ \E result \in {"answer", "failure"} :
        task' = [task EXCEPT ![t] = [pc |-> result, for |-> Head(fetchQueue)]]
    /\ UNCHANGED <<viewVars, cancels, worker, replies, lost>>

(* response.send, without a time limit, or send_failure, with one.         *)
Answer(t) ==
    LET w == task[t].for IN
    /\ task[t].pc # "idle" /\ replies[w] < ReplySize
    /\ replies' = [replies EXCEPT ![w] = @ + 1]
    /\ task' = [task EXCEPT ![t] = IdleTask]
    /\ UNCHANGED <<viewVars, cancels, worker, fetchQueue, lost>>

(* The time limit of send_failure: the worker gets no answer.              *)
GiveUp(t) ==
    LET w == task[t].for IN
    /\ task[t].pc = "failure" /\ replies[w] = ReplySize
    /\ lost' = [lost EXCEPT ![w] = @ + 1]
    /\ task' = [task EXCEPT ![t] = IdleTask]
    /\ UNCHANGED <<viewVars, cancels, worker, fetchQueue, replies>>

TaskStep(t) == Serve(t) \/ Answer(t) \/ GiveUp(t)

-----------------------------------------------------------------------------

Next ==
    \/ User
    \/ \E w \in Request : Handle(w) \/ WorkerStep(w)
    \/ \E t \in Task : TaskStep(t)

Spec == Init /\ [][Next]_vars

(* The GUI thread, the workers and the tasks go on, and a server answers   *)
(* or the connection fails in the end.  The user need not do anything.     *)
Fairness ==
    /\ \A w \in Request : WF_vars(Handle(w) \/ WorkerStep(w))
    /\ \A t \in Task : WF_vars(TaskStep(t))

FairSpec == Spec /\ Fairness

-----------------------------------------------------------------------------
(* Properties                                                              *)

(* The load whose report the view listens to is that of the entry it       *)
(* stands on, in whatever order the user goes, loads, stops and workers    *)
(* report.  It says nothing of documents: what the view shows meanwhile,   *)
(* and what Updated records in an entry it leaves, may be the page of      *)
(* another address.                                                        *)
LoadsTheCurrentEntry ==
    \A w \in Request : w = requestId /\ Loading(w) =>
        pos \in DOMAIN entries /\ entries[pos].url = worker[w].url

(* A cancel reaches the worker it is meant for, and that one only: what    *)
(* the view listens to can be stopped, with room for the message in the    *)
(* channel (the GUI would wait for it), and a worker that was cancelled is *)
(* not listened to, so that the end of the old page never stops the new    *)
(* one or takes its entry out of the history.                              *)
CancelsTheRightWorker ==
    /\ cancelChannel \notin cancels
    /\ \A w \in Request : w = requestId /\ Loading(w) =>
        cancelChannel = w /\ worker[w].kind # "cancelled"

(* What a worker still waits for is on its way: in the queue, with a task, *)
(* or answered, unless the answer was a failure that found no room.        *)
Outstanding(w) ==
    Cardinality({i \in DOMAIN fetchQueue : fetchQueue[i] = w})
    + Cardinality({t \in Task : task[t].for = w})
    + replies[w] + lost[w]
    + IF At(w, "offer") THEN 1 ELSE 0

WaitHasAnAnswer ==
    \A w \in Request : worker[w].pc \in {"sheets", "offer"} => worker[w].missing = Outstanding(w)

(* A task holds an answer for a worker that has gone, whose channel is     *)
(* full and stays so.                                                      *)
Jammed(t) ==
    /\ task[t].pc = "answer"
    /\ worker[task[t].for].pc \in {"reported", "ended"}
    /\ replies[task[t].for] = ReplySize

(* Once the user has asked for the last page all loads come to an end,     *)
(* cancelled or not, and their threads with them, unless an answer was     *)
(* lost or a task is jammed.                                               *)
EveryLoadEnds ==
    <>[](\A w \in Request : Loading(w) => lost[w] > 0 \/ \E t \in Task : Jammed(t))
=============================================================================
